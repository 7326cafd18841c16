--------------------------- MODULE ServicesProofs ---------------------------
(***************************************************************************)
(* Proofs about the storage console and the two pages with panels of their *)
(* own, the projects' and the memory's, and about the composition of the   *)
(* plugins: that each of them, among the others, is the one that was       *)
(* proved alone.  The launches, the sizes, the links, the projects, the    *)
(* memories and the calls in flight are any; so is the tree on disk.       *)
(***************************************************************************)
EXTENDS MCServices, ModelRouterProofs, PluginProofs, TreeScanProofs,
        FiniteSetTheorems, SequenceTheorems, WellFoundedInduction, TLAPS

-----------------------------------------------------------------------------
(* Sums of figures                                                        *)

(* What a figure for each place amounts to, as a set to be counted: each   *)
(* place with the numbers up to its figure.                                *)
Units(f, S) == {u \in S \X Nat : u[2] \in 1..f[u[1]]}

Figures(f, S) == IsFiniteSet(S) /\ \A x \in S : f[x] \in Nat

(* The function by which the community module computes a sum.              *)
Sums(g, f, S) ==
  g = [s \in SUBSET S |->
         IF s = {} THEN 0
         ELSE LET x == CHOOSE y \in s : TRUE IN f[x] + g[s \ {x}]]

(* One place has as many units as its figure says.                         *)
LEMMA UnitsOfOne ==
  ASSUME NEW f, NEW x, f[x] \in Nat
  PROVE  /\ IsFiniteSet(Units(f, {x}))
         /\ Cardinality(Units(f, {x})) = f[x]
<1> DEFINE up == [i \in 1..f[x] |-> <<x, i>>]
<1>1. up \in Bijection(1..f[x], Units(f, {x}))
  <2>1. up \in [1..f[x] -> Units(f, {x})]
    BY DEF Units
  <2>2. \A i, j \in 1..f[x] : up[i] = up[j] => i = j
    OBVIOUS
  <2>3. \A u \in Units(f, {x}) : \E i \in 1..f[x] : up[i] = u
    BY DEF Units
  <2> QED BY <2>1, <2>2, <2>3 DEF Bijection, Injection, Surjection, IsInjective
<1>2. IsFiniteSet(1..f[x]) /\ Cardinality(1..f[x]) = f[x]
  BY FS_Interval
<1>3. ExistsBijection(1..f[x], Units(f, {x}))
  BY <1>1 DEF ExistsBijection
<1> QED BY <1>2, <1>3, FS_Bijection

(* Taking one place out takes its figure's units out.                      *)
LEMMA UnitsOfMore ==
  ASSUME NEW f, NEW S, NEW x \in S, f[x] \in Nat, IsFiniteSet(Units(f, S \ {x}))
  PROVE  /\ IsFiniteSet(Units(f, S))
         /\ Cardinality(Units(f, S)) = f[x] + Cardinality(Units(f, S \ {x}))
<1> DEFINE one == Units(f, {x})
           rest == Units(f, S \ {x})
<1>1. Units(f, S) = one \cup rest
  BY DEF Units
<1>2. one \cap rest = {}
  BY DEF Units
<1>3. IsFiniteSet(one) /\ Cardinality(one) = f[x]
  BY UnitsOfOne
<1>4. Cardinality(rest) \in Nat
  BY FS_CardinalityType
<1>5. Cardinality(one \cap rest) = 0
  BY <1>2, FS_EmptySet
<1> HIDE DEF one, rest
<1>6. /\ IsFiniteSet(one \cup rest)
      /\ Cardinality(one \cup rest)
           = Cardinality(one) + Cardinality(rest) - Cardinality(one \cap rest)
  BY <1>3, FS_Union DEF rest
<1> QED BY <1>1, <1>3, <1>4, <1>5, <1>6 DEF rest

(* Finite sets of places: a set of them that is not empty has a smallest.  *)
LEMMA SmallestSubset ==
  ASSUME NEW S, IsFiniteSet(S), NEW T, T \subseteq SUBSET S, T # {}
  PROVE  \E s \in T : \A u \in T : u \subseteq s => u = s
<1> DEFINE R == StrictSubsetOrdering(S)
<1>1. FiniteSubsetsOf(S) = SUBSET S
  BY FS_FiniteSubsetsOfFinite
<1>2. IsWellFoundedOn(R, SUBSET S)
  BY <1>1, FS_StrictSubsetOrderingWellFounded
<1>3. \E s \in T : \A u \in T : ~ (<<u, s>> \in R)
  <2> HIDE DEF R
  <2> QED BY <1>2, WFMin
<1>4. PICK s \in T : \A u \in T : ~ (<<u, s>> \in R)
  BY <1>3
<1>5. \A u \in T : u \subseteq s => u = s
  BY <1>4 DEF StrictSubsetOrdering
<1> QED BY <1>5

(* Finitely many places have finitely many units, by induction over the    *)
(* finite sets of places.                                                  *)
LEMMA UnitsAreFinite ==
  ASSUME NEW f, NEW S, Figures(f, S)
  PROVE  \A s \in SUBSET S : IsFiniteSet(Units(f, s))
<1> DEFINE T == {s \in SUBSET S : ~ IsFiniteSet(Units(f, s))}
<1>1. SUFFICES ASSUME T # {} PROVE FALSE
  OBVIOUS
<1>2. PICK s \in T : \A u \in T : u \subseteq s => u = s
  <2>1. T \subseteq SUBSET S /\ IsFiniteSet(S)
    BY DEF Figures
  <2> HIDE DEF T
  <2> QED BY <1>1, <2>1, SmallestSubset
<1>3. CASE s = {}
  <2>1. Units(f, {}) = {}
    BY DEF Units
  <2> QED BY <1>2, <1>3, <2>1, FS_EmptySet
<1>4. CASE s # {}
  <2>1. PICK x \in s : TRUE
    BY <1>4
  <2>2. s \ {x} \in SUBSET S /\ s \ {x} # s /\ s \ {x} \subseteq s
    BY <1>2, <2>1
  <2>3. IsFiniteSet(Units(f, s \ {x}))
    BY <1>2, <2>2
  <2>4. f[x] \in Nat
    BY <2>1, <1>2 DEF Figures
  <2> QED BY <1>2, <2>1, <2>3, <2>4, UnitsOfMore
<1> QED BY <1>3, <1>4

(* The count of the units is a function the community module's sum could   *)
(* be.                                                                     *)
LEMMA UnitsAddUp ==
  ASSUME NEW f, NEW S, Figures(f, S)
  PROVE  Sums([s \in SUBSET S |-> Cardinality(Units(f, s))], f, S)
<1> DEFINE g == [s \in SUBSET S |-> Cardinality(Units(f, s))]
           next(s) == IF s = {} THEN 0
                      ELSE LET x == CHOOSE y \in s : TRUE IN f[x] + g[s \ {x}]
<1>1. ASSUME NEW s \in SUBSET S PROVE g[s] = next(s)
  <2>1. CASE s = {}
    <3>1. Units(f, {}) = {}
      BY DEF Units
    <3> QED BY <2>1, <3>1, FS_EmptySet
  <2>2. CASE s # {}
    <3> DEFINE x == CHOOSE y \in s : TRUE
    <3>1. x \in s
      BY <2>2
    <3> HIDE DEF x
    <3>2. f[x] \in Nat /\ s \ {x} \in SUBSET S
      BY <3>1 DEF Figures
    <3>3. Cardinality(Units(f, s)) = f[x] + Cardinality(Units(f, s \ {x}))
      BY <3>1, <3>2, UnitsAreFinite, UnitsOfMore
    <3>4. g[s] = f[x] + g[s \ {x}]
      BY <3>2, <3>3
    <3> QED BY <2>2, <3>4 DEF x
  <2> QED BY <2>1, <2>2
<1>2. g = [s \in SUBSET S |-> next(s)]
  BY <1>1
<1> QED BY <1>2 DEF Sums

(* There is one such function, by the same induction: a least set on which *)
(* two of them differ is none.                                             *)
LEMMA SumsAreUnique ==
  ASSUME NEW f, NEW S, IsFiniteSet(S), NEW g, NEW h, Sums(g, f, S), Sums(h, f, S)
  PROVE  g = h
<1> DEFINE T == {s \in SUBSET S : g[s] # h[s]}
<1>0. g = [s \in SUBSET S |-> g[s]] /\ h = [s \in SUBSET S |-> h[s]]
  BY DEF Sums
<1>1. SUFFICES ASSUME T # {} PROVE FALSE
  BY <1>0
<1>2. PICK s \in T : \A u \in T : u \subseteq s => u = s
  <2>1. T \subseteq SUBSET S
    OBVIOUS
  <2> HIDE DEF T
  <2> QED BY <1>1, <2>1, SmallestSubset
<1>3. CASE s = {}
  BY <1>2, <1>3 DEF Sums
<1>4. CASE s # {}
  <2> DEFINE x == CHOOSE y \in s : TRUE
  <2>1. x \in s
    BY <1>4
  <2>2. g[s] = f[x] + g[s \ {x}]
    BY <1>4, <1>2 DEF Sums
  <2>3. h[s] = f[x] + h[s \ {x}]
    BY <1>4, <1>2 DEF Sums
  <2> HIDE DEF x
  <2>4. g[s \ {x}] = h[s \ {x}]
    BY <1>2, <2>1
  <2> QED BY <1>2, <2>2, <2>3, <2>4
<1> QED BY <1>3, <1>4

(* So the community module's sum is the count of the units.                *)
LEMMA SumCounts ==
  ASSUME NEW f, NEW S, Figures(f, S)
  PROVE  MapThenSumSet(LAMBDA x : f[x], S) = Cardinality(Units(f, S))
<1> DEFINE g == [s \in SUBSET S |-> Cardinality(Units(f, s))]
           it == CHOOSE i : Sums(i, f, S)
<1>1. Sums(g, f, S)
  BY UnitsAddUp
<1>2. Sums(it, f, S)
  BY <1>1
<1>3. it = g
  BY <1>1, <1>2, SumsAreUnique DEF Figures
<1>4. MapThenSumSet(LAMBDA x : f[x], S) = it[S]
  BY DEF MapThenSumSet, MapThenFoldSet, Sums
<1> QED BY <1>3, <1>4

Total(f, S) == MapThenSumSet(LAMBDA x : f[x], S)
Lost(f, h, S) == MapThenSumSet(LAMBDA x : f[x] - h[x], S)

(* The same of a sum of figures as the model writes it.                    *)
LEMMA TotalCounts ==
  ASSUME NEW f, NEW S, Figures(f, S)
  PROVE  /\ Total(f, S) = Cardinality(Units(f, S))
         /\ IsFiniteSet(Units(f, S))
         /\ Total(f, S) \in Nat
<1>1. IsFiniteSet(Units(f, S))
  BY UnitsAreFinite
<1>2. Total(f, S) = Cardinality(Units(f, S))
  BY SumCounts DEF Total
<1> QED BY <1>1, <1>2, FS_CardinalityType

(* The places with smaller figures amount to less.                         *)
LEMMA TotalIsMonotone ==
  ASSUME NEW f, NEW h, NEW S, Figures(f, S), Figures(h, S),
         \A x \in S : f[x] <= h[x]
  PROVE  Total(f, S) <= Total(h, S)
<1>1. Units(f, S) \in SUBSET Units(h, S)
  BY DEF Units, Figures
<1> QED BY <1>1, TotalCounts, FS_Subset

(* One place with more raises the total by as much.                        *)
LEMMA TotalOfMore ==
  ASSUME NEW f, NEW h, NEW S, Figures(f, S), Figures(h, S), NEW x \in S,
         NEW more \in Nat, h[x] = f[x] + more, \A y \in S \ {x} : h[y] = f[y]
  PROVE  Total(h, S) = Total(f, S) + more
<1> DEFINE rest == S \ {x}
<1>1. Units(h, rest) = Units(f, rest)
  BY DEF Units
<1>2. IsFiniteSet(Units(f, rest))
  BY UnitsAreFinite
<1>3. f[x] \in Nat /\ h[x] \in Nat
  BY DEF Figures
<1>4. Cardinality(Units(f, rest)) \in Nat
  BY <1>2, FS_CardinalityType
<1>5. Cardinality(Units(f, S)) = f[x] + Cardinality(Units(f, rest))
  BY <1>2, <1>3, UnitsOfMore
<1>6. Cardinality(Units(h, S)) = h[x] + Cardinality(Units(h, rest))
  <2>1. IsFiniteSet(Units(h, S \ {x})) /\ h[x] \in Nat
    BY <1>1, <1>2, <1>3
  <2> HIDE DEF rest
  <2>2. Cardinality(Units(h, S)) = h[x] + Cardinality(Units(h, S \ {x}))
    BY <2>1, UnitsOfMore
  <2> QED BY <2>2 DEF rest
<1> HIDE DEF rest
<1> QED BY <1>1, <1>3, <1>4, <1>5, <1>6, TotalCounts

(* What is lost of some figures is no more than what they amount to.       *)
LEMMA LostIsBounded ==
  ASSUME NEW f, NEW h, NEW S, Figures(f, S),
         \A x \in S : h[x] \in Nat /\ h[x] <= f[x]
  PROVE  /\ Lost(f, h, S) <= Total(f, S)
         /\ (\A x \in S : h[x] = f[x]) => Lost(f, h, S) = 0
         /\ Lost(f, h, S) \in Nat
<1> DEFINE d == [x \in S |-> f[x] - h[x]]
           g == [s \in SUBSET S |-> Cardinality(Units(d, s))]
           Adds(i) == i = [s \in SUBSET S |->
                             IF s = {} THEN 0
                             ELSE LET x == CHOOSE y \in s : TRUE
                                  IN (f[x] - h[x]) + i[s \ {x}]]
           it == CHOOSE i : Adds(i)
<1>1. Figures(d, S)
  BY DEF Figures
<1>2. ASSUME NEW i PROVE Adds(i) <=> Sums(i, d, S)
  <2> DEFINE one(s) == IF s = {} THEN 0
                       ELSE LET x == CHOOSE y \in s : TRUE
                            IN (f[x] - h[x]) + i[s \ {x}]
             other(s) == IF s = {} THEN 0
                         ELSE LET x == CHOOSE y \in s : TRUE IN d[x] + i[s \ {x}]
  <2>1. ASSUME NEW s \in SUBSET S PROVE one(s) = other(s)
    <3>1. CASE s = {}
      BY <3>1
    <3>2. CASE s # {}
      <4> DEFINE x == CHOOSE y \in s : TRUE
      <4>1. x \in S
        BY <3>2
      <4>2. one(s) = (f[x] - h[x]) + i[s \ {x}] /\ other(s) = d[x] + i[s \ {x}]
        BY <3>2
      <4> HIDE DEF one, other, x
      <4> QED BY <4>1, <4>2
    <3> QED BY <3>1, <3>2
  <2>2. [s \in SUBSET S |-> one(s)] = [s \in SUBSET S |-> other(s)]
    <3> HIDE DEF one, other
    <3> QED BY <2>1
  <2> QED BY <2>2 DEF Sums
<1>3. Sums(g, d, S)
  BY <1>1, UnitsAddUp
<1>4. Adds(it)
  <2>1. Adds(g)
    BY <1>2, <1>3
  <2> HIDE DEF Adds, g
  <2> QED BY <2>1
<1>5. it = g
  <2>1. Sums(it, d, S)
    BY <1>2, <1>4
  <2> HIDE DEF it, g, d
  <2> QED BY <1>3, <2>1, SumsAreUnique DEF Figures
<1>6. Lost(f, h, S) = it[S]
  BY DEF Lost, MapThenSumSet, MapThenFoldSet
<1>7. Lost(f, h, S) = Cardinality(Units(d, S))
  BY <1>5, <1>6
<1>8. Units(d, S) \in SUBSET Units(f, S)
  BY DEF Units, Figures
<1>9. (\A x \in S : h[x] = f[x]) => Units(d, S) = {}
  BY DEF Units, Figures
<1>10. IsFiniteSet(Units(f, S)) /\ Total(f, S) = Cardinality(Units(f, S))
  BY TotalCounts
<1>11. IsFiniteSet(Units(d, S)) /\ Cardinality(Units(d, S)) <= Cardinality(Units(f, S))
  BY <1>8, <1>10, FS_Subset
<1>12. Cardinality(Units(d, S)) \in Nat
  BY <1>11, FS_CardinalityType
<1> HIDE DEF d
<1> QED BY <1>7, <1>9, <1>10, <1>11, <1>12, FS_EmptySet

-----------------------------------------------------------------------------
(* The storage console                                                    *)

(* What a request holds at the await it reached, under these entries and   *)
(* these figures: a cleanup under way was allowed, and past its            *)
(* measurement the tree holds what it counted and what it missed.          *)
Allowed(request, listing) ==
  /\ request.id \in DOMAIN listing /\ Removable(listing[request.id])
  /\ request.id \notin Links
  /\ request.todo \subseteq {request.id}

Counted(request, path, figures) ==
  SizeBelow(figures, path) <= request.size + request.missed

RequestOK(request, listing, figures) ==
  /\ request \in Request
  /\ request.pc = "counted" => request.id \in Ids
  /\ request.kind = "preview" /\ request.pc # "idle" => request.id \in Ids
  /\ request.kind = "clean" /\ request.pc \in {"measuring", "counted"} =>
       Allowed(request, listing)
  /\ request.kind = "clean" /\ request.pc = "counted" =>
       Counted(request, listing[request.id].path, figures)

DiskOK ==
  /\ IsFiniteSet(DOMAIN disk) /\ None \notin DOMAIN disk
  /\ disk \in [DOMAIN disk -> Sizes]

MountOK ==
  /\ roots \in Optional(Launches)
  /\ roots = None =>
       /\ view.kind = "closed" /\ DOMAIN disk = {}
       /\ \A r \in Requests : asked[r].pc = "idle"
  /\ roots # None => \A id \in DOMAIN catalog : catalog[id] \in BuildCatalog(roots)

ViewOK ==
  /\ view.kind \in Views
  /\ view.kind = "dialog" => view.id \in Ids /\ view.expect \in Nat
  /\ hasData \in BOOLEAN
  /\ busy \in BOOLEAN

StorageInv ==
  /\ DiskOK /\ MountOK /\ ViewOK
  /\ asked = [r \in Requests |-> asked[r]]
  /\ \A r \in Requests : RequestOK(asked[r], catalog, disk)
  /\ measurements \subseteq Ids

-----------------------------------------------------------------------------
Places(path) == {p \in DOMAIN disk : AtOrBelow(p, path)}

LEMMA SizeIsTotal ==
  ASSUME NEW f, NEW path
  PROVE  SizeBelow(f, path) = Total(f, {p \in DOMAIN f : AtOrBelow(p, path)})
BY DEF SizeBelow, Total

LEMMA PlacesHaveFigures ==
  ASSUME DiskOK, NEW path
  PROVE  Figures(disk, Places(path))
<1>1. Places(path) \in SUBSET DOMAIN disk
  BY DEF Places
<1>2. IsFiniteSet(Places(path))
  BY <1>1, FS_Subset DEF DiskOK
<1>3. \A x \in Places(path) : disk[x] \in Nat
  BY <1>1, StorageAssumption DEF DiskOK
<1> QED BY <1>2, <1>3 DEF Figures

LEMMA MeasureIsNat ==
  ASSUME DiskOK, NEW id
  PROVE  /\ SizeBelow(disk, PathOf(id)) \in Nat
         /\ MeasureTree(id) \in Nat
<1>1. SizeBelow(disk, PathOf(id)) = Total(disk, Places(PathOf(id)))
  BY SizeIsTotal DEF Places
<1>2. Total(disk, Places(PathOf(id))) \in Nat
  BY PlacesHaveFigures, TotalCounts
<1> QED BY <1>1, <1>2 DEF MeasureTree

(* A tree that loses something, or nothing, holds no more than before.     *)
DiskShrinks ==
  /\ DiskOK' /\ DOMAIN disk' = DOMAIN disk
  /\ \A p \in DOMAIN disk : disk'[p] <= disk[p]

LEMMA SizeAfterLoss ==
  ASSUME DiskOK, DiskShrinks, NEW path
  PROVE  /\ SizeBelow(disk, path) \in Nat /\ SizeBelow(disk', path) \in Nat
         /\ SizeBelow(disk', path) <= SizeBelow(disk, path)
<1> DEFINE S == Places(path)
           after == disk'
<1>1. Figures(disk, S)
  BY PlacesHaveFigures
<1>2. Figures(after, S)
  BY <1>1, StorageAssumption DEF DiskShrinks, DiskOK, Figures, Places
<1>3. \A x \in S : after[x] <= disk[x]
  BY DEF DiskShrinks, Places
<1>4. SizeBelow(disk, path) = Total(disk, S) /\ SizeBelow(after, path) = Total(after, S)
  BY SizeIsTotal DEF DiskShrinks, Places
<1> HIDE DEF S, after
<1>5. Total(after, S) <= Total(disk, S)
  BY <1>1, <1>2, <1>3, TotalIsMonotone
<1> QED BY <1>1, <1>2, <1>4, <1>5, TotalCounts DEF after

LEMMA RequestStaysOK ==
  ASSUME DiskOK, DiskShrinks, NEW request, RequestOK(request, catalog, disk)
  PROVE  RequestOK(request, catalog, disk')
<1> DEFINE path == catalog[request.id].path
<1>1. /\ SizeBelow(disk, path) \in Nat /\ SizeBelow(disk', path) \in Nat
      /\ SizeBelow(disk', path) <= SizeBelow(disk, path)
  BY SizeAfterLoss
<1>2. request.size \in Nat /\ request.missed \in Nat
  BY DEF RequestOK, Request
<1>3. Counted(request, path, disk) => Counted(request, path, disk')
  <2> HIDE DEF path
  <2> QED BY <1>1, <1>2 DEF Counted
<1> QED BY <1>3 DEF RequestOK

LEMMA SameDiskShrinks ==
  ASSUME DiskOK, disk' = disk
  PROVE  DiskShrinks
BY StorageAssumption DEF DiskOK, DiskShrinks

(* A request whose answer the page awaits.                                 *)
Awaits(request, kinds) ==
  request.fromPage /\ request.pc # "idle" /\ request.kind \in kinds

(* The views with a way back to the table, and the calls that lead there:  *)
(* all of them began from a table.                                         *)
WithTable == {"table", "dialog", "error"}
FromTable == {"preview", "clean", "refresh"}
TableBehind == \A r \in Requests : Awaits(asked[r], FromTable) => hasData

StorageIInv == StorageInv /\ StorageAnswers /\ TableBehind

(* A step of one request: the others stay as they are, and the page still  *)
(* has its answer to come.                                                 *)
LEMMA RequestStep ==
  ASSUME StorageIInv, NEW r \in Requests, NEW request, Ask(r, request),
         RequestOK(request, catalog, disk'), DiskShrinks,
         UNCHANGED <<roots, catalog>>, roots # None, ViewOK',
         measurements' \subseteq Ids,
         \/ asked[r].pc = "idle"
         \/ /\ request.kind = asked[r].kind /\ request.pc # "idle"
            /\ request.fromPage = asked[r].fromPage,
         busy' => busy \/ Awaits(request, {"scan", "clean"}),
         view'.kind = "waiting" =>
           view.kind = "waiting" \/ Awaits(request, {"status", "preview"}),
         hasData' = hasData, view'.kind \in WithTable => hasData,
         asked[r].pc = "idle" /\ Awaits(request, FromTable) => hasData
  PROVE  StorageIInv'
<1>1. asked' = [asked EXCEPT ![r] = request]
  BY DEF Ask
<1>2. /\ asked' = [q \in Requests |-> asked'[q]]
      /\ asked'[r] = request
      /\ \A q \in Requests \ {r} : asked'[q] = asked[q]
  BY <1>1 DEF StorageIInv, StorageInv
<1>3. ASSUME NEW q \in Requests PROVE RequestOK(asked'[q], catalog', disk')
  <2>1. CASE q = r
    BY <1>2, <2>1
  <2>2. CASE q # r
    BY <1>2, <2>2, RequestStaysOK DEF StorageIInv, StorageInv
  <2> QED BY <2>1, <2>2
<1>4. DiskOK' /\ MountOK'
  BY <1>2 DEF StorageIInv, StorageInv, MountOK, DiskShrinks
<1>5. ASSUME NEW kinds, NEW q \in Requests, Awaits(asked[q], kinds)
      PROVE  \E p \in Requests : Awaits(asked'[p], kinds)
  <2>1. CASE q = r
    BY <1>2, <1>5, <2>1 DEF Awaits
  <2>2. CASE q # r
    BY <1>2, <1>5, <2>2
  <2> QED BY <2>1, <2>2
<1>6. busy' => \E p \in Requests : Awaits(asked'[p], {"scan", "clean"})
  BY <1>2, <1>5 DEF StorageIInv, StorageAnswers, Awaits
<1>7. view'.kind = "waiting" =>
        \E p \in Requests : Awaits(asked'[p], {"status", "preview"})
  BY <1>2, <1>5 DEF StorageIInv, StorageAnswers, Awaits
<1>8. StorageAnswers'
  BY <1>6, <1>7 DEF StorageAnswers, Awaits, WithTable
<1>9. TableBehind'
  <2> SUFFICES ASSUME NEW q \in Requests, Awaits(asked'[q], FromTable) PROVE hasData
    BY DEF TableBehind
  <2>1. CASE q # r
    BY <1>2, <2>1 DEF StorageIInv, TableBehind
  <2>2. CASE q = r
    BY <1>2, <2>2 DEF StorageIInv, TableBehind, Awaits
  <2> QED BY <2>1, <2>2
<1> QED BY <1>2, <1>3, <1>4, <1>8, <1>9 DEF StorageIInv, StorageInv

(* A step of the page alone.                                               *)
LEMMA ViewStep ==
  ASSUME StorageIInv, UNCHANGED <<roots, catalog, disk, asked, measurements>>,
         roots # None, ViewOK', UNCHANGED <<hasData, busy>>, view'.kind # "waiting",
         hasData
  PROVE  StorageIInv'
BY DEF StorageIInv, StorageInv, StorageAnswers, TableBehind, DiskOK, MountOK

LEMMA FreeIsIdle ==
  ASSUME NEW r \in Requests, Free(r)
  PROVE  asked[r].pc = "idle"
BY DEF Free

-----------------------------------------------------------------------------
LEMMA NoRequestOK ==
  ASSUME NEW request, NEW listing, NEW figures, request \in Request,
         request.kind \notin {"preview", "clean"} \/ request.pc = "idle",
         request.pc # "counted"
  PROVE  RequestOK(request, listing, figures)
BY DEF RequestOK

Kinds == {"status", "open", "scan", "preview", "clean", "refresh"}

LEMMA AnswerFields ==
  ASSUME NEW kind \in Kinds, NEW id,
         NEW fromPage \in BOOLEAN, NEW failed \in BOOLEAN, NEW size \in Nat
  PROVE  LET answer == [NoRequest EXCEPT !.kind = kind, !.pc = "answered", !.id = id,
                          !.fromPage = fromPage, !.failed = failed, !.size = size]
         IN /\ answer.kind = kind /\ answer.pc = "answered" /\ answer.id = id
            /\ answer.fromPage = fromPage
BY DEF NoRequest

LEMMA AnswerIsRequest ==
  ASSUME NEW kind \in Kinds, NEW id \in Optional(Ids),
         NEW fromPage \in BOOLEAN, NEW failed \in BOOLEAN, NEW size \in Nat
  PROVE  [NoRequest EXCEPT !.kind = kind, !.pc = "answered", !.id = id,
            !.fromPage = fromPage, !.failed = failed, !.size = size] \in Request
<1> DEFINE with1 == [NoRequest EXCEPT !.kind = kind]
           with2 == [with1 EXCEPT !.pc = "answered"]
           with3 == [with2 EXCEPT !.id = id]
           with4 == [with3 EXCEPT !.fromPage = fromPage]
           with5 == [with4 EXCEPT !.failed = failed]
           with6 == [with5 EXCEPT !.size = size]
<1>1. with1 \in Request
  BY DEF NoRequest, Request, Optional, Kinds
<1> HIDE DEF with1
<1>2. with2 \in Request
  BY <1>1 DEF Request
<1> HIDE DEF with2
<1>3. with3 \in Request
  BY <1>2 DEF Request
<1> HIDE DEF with3
<1>4. with4 \in Request
  BY <1>3 DEF Request
<1> HIDE DEF with4
<1>5. with5 \in Request
  BY <1>4 DEF Request
<1> HIDE DEF with5
<1>6. with6 \in Request
  BY <1>5 DEF Request
<1> QED BY <1>6 DEF with1, with2, with3, with4, with5

LEMMA AnswerIsOK ==
  ASSUME NEW request \in Request, NEW failed \in BOOLEAN, NEW r, Answer(r, request, failed),
         NEW listing, NEW figures,
         request.kind = "preview" => request.id \in Ids
  PROVE  \E answer : /\ Ask(r, answer)
                      /\ answer.pc = "answered"
                      /\ answer.kind = request.kind
                      /\ answer.fromPage = request.fromPage
                      /\ answer.id = request.id
                      /\ RequestOK(answer, listing, figures)
<1> DEFINE size == IF request.kind = "preview" THEN request.size ELSE 0
           answer == [NoRequest EXCEPT !.kind = request.kind, !.pc = "answered",
                        !.id = request.id, !.fromPage = request.fromPage,
                        !.failed = failed, !.size = size]
<1>1. Ask(r, answer)
  BY DEF Answer
<1>2. /\ request.kind \in Kinds
      /\ request.id \in Optional(Ids) /\ request.fromPage \in BOOLEAN
      /\ size \in Nat
  BY DEF Request, Kinds
<1> HIDE DEF size
<1>3. answer \in Request
  BY <1>2, AnswerIsRequest
<1>4. /\ answer.pc = "answered" /\ answer.kind = request.kind
      /\ answer.fromPage = request.fromPage /\ answer.id = request.id
  BY <1>2, AnswerFields
<1> HIDE DEF answer
<1> QED BY <1>1, <1>3, <1>4 DEF RequestOK

-----------------------------------------------------------------------------
(* The disk                                                                *)

(* The entries of a launch are finite in number, and come from its catalog.*)
LEMMA EntriesOfLaunch ==
  ASSUME NEW r
  PROVE  /\ IsFiniteSet(DOMAIN EntriesOf(r))
         /\ \A id \in DOMAIN EntriesOf(r) : EntriesOf(r)[id] \in BuildCatalog(r)
<1> DEFINE followed == {e \in BuildCatalog(r) : e.id \in Ids \cup Watched}
           ids == {e.id : e \in followed}
<1>1. EntriesOf(r) = [id \in ids |-> CHOOSE e \in followed : e.id = id]
  BY DEF EntriesOf
<1>2. ids \in SUBSET (Ids \cup Watched)
  OBVIOUS
<1>3. IsFiniteSet(ids)
  <2> HIDE DEF ids
  <2> QED BY <1>2, StorageAssumption, FS_Subset
<1>4. \A id \in ids : (CHOOSE e \in followed : e.id = id) \in BuildCatalog(r)
  OBVIOUS
<1> HIDE DEF ids, followed
<1> QED BY <1>1, <1>3, <1>4

LEMMA PathsAreFinite ==
  ASSUME NEW c, IsFiniteSet(DOMAIN c)
  PROVE  IsFiniteSet({e.path : e \in Range(c)} \ {None})
<1> DEFINE paths == {e.path : e \in Range(c)}
           f == [id \in DOMAIN c |-> c[id].path]
<1>1. f \in Surjection(DOMAIN c, paths)
  BY DEF Range, Surjection
<1>2. IsFiniteSet(paths)
  <2> HIDE DEF f, paths
  <2> QED BY <1>1, FS_Surjection
<1>3. paths \ {None} \in SUBSET paths
  OBVIOUS
<1> QED BY <1>2, <1>3, FS_Subset

LEMMA MountConsoleKeeps ==
  ASSUME StorageInv, NEW r \in Launches, MountConsole(r)
  PROVE  StorageInv'
<1>1. /\ roots = None /\ roots' = r /\ catalog' = EntriesOf(r)
      /\ UNCHANGED <<asked, measurements, view, hasData, busy>>
  BY DEF MountConsole, pageVars
<1> DEFINE D == {e.path : e \in Range(catalog')} \ {None}
<1>2. IsFiniteSet(D)
  BY <1>1, EntriesOfLaunch, PathsAreFinite
<1>3. DOMAIN disk' = D /\ disk' \in [D -> Sizes]
  <2> HIDE DEF D
  <2>1. 0 \in Sizes /\ 1 \in Sizes
    BY StorageAssumption
  <2> QED BY <2>1 DEF MountConsole, D
<1>4. DiskOK'
  BY <1>2, <1>3 DEF DiskOK
<1>5. \A q \in Requests : asked[q].pc = "idle"
  BY <1>1 DEF StorageInv, MountOK
<1>6. \A q \in Requests : RequestOK(asked'[q], catalog', disk')
  BY <1>1, <1>5 DEF StorageInv, RequestOK
<1>7. MountOK'
  BY <1>1, EntriesOfLaunch, StorageAssumption DEF StorageInv, MountOK, Optional
<1>8. ViewOK'
  BY <1>1 DEF StorageInv, ViewOK
<1> QED BY <1>1, <1>4, <1>6, <1>7, <1>8 DEF StorageInv

(* A tree with more in one of its places has as much more.                 *)
LEMMA SizeAfterGrowth ==
  ASSUME DiskOK, NEW place \in DOMAIN disk, NEW figure \in Sizes, disk[place] < figure,
         disk' = [disk EXCEPT ![place] = figure], NEW path
  PROVE  /\ SizeBelow(disk, path) \in Nat
         /\ SizeBelow(disk', path) \in Nat
         /\ DiskOK'
         /\ SizeBelow(disk', path) =
              IF AtOrBelow(place, path) THEN SizeBelow(disk, path) + (figure - disk[place])
              ELSE SizeBelow(disk, path)
<1> DEFINE S == Places(path)
           more == figure - disk[place]
<1>0. more \in Nat /\ figure = disk[place] + more
  BY StorageAssumption DEF DiskOK
<1>1. DiskOK' /\ DOMAIN disk' = DOMAIN disk
  BY StorageAssumption DEF DiskOK
<1>2. Figures(disk, S)
  BY PlacesHaveFigures
<1>3. Figures(disk', S)
  BY <1>1, <1>2, StorageAssumption DEF Figures, DiskOK, Places
<1>4. SizeBelow(disk, path) = Total(disk, S)
  BY SizeIsTotal DEF Places
<1>5. SizeBelow(disk', path) = Total(disk', S)
  BY <1>1, SizeIsTotal DEF Places
<1>6. Total(disk, S) \in Nat /\ Total(disk', S) \in Nat
  BY <1>2, <1>3, TotalCounts
<1>7. CASE AtOrBelow(place, path)
  <2>1. place \in S /\ disk'[place] = disk[place] + more
        /\ \A y \in S \ {place} : disk'[y] = disk[y]
    <3> HIDE DEF more
    <3> QED BY <1>0, <1>7 DEF Places, DiskOK
  <2> HIDE DEF S, more
  <2>2. Total(disk', S) = Total(disk, S) + more
    <3> DEFINE after == disk'
    <3>1. Figures(after, S) /\ after[place] = disk[place] + more
          /\ \A y \in S \ {place} : after[y] = disk[y]
      BY <1>3, <2>1
    <3> HIDE DEF after
    <3>2. Total(after, S) = Total(disk, S) + more
      BY <1>0, <1>2, <2>1, <3>1, TotalOfMore
    <3> QED BY <3>2 DEF after
  <2> QED BY <1>1, <1>4, <1>5, <1>6, <1>7, <2>2 DEF more
<1>8. CASE ~ AtOrBelow(place, path)
  <2>1. \A y \in S : disk'[y] = disk[y]
    BY <1>8 DEF Places, DiskOK
  <2>2. \A y \in S : disk'[y] <= disk[y] /\ disk[y] <= disk'[y]
    BY <2>1, <1>2 DEF Figures
  <2>3. Total(disk', S) <= Total(disk, S) /\ Total(disk, S) <= Total(disk', S)
    BY <1>2, <1>3, <2>2, TotalIsMonotone
  <2> QED BY <1>1, <1>4, <1>5, <1>6, <1>8, <2>3
<1> QED BY <1>7, <1>8

LEMMA GrowKeeps ==
  ASSUME StorageInv, NEW id, NEW figure \in Sizes, Grow(id, figure)
  PROVE  StorageInv'
<1> DEFINE place == PathOf(id)
           more == figure - disk[place]
<1>1. /\ place \in DOMAIN disk /\ disk[place] < figure
      /\ disk' = [disk EXCEPT ![place] = figure]
      /\ UNCHANGED <<roots, catalog, measurements, view, hasData, busy>>
  BY DEF Grow, pageVars
<1>2. DiskOK
  BY DEF StorageInv
<1>0. more \in Nat
  BY <1>1, <1>2, StorageAssumption DEF DiskOK
<1> HIDE DEF place, more
<1>3. DiskOK'
  BY <1>1, <1>2, SizeAfterGrowth
<1>4. asked' = [q \in Requests |-> asked'[q]]
  BY DEF Grow
<1>5. ASSUME NEW q \in Requests
      PROVE  /\ RequestOK(asked'[q], catalog', disk')
             /\ asked'[q].pc = asked[q].pc
  <2> DEFINE was == asked[q]
             path == PathOf(was.id)
             hit == was.kind = "clean" /\ was.pc = "counted" /\ AtOrBelow(place, path)
  <2>1. RequestOK(was, catalog, disk) /\ was \in Request
    BY DEF StorageInv, RequestOK
  <2>2. /\ SizeBelow(disk, path) \in Nat /\ SizeBelow(disk', path) \in Nat
        /\ SizeBelow(disk', path) =
             IF AtOrBelow(place, path) THEN SizeBelow(disk, path) + more ELSE SizeBelow(disk, path)
    BY <1>1, <1>2, SizeAfterGrowth DEF more
  <2>3. path = catalog'[was.id].path
    BY <1>1 DEF PathOf
  <2>4. CASE hit
    <3> DEFINE missed == Min({was.missed + more, SizeBelow(disk', path)})
    <3>1. asked'[q] = [was EXCEPT !.missed = missed]
      BY <2>4 DEF Grow, place, more
    <3>2. was.missed \in Nat /\ was.size \in Nat
      BY <2>1 DEF Request
    <3>3. missed = Smaller(was.missed + more, SizeBelow(disk', path))
      BY <1>0, <2>2, <3>2, MinOfTwo
    <3> HIDE DEF missed, was, path
    <3>4. missed \in Nat
      BY <1>0, <2>2, <3>2, <3>3 DEF Smaller
    <3>5. /\ asked'[q] \in Request
          /\ asked'[q].pc = was.pc /\ asked'[q].id = was.id
          /\ asked'[q].kind = was.kind /\ asked'[q].todo = was.todo
          /\ asked'[q].size = was.size /\ asked'[q].missed = missed
      BY <2>1, <3>1, <3>4 DEF Request
    <3>6. Counted(was, catalog'[was.id].path, disk)
      BY <1>1, <2>1, <2>4 DEF RequestOK
    <3>7. Counted(asked'[q], catalog'[was.id].path, disk')
      BY <1>0, <2>2, <2>3, <2>4, <3>2, <3>3, <3>5, <3>6 DEF Counted, Smaller
    <3>8. Allowed(was, catalog') => Allowed(asked'[q], catalog')
      BY <3>5 DEF Allowed
    <3> QED BY <1>1, <2>1, <3>5, <3>7, <3>8 DEF RequestOK, was
  <2>5. CASE ~hit
    <3>1. asked'[q] = was
      BY <2>5 DEF Grow, place
    <3> HIDE DEF was
    <3>2. was.kind = "clean" /\ was.pc = "counted" =>
            Counted(was, catalog'[was.id].path, disk')
      <4> HIDE DEF path
      <4> QED BY <1>1, <2>1, <2>2, <2>3, <2>5 DEF RequestOK, Counted
    <3> QED BY <1>1, <2>1, <3>1, <3>2 DEF RequestOK, was
  <2> QED BY <2>4, <2>5
<1>6. MountOK' /\ ViewOK'
  BY <1>1, <1>5 DEF StorageInv, MountOK, ViewOK
<1> QED BY <1>1, <1>3, <1>4, <1>5, <1>6 DEF StorageInv
-----------------------------------------------------------------------------
(* The page                                                                *)

LEMMA PageAskIsOK ==
  ASSUME NEW kind \in Kinds, kind \notin {"preview", "clean"}, NEW todo \in SUBSET Ids,
         NEW r, PageAsk(r, kind, todo), NEW listing, NEW figures
  PROVE  \E request : /\ Ask(r, request) /\ RequestOK(request, listing, figures)
                       /\ request.kind = kind /\ request.pc = "measuring"
                       /\ request.fromPage
<1> DEFINE request == [NoRequest EXCEPT !.kind = kind, !.pc = "measuring",
                         !.fromPage = TRUE, !.todo = todo]
<1>1. Ask(r, request)
  BY DEF PageAsk
<1>2. /\ request \in Request /\ request.kind = kind /\ request.pc = "measuring"
      /\ request.fromPage
  BY DEF NoRequest, Request, Optional, Kinds
<1> HIDE DEF request
<1> QED BY <1>1, <1>2 DEF RequestOK

LEMMA OpenPanelKeeps ==
  ASSUME StorageIInv, NEW r \in Requests, OpenPanel(r)
  PROVE  StorageIInv'
<1>1. /\ roots # None
      /\ UNCHANGED <<roots, catalog, disk, measurements, hasData, busy>>
  BY DEF OpenPanel
<1>2. CASE ~hasData /\ Free(r) /\ view' = View("waiting") /\ PageAsk(r, "status", {})
  <2>1. PICK request : /\ Ask(r, request) /\ RequestOK(request, catalog, disk')
                       /\ request.kind = "status" /\ request.pc = "measuring"
                       /\ request.fromPage
    BY <1>2, PageAskIsOK DEF Kinds
  <2>2. ViewOK' /\ view'.kind = "waiting"
    BY <1>1, <1>2 DEF StorageIInv, StorageInv, ViewOK, View, Views
  <2>3. /\ Awaits(request, {"status", "preview"})
        /\ ~ Awaits(request, FromTable) /\ view'.kind \notin WithTable
    BY <2>1, <2>2 DEF Awaits, FromTable, WithTable
  <2> QED BY <1>1, <1>2, <2>1, <2>2, <2>3, FreeIsIdle, SameDiskShrinks, RequestStep
            DEF StorageIInv, StorageInv
<1>3. CASE hasData /\ view' = View("table") /\ UNCHANGED asked
  <2>1. ViewOK' /\ view'.kind # "waiting"
    BY <1>1, <1>3 DEF StorageIInv, StorageInv, ViewOK, View, Views
  <2> QED BY <1>1, <1>3, <2>1, ViewStep
<1> QED BY <1>2, <1>3 DEF OpenPanel

LEMMA RunScanKeeps ==
  ASSUME StorageIInv, NEW r \in Requests, NEW scope, RunScan(r, scope)
  PROVE  StorageIInv'
<1>1. /\ view.kind = "table" /\ Free(r) /\ busy' = TRUE
      /\ PageAsk(r, "scan", Scoped({scope}))
      /\ UNCHANGED <<roots, catalog, disk, measurements, view, hasData>>
  BY DEF RunScan
<1>2. ViewOK'
  BY <1>1 DEF StorageIInv, StorageInv, ViewOK
<1>3. PICK request : /\ Ask(r, request) /\ RequestOK(request, catalog, disk')
                     /\ request.kind = "scan" /\ request.pc = "measuring"
                     /\ request.fromPage
  BY <1>1, PageAskIsOK DEF Kinds, Scoped
<1>4. Awaits(request, {"scan", "clean"}) /\ ~ Awaits(request, FromTable)
  BY <1>3 DEF Awaits, FromTable
<1>5. roots # None /\ hasData
  BY <1>1 DEF StorageIInv, StorageInv, MountOK, StorageAnswers
<1> QED BY <1>1, <1>2, <1>3, <1>4, <1>5, FreeIsIdle, SameDiskShrinks, RequestStep
          DEF StorageIInv, StorageInv

LEMMA OpenConfirmKeeps ==
  ASSUME StorageIInv, NEW r \in Requests, NEW id \in Ids, OpenConfirm(r, id)
  PROVE  StorageIInv'
<1> DEFINE request == [NoRequest EXCEPT !.kind = "preview", !.pc = "measuring",
                         !.fromPage = TRUE, !.id = id, !.todo = {id}]
<1>1. /\ view.kind = "table" /\ Free(r) /\ view' = View("waiting") /\ Ask(r, request)
      /\ UNCHANGED <<roots, catalog, disk, measurements, hasData, busy>>
  BY DEF OpenConfirm
<1>2. ViewOK'
  BY <1>1 DEF StorageIInv, StorageInv, ViewOK, View, Views
<1>3. /\ request.kind = "preview" /\ request.pc = "measuring"
      /\ request.fromPage /\ request.id = id
  BY DEF NoRequest
<1>4. request \in Request
  BY DEF NoRequest, Request, Optional
<1> HIDE DEF request
<1>5. RequestOK(request, catalog, disk') /\ Awaits(request, {"status", "preview"})
  BY <1>3, <1>4 DEF Awaits, RequestOK
<1>6. roots # None /\ hasData
  BY <1>1 DEF StorageIInv, StorageInv, MountOK, StorageAnswers
<1> QED BY <1>1, <1>2, <1>5, <1>6, FreeIsIdle, SameDiskShrinks, RequestStep
          DEF StorageIInv, StorageInv

LEMMA LeaveConsoleKeeps ==
  ASSUME StorageIInv, Leave
  PROVE  StorageIInv'
<1>1. /\ view.kind \in {"dialog", "error"} /\ view' = View("table")
      /\ UNCHANGED <<roots, catalog, disk, asked, measurements, hasData, busy>>
  BY DEF Leave
<1>2. ViewOK' /\ view'.kind # "waiting"
  BY <1>1 DEF StorageIInv, StorageInv, ViewOK, View, Views
<1>3. roots # None /\ hasData
  BY <1>1 DEF StorageIInv, StorageInv, MountOK, StorageAnswers
<1> QED BY <1>1, <1>2, <1>3, ViewStep

(* An answer: what it ends is no longer awaited, whatever else is.         *)
LEMMA ReceiveKeeps ==
  ASSUME StorageIInv, NEW r \in Requests, Receive(r)
  PROVE  StorageIInv'
<1> DEFINE answered == asked[r]
           brought == answered.fromPage /\ ~answered.failed
           kept == ~answered.fromPage \/ (brought /\ answered.kind = "clean")
<1>1. /\ answered.pc = "answered"
      /\ busy' = (busy /\ ~(answered.fromPage /\ answered.kind \in {"scan", "clean"}))
      /\ hasData' = (hasData \/ (brought /\ answered.kind \notin {"preview", "clean"}))
      /\ view' = IF kept THEN view ELSE Shown(answered)
      /\ UNCHANGED <<roots, catalog, disk, measurements>>
  BY DEF Receive
<1>2. PICK next : /\ Ask(r, next) /\ RequestOK(next, catalog, disk)
                  /\ Awaits(next, FromTable) => brought /\ answered.kind = "clean"
  <2>1. CASE brought /\ answered.kind = "status"
    <3> DEFINE todo == Scoped({"newpi", "dsh"})
    <3>1. PageAsk(r, "open", todo)
      BY <2>1 DEF Receive
    <3>2. todo \in SUBSET Ids
      BY DEF Scoped
    <3> HIDE DEF todo
    <3>3. PICK next : Ask(r, next) /\ RequestOK(next, catalog, disk) /\ next.kind = "open"
      BY <3>1, <3>2, PageAskIsOK DEF Kinds
    <3> QED BY <3>3 DEF Awaits, FromTable
  <2>2. CASE brought /\ answered.kind = "clean"
    <3>1. PageAsk(r, "refresh", {})
      BY <2>2 DEF Receive
    <3>2. PICK next : Ask(r, next) /\ RequestOK(next, catalog, disk)
      BY <3>1, PageAskIsOK DEF Kinds
    <3> QED BY <2>2, <3>2
  <2>3. CASE ~(brought /\ answered.kind \in {"status", "clean"})
    <3>1. Ask(r, NoRequest)
      BY <2>3 DEF Receive
    <3>2. NoRequest \in Request /\ NoRequest.pc = "idle"
      BY DEF NoRequest, Request, Optional
    <3> QED BY <3>1, <3>2, NoRequestOK DEF Awaits
  <2> QED BY <2>1, <2>2, <2>3
<1>3. /\ asked' = [q \in Requests |-> asked'[q]]
      /\ asked'[r] = next
      /\ \A q \in Requests \ {r} : asked'[q] = asked[q]
  BY <1>2 DEF Ask, StorageIInv, StorageInv
<1>4. RequestOK(answered, catalog, disk) /\ answered \in Request
  BY DEF StorageIInv, StorageInv, RequestOK
<1>5. answered.fromPage /\ answered.kind \in FromTable => hasData
  BY <1>1 DEF StorageIInv, TableBehind, Awaits
<1>6. busy' \in BOOLEAN /\ hasData' \in BOOLEAN /\ (hasData => hasData')
  BY <1>1, <1>4 DEF StorageIInv, StorageInv, ViewOK, Request
<1>7. /\ ViewOK'
      /\ view'.kind = "waiting" =>
           /\ view.kind = "waiting"
           /\ ~(answered.fromPage /\ answered.kind \in {"status", "preview"})
      /\ view'.kind \in WithTable => hasData'
  <2>1. CASE kept
    BY <1>1, <1>6, <2>1 DEF StorageIInv, StorageInv, ViewOK, StorageAnswers, WithTable
  <2>2. CASE ~kept /\ answered.failed
    <3>1. /\ answered.kind \in {"status", "open", "scan"} => view' = View("bare")
          /\ answered.kind \notin {"status", "open", "scan"} => view' = View("error")
      BY <1>1, <2>2 DEF Shown
    <3>2. answered.kind \notin {"status", "open", "scan"} => hasData
      BY <1>4, <1>5, <2>2 DEF Request, FromTable
    <3> QED BY <1>6, <2>2, <3>1, <3>2 DEF ViewOK, View, Views, WithTable
  <2>3. CASE ~kept /\ ~answered.failed /\ answered.kind # "preview"
    <3>1. view' = View("table")
      BY <1>1, <2>3 DEF Shown
    <3>2. hasData'
      BY <1>1, <2>3
    <3> QED BY <1>6, <2>3, <3>1, <3>2 DEF ViewOK, View, Views, WithTable
  <2>4. CASE ~kept /\ ~answered.failed /\ answered.kind = "preview"
    <3>1. \/ view' = View("error")
          \/ view' = [kind |-> "dialog", id |-> answered.id, expect |-> answered.size]
      BY <1>1, <2>4 DEF Shown
    <3>2. hasData'
      BY <1>5, <1>6, <2>4 DEF FromTable
    <3>3. answered.id \in Ids /\ answered.size \in Nat
      BY <1>1, <1>4, <2>4 DEF RequestOK, Request
    <3> QED BY <1>6, <2>4, <3>1, <3>2, <3>3 DEF ViewOK, View, Views, WithTable
  <2> QED BY <1>4, <2>1, <2>2, <2>3, <2>4 DEF Request
<1>8. \A q \in Requests : RequestOK(asked'[q], catalog', disk')
  BY <1>1, <1>2, <1>3 DEF StorageIInv, StorageInv
<1>9. DiskOK'
  BY <1>1 DEF StorageIInv, StorageInv, DiskOK
<1>10. roots # None
  BY <1>1 DEF StorageIInv, StorageInv, MountOK
<1>11. MountOK'
  BY <1>1, <1>10 DEF StorageIInv, StorageInv, MountOK
<1> HIDE DEF answered, brought, kept
<1>12. StorageAnswers'
  <2>1. busy' => \E q \in Requests \ {r} : Awaits(asked[q], {"scan", "clean"})
    BY <1>1 DEF StorageIInv, StorageAnswers, Awaits, answered
  <2>2. view'.kind = "waiting" =>
          \E q \in Requests \ {r} : Awaits(asked[q], {"status", "preview"})
    BY <1>7 DEF StorageIInv, StorageAnswers, Awaits, answered
  <2> QED BY <1>3, <1>7, <2>1, <2>2 DEF StorageAnswers, Awaits, WithTable
<1>13. TableBehind'
  <2> SUFFICES ASSUME NEW q \in Requests, Awaits(asked'[q], FromTable) PROVE hasData
    BY <1>6 DEF TableBehind
  <2>1. CASE q # r
    BY <1>3, <2>1 DEF StorageIInv, TableBehind
  <2>2. CASE q = r
    BY <1>2, <1>3, <1>5, <2>2 DEF FromTable, brought
  <2> QED BY <2>1, <2>2
<1> QED BY <1>1, <1>3, <1>7, <1>8, <1>9, <1>11, <1>12, <1>13 DEF StorageIInv, StorageInv

-----------------------------------------------------------------------------
(* The host                                                                *)

LEMMA AnswerStep ==
  ASSUME StorageIInv, NEW r \in Requests, NEW failed \in BOOLEAN,
         asked[r].pc # "idle", Answer(r, asked[r], failed), DiskShrinks,
         UNCHANGED <<roots, catalog, view, hasData, busy>>, measurements' \subseteq Ids
  PROVE  StorageIInv'
<1>1. RequestOK(asked[r], catalog, disk) /\ asked[r] \in Request
  BY DEF StorageIInv, StorageInv, RequestOK
<1>2. asked[r].kind = "preview" => asked[r].id \in Ids
  BY <1>1 DEF RequestOK
<1>3. PICK answer : /\ Ask(r, answer)
                    /\ answer.pc = "answered"
                    /\ answer.kind = asked[r].kind
                    /\ answer.fromPage = asked[r].fromPage
                    /\ answer.id = asked[r].id
                    /\ RequestOK(answer, catalog, disk')
  BY <1>1, <1>2, AnswerIsOK
<1>4. roots # None /\ (view'.kind \in WithTable => hasData)
  BY DEF StorageIInv, StorageInv, MountOK, StorageAnswers, WithTable
<1>5. ViewOK'
  BY DEF StorageIInv, StorageInv, ViewOK
<1> QED BY <1>3, <1>4, <1>5, RequestStep

LEMMA HostAsks ==
  ASSUME StorageIInv, NEW r \in Requests, NEW request, Ask(r, request),
         RequestOK(request, catalog, disk'), DiskShrinks, asked[r].pc # "idle",
         request.kind = asked[r].kind, request.pc # "idle",
         request.fromPage = asked[r].fromPage,
         UNCHANGED <<roots, catalog, view, hasData, busy>>, measurements' \subseteq Ids
  PROVE  StorageIInv'
<1>1. roots # None /\ (view'.kind \in WithTable => hasData)
  BY DEF StorageIInv, StorageInv, MountOK, StorageAnswers, WithTable
<1>2. ViewOK'
  BY DEF StorageIInv, StorageInv, ViewOK
<1> QED BY <1>1, <1>2, RequestStep

LEMMA SkipKeeps ==
  ASSUME StorageIInv, NEW r \in Requests, NEW id \in Ids, Skip(r, id)
  PROVE  StorageIInv'
<1> DEFINE was == asked[r]
           request == [was EXCEPT !.todo = @ \ {id}]
<1>1. /\ was.pc = "measuring" /\ Ask(r, request)
      /\ UNCHANGED <<roots, catalog, disk, measurements, view, hasData, busy>>
  BY DEF Skip, pageVars
<1>2. RequestOK(was, catalog, disk) /\ was \in Request
  BY DEF StorageIInv, StorageInv, RequestOK
<1> HIDE DEF was
<1>3. /\ request \in Request /\ request.kind = was.kind /\ request.pc = was.pc
      /\ request.fromPage = was.fromPage /\ request.id = was.id
      /\ request.todo \subseteq was.todo
  BY <1>2 DEF Request
<1> HIDE DEF request
<1>4. RequestOK(request, catalog, disk')
  BY <1>1, <1>2, <1>3 DEF RequestOK, Allowed
<1> QED BY <1>1, <1>3, <1>4, SameDiskShrinks, HostAsks DEF StorageIInv, StorageInv, was

LEMMA CountSizeKeeps ==
  ASSUME StorageIInv, NEW r \in Requests, NEW id \in Ids, CountSize(r, id)
  PROVE  StorageIInv'
<1> DEFINE was == asked[r]
           whole == MeasureTree(id)
<1>1. PICK size \in {whole} \cup {part \in Partial : part < whole} :
        Ask(r, [was EXCEPT
                 !.pc = "counted", !.todo = @ \ {id}, !.id = id,
                 !.size = IF was.kind \in {"preview", "clean"} THEN size ELSE 0,
                 !.missed = whole - size])
  BY DEF CountSize
<1> DEFINE figure == IF was.kind \in {"preview", "clean"} THEN size ELSE 0
           request == [was EXCEPT !.pc = "counted", !.todo = @ \ {id}, !.id = id,
                         !.size = figure, !.missed = whole - size]
<1>2. /\ was.pc = "measuring" /\ id \in was.todo /\ Ask(r, request)
      /\ UNCHANGED <<roots, catalog, disk, measurements, view, hasData, busy>>
  BY <1>1 DEF CountSize, pageVars
<1>3. RequestOK(was, catalog, disk) /\ was \in Request
  BY DEF StorageIInv, StorageInv, RequestOK
<1>4. whole \in Nat /\ SizeBelow(disk, PathOf(id)) \in Nat
  BY MeasureIsNat DEF StorageIInv, StorageInv
<1>5. size \in Nat /\ whole - size \in Nat
  <2> HIDE DEF whole
  <2>1. size = whole \/ (size \in Partial /\ size < whole)
    OBVIOUS
  <2> QED BY <1>4, <2>1, StorageAssumption
<1>6. id \notin Links => whole = SizeBelow(disk, PathOf(id))
  BY DEF MeasureTree
<1>7. figure \in Nat /\ (was.kind = "clean" => figure = size)
  BY <1>5
<1> HIDE DEF was, whole, figure
<1>8. request \in Request
  <2> DEFINE half == [was EXCEPT !.pc = "counted", !.todo = @ \ {id}, !.id = id]
  <2>1. half \in Request
    BY <1>3 DEF Request, Optional
  <2> DEFINE less == whole - size
  <2>2. request = [half EXCEPT !.size = figure, !.missed = less]
    OBVIOUS
  <2>3. less \in Nat
    BY <1>5
  <2> HIDE DEF half, request, less
  <2>4. [half EXCEPT !.size = figure, !.missed = less] \in Request
    BY <1>7, <2>1, <2>3 DEF Request
  <2> QED BY <2>2, <2>4
<1>9. /\ request.kind = was.kind /\ request.pc = "counted" /\ request.id = id
      /\ request.fromPage = was.fromPage /\ request.todo \subseteq was.todo
  BY <1>3 DEF Request
<1>10. request.size = figure /\ request.missed = whole - size
  BY <1>3, <1>7 DEF Request
<1> HIDE DEF request
<1>11. was.kind = "clean" => Allowed(request, catalog)
  BY <1>2, <1>3, <1>9 DEF RequestOK, Allowed
<1>12. was.kind = "clean" => Counted(request, catalog[id].path, disk)
  <2> SUFFICES ASSUME was.kind = "clean"
               PROVE  SizeBelow(disk, catalog[id].path) <= request.size + request.missed
    BY DEF Counted
  <2>1. id \notin Links
    BY <1>9, <1>11 DEF Allowed
  <2> QED BY <1>4, <1>5, <1>6, <1>7, <1>10, <2>1 DEF PathOf
<1>13. RequestOK(request, catalog, disk')
  BY <1>2, <1>8, <1>9, <1>11, <1>12 DEF RequestOK
<1> QED BY <1>2, <1>9, <1>13, SameDiskShrinks, HostAsks DEF StorageIInv, StorageInv, was

LEMMA KeepSizeKeeps ==
  ASSUME StorageIInv, NEW r \in Requests, KeepSize(r)
  PROVE  StorageIInv'
<1> DEFINE was == asked[r]
           request == [was EXCEPT !.pc = "measuring", !.missed = 0]
<1>1. /\ was.pc = "counted" /\ was.kind # "clean" /\ Ask(r, request)
      /\ measurements' = measurements \cup {was.id}
      /\ UNCHANGED <<roots, catalog, disk, view, hasData, busy>>
  BY DEF KeepSize, pageVars
<1>2. RequestOK(was, catalog, disk) /\ was \in Request
  BY DEF StorageIInv, StorageInv, RequestOK
<1> HIDE DEF was
<1>3. /\ request \in Request /\ request.kind = was.kind /\ request.pc = "measuring"
      /\ request.fromPage = was.fromPage /\ request.id = was.id
  BY <1>2 DEF Request
<1> HIDE DEF request
<1>4. RequestOK(request, catalog, disk')
  BY <1>1, <1>2, <1>3 DEF RequestOK
<1>5. measurements' \subseteq Ids
  BY <1>1, <1>2 DEF RequestOK, StorageIInv, StorageInv
<1> QED BY <1>1, <1>3, <1>4, <1>5, SameDiskShrinks, HostAsks DEF StorageIInv, StorageInv, was

LEMMA AnswerMeasuredKeeps ==
  ASSUME StorageIInv, NEW r \in Requests, AnswerMeasured(r)
  PROVE  StorageIInv'
BY SameDiskShrinks, AnswerStep DEF AnswerMeasured, StorageIInv, StorageInv, pageVars

LEMMA AnswerReportKeeps ==
  ASSUME StorageIInv, NEW r \in Requests, Report(r)
  PROVE  StorageIInv'
BY SameDiskShrinks, AnswerStep DEF Report, StorageIInv, StorageInv, pageVars

(* What a cleanup asks for: it is refused, done at once, or measured.      *)
LEMMA CleanKeeps ==
  ASSUME StorageIInv, NEW r \in Requests, NEW id \in Ids, NEW confirm,
         NEW expect \in Nat, NEW fromPage \in BOOLEAN,
         Clean(r, id, confirm, expect, fromPage),
         UNCHANGED <<roots, catalog, disk, view, hasData>>, fromPage => hasData,
         busy' \in BOOLEAN, busy' => busy \/ fromPage
  PROVE  StorageIInv'
<1> DEFINE request == [NoRequest EXCEPT !.kind = "clean", !.id = id, !.todo = {id},
                         !.expect = expect, !.fromPage = fromPage]
           begun == [request EXCEPT !.pc = "measuring"]
           allowed == /\ Known(id) /\ Removable(catalog[id]) /\ confirm = id
                      /\ Fenced(PathOf(id), roots)
<1>1. /\ roots # None /\ Free(r) /\ measurements' \subseteq measurements
      /\ \/ allowed /\ id \notin Links /\ Ask(r, begun)
         \/ \E failed \in BOOLEAN : Answer(r, request, failed)
  BY DEF Clean
<1>2. /\ request.kind = "clean" /\ request.id = id /\ request.fromPage = fromPage
      /\ request.todo = {id}
  BY DEF NoRequest
<1>3. request \in Request
  <2> DEFINE half == [NoRequest EXCEPT !.kind = "clean", !.id = id, !.todo = {id}]
  <2>1. half \in Request
    BY DEF NoRequest, Request, Optional
  <2>2. request = [half EXCEPT !.expect = expect, !.fromPage = fromPage]
    OBVIOUS
  <2> HIDE DEF half, request
  <2>3. [half EXCEPT !.expect = expect, !.fromPage = fromPage] \in Request
    BY <2>1 DEF Request
  <2> QED BY <2>2, <2>3
<1> HIDE DEF request
<1>4. /\ begun \in Request /\ begun.kind = "clean" /\ begun.id = id
      /\ begun.fromPage = fromPage /\ begun.todo = {id} /\ begun.pc = "measuring"
  BY <1>2, <1>3 DEF Request
<1> HIDE DEF begun
<1>5. /\ asked[r].pc = "idle" /\ DiskShrinks /\ measurements' \subseteq Ids
  BY <1>1, FreeIsIdle, SameDiskShrinks DEF StorageIInv, StorageInv
<1>6. ViewOK' /\ (view'.kind \in WithTable => hasData)
  BY DEF StorageIInv, StorageInv, ViewOK, StorageAnswers, WithTable
<1>7. CASE allowed /\ id \notin Links /\ Ask(r, begun)
  <2>1. RequestOK(begun, catalog, disk')
    BY <1>4, <1>7 DEF RequestOK, Allowed, Known
  <2>2. /\ busy' => busy \/ Awaits(begun, {"scan", "clean"})
        /\ Awaits(begun, FromTable) => hasData
    BY <1>4 DEF Awaits
  <2> QED BY <1>1, <1>5, <1>6, <1>7, <2>1, <2>2, RequestStep
<1>8. CASE \E failed \in BOOLEAN : Answer(r, request, failed)
  <2>1. PICK failed \in BOOLEAN : Answer(r, request, failed)
    BY <1>8
  <2>2. PICK answer : /\ Ask(r, answer)
                      /\ answer.pc = "answered"
                      /\ answer.kind = request.kind
                      /\ answer.fromPage = request.fromPage
                      /\ answer.id = request.id
                      /\ RequestOK(answer, catalog, disk')
    BY <1>2, <1>3, <2>1, AnswerIsOK
  <2>3. /\ busy' => busy \/ Awaits(answer, {"scan", "clean"})
        /\ Awaits(answer, FromTable) => hasData
    BY <1>2, <2>2 DEF Awaits
  <2> QED BY <1>1, <1>5, <1>6, <2>2, <2>3, RequestStep
<1> QED BY <1>1, <1>7, <1>8

LEMMA RunCleanKeeps ==
  ASSUME StorageIInv, NEW r \in Requests, RunClean(r)
  PROVE  StorageIInv'
<1>1. /\ view.kind = "dialog" /\ busy' = TRUE
      /\ Clean(r, view.id, view.id, view.expect, TRUE)
      /\ UNCHANGED <<roots, catalog, disk, view, hasData>>
  BY DEF RunClean
<1>2. view.id \in Ids /\ view.expect \in Nat /\ hasData
  BY <1>1 DEF StorageIInv, StorageInv, ViewOK, StorageAnswers
<1> QED BY <1>1, <1>2, CleanKeeps

LEMMA RequestCleanKeeps ==
  ASSUME StorageIInv, NEW r \in Requests, NEW id \in Ids, NEW confirm \in Ids,
         NEW expect \in Announced, RequestClean(r, id, confirm, expect)
  PROVE  StorageIInv'
<1>1. /\ Clean(r, id, confirm, expect, FALSE)
      /\ UNCHANGED <<roots, catalog, disk, view, hasData, busy>>
  BY DEF RequestClean, pageVars
<1>2. busy' \in BOOLEAN /\ expect \in Nat
  BY <1>1, StorageAssumption DEF StorageIInv, StorageInv, ViewOK
<1> QED BY <1>1, <1>2, CleanKeeps

LEMMA RemovalShrinks ==
  ASSUME DiskOK, NEW gone,
         disk' = [p \in DOMAIN disk |-> IF p \in gone THEN 0 ELSE disk[p]]
  PROVE  DiskShrinks
<1>1. DOMAIN disk' = DOMAIN disk
  OBVIOUS
<1>2. \A p \in DOMAIN disk : disk'[p] \in Sizes /\ disk'[p] <= disk[p]
  BY StorageAssumption DEF DiskOK
<1>3. DiskOK'
  BY <1>1, <1>2 DEF DiskOK
<1> QED BY <1>1, <1>2, <1>3 DEF DiskShrinks

LEMMA RemoveTreeKeeps ==
  ASSUME StorageIInv, NEW r \in Requests, RemoveTree(r)
  PROVE  StorageIInv'
<1> DEFINE was == asked[r]
           request == [was EXCEPT !.pc = "removed", !.expect = 0, !.size = 0,
                         !.missed = 0]
           refused == Differs(was.size, was.expect)
           below == PlacesBelow(PathOf(was.id))
<1>1. PICK gone \in SUBSET (IF refused THEN {} ELSE below), failed \in BOOLEAN :
        /\ refused => failed
        /\ \/ failed \/ gone = below
           \/ gone = {} /\ catalog[was.id].cleanup = "clear-contents"
        /\ disk' = [p \in DOMAIN disk |-> IF p \in gone THEN 0 ELSE disk[p]]
        /\ IF failed THEN Answer(r, was, TRUE) ELSE Ask(r, request)
  BY DEF RemoveTree, pageVars
<1> HIDE DEF refused, below
<1>2. /\ was.pc = "counted" /\ was.kind = "clean"
      /\ UNCHANGED <<roots, catalog, measurements, view, hasData, busy>>
  BY DEF RemoveTree, pageVars
<1>3. DiskShrinks /\ measurements' \subseteq Ids
  BY <1>1, <1>2, RemovalShrinks DEF StorageIInv, StorageInv
<1>4. RequestOK(was, catalog, disk) /\ was \in Request
  BY DEF StorageIInv, StorageInv, RequestOK
<1>5. CASE failed
  BY <1>1, <1>2, <1>3, <1>5, AnswerStep
<1>6. CASE ~failed
  <2> HIDE DEF was
  <2>1. /\ request \in Request /\ request.kind = was.kind /\ request.pc = "removed"
        /\ request.fromPage = was.fromPage
    BY <1>4 DEF Request
  <2>2. Ask(r, request)
    BY <1>1, <1>6
  <2> HIDE DEF request
  <2>3. RequestOK(request, catalog, disk')
    BY <1>2, <2>1 DEF RequestOK
  <2> QED BY <1>2, <1>3, <2>1, <2>2, <2>3, HostAsks DEF was
<1> QED BY <1>5, <1>6

-----------------------------------------------------------------------------
(* The console's invariant holds at first and is kept by every step.       *)
LEMMA StorageInitIInv == StorageInit => StorageIInv
<1> SUFFICES ASSUME StorageInit PROVE StorageIInv
  OBVIOUS
<1>1. NoRequest \in Request /\ NoRequest.pc = "idle"
  BY DEF NoRequest, Request, Optional
<1>2. \A r \in Requests : asked[r] = NoRequest
  BY DEF StorageInit
<1>3. \A r \in Requests : RequestOK(asked[r], catalog, disk)
  BY <1>1, <1>2, NoRequestOK
<1>4. DiskOK
  <2>1. DOMAIN disk = {} /\ disk \in [DOMAIN disk -> Sizes]
    BY DEF StorageInit
  <2> QED BY <2>1, FS_EmptySet DEF DiskOK
<1>5. MountOK
  BY <1>1, <1>2 DEF StorageInit, MountOK, Optional, View
<1>6. ViewOK
  BY DEF StorageInit, ViewOK, View, Views
<1>7. StorageAnswers
  BY DEF StorageInit, StorageAnswers, View
<1>9. TableBehind
  BY <1>1, <1>2 DEF TableBehind, Awaits
<1>8. asked = [r \in Requests |-> asked[r]] /\ measurements \subseteq Ids
  BY DEF StorageInit
<1> QED BY <1>3, <1>4, <1>5, <1>6, <1>7, <1>8, <1>9 DEF StorageIInv, StorageInv

LEMMA StorageNextIInv == StorageIInv /\ [StorageNext]_storageVars => StorageIInv'
<1> SUFFICES ASSUME StorageIInv, [StorageNext]_storageVars PROVE StorageIInv'
  OBVIOUS
<1>1. ASSUME NEW r \in Launches, MountConsole(r) PROVE StorageIInv'
  <2>1. StorageInv'
    BY <1>1, MountConsoleKeeps DEF StorageIInv
  <2>2. UNCHANGED <<asked, view, hasData, busy>>
    BY <1>1 DEF MountConsole, pageVars
  <2> QED BY <2>1, <2>2 DEF StorageIInv, StorageAnswers, TableBehind
<1>2. ASSUME NEW id \in Growing, NEW figure \in Sizes, Grow(id, figure)
      PROVE  StorageIInv'
  <2>1. StorageInv'
    BY <1>2, GrowKeeps DEF StorageIInv
  <2>2. /\ UNCHANGED <<view, hasData, busy>>
        /\ \A q \in Requests : /\ asked'[q].kind = asked[q].kind
                               /\ asked'[q].pc = asked[q].pc
                               /\ asked'[q].fromPage = asked[q].fromPage
    <3>1. ASSUME NEW q \in Requests, NEW n
          PROVE  LET more == [asked[q] EXCEPT !.missed = n]
                 IN /\ more.kind = asked[q].kind /\ more.pc = asked[q].pc
                    /\ more.fromPage = asked[q].fromPage
      <4>1. asked[q] \in Request
        BY DEF StorageIInv, StorageInv, RequestOK
      <4> QED BY <4>1 DEF Request
    <3> QED BY <1>2, <3>1 DEF Grow, pageVars
  <2>3. StorageAnswers' /\ TableBehind'
    BY <2>2 DEF StorageIInv, StorageAnswers, TableBehind, Awaits
  <2> QED BY <2>1, <2>3 DEF StorageIInv
<1>3. CASE Leave
  BY <1>3, LeaveConsoleKeeps
<1>4. ASSUME NEW r \in Requests, PageStep(r) PROVE StorageIInv'
  BY <1>4, OpenPanelKeeps, RunScanKeeps, OpenConfirmKeeps, ReceiveKeeps, RunCleanKeeps
     DEF PageStep
<1>5. ASSUME NEW r \in Requests, HostStep(r) PROVE StorageIInv'
  BY <1>5, SkipKeeps, CountSizeKeeps, KeepSizeKeeps, AnswerMeasuredKeeps,
     RequestCleanKeeps, RemoveTreeKeeps, AnswerReportKeeps DEF HostStep
<1>6. CASE UNCHANGED storageVars
  BY <1>6 DEF storageVars, StorageIInv, StorageInv, StorageAnswers, DiskOK, MountOK,
              ViewOK, TableBehind
<1> QED BY <1>1, <1>2, <1>3, <1>4, <1>5, <1>6 DEF StorageNext

(* The console keeps its invariant.                                        *)
THEOREM StorageInvariance == StorageSpec => []StorageIInv
BY StorageInitIInv, StorageNextIInv, PTL DEF StorageSpec

(* Every reachable state of the storage console is well typed: no figure,  *)
(* total or size goes below zero, whichever request removes what another   *)
(* measured.                                                               *)
THEOREM StorageTypeCorrectness == StorageSpec => []StorageTypeOK
<1>1. StorageIInv => StorageTypeOK
  BY DEF StorageIInv, StorageInv, DiskOK, MountOK, ViewOK, RequestOK, StorageTypeOK
<1> QED BY <1>1, StorageInvariance, PTL

(* The page of the storage is never busy, nor its body emptied for a call, *)
(* but for a call of its own that is in flight, and every way back to the  *)
(* table finds the status it shows (storage-console/ui.js).                *)
THEOREM ConsoleAnswers == StorageSpec => []StorageAnswers
<1>1. StorageIInv => StorageAnswers
  BY DEF StorageIInv
<1> QED BY <1>1, StorageInvariance, PTL

-----------------------------------------------------------------------------
(* What is deleted                                                         *)

(* The tolerance is a number, for every size that was shown, and no        *)
(* greater than it.                                                        *)
LEMMA MaxOfTwo ==
  ASSUME NEW m \in Nat, NEW n \in Nat
  PROVE  Max({m, n}) \in {m, n} /\ Max({m, n}) >= m
<1> DEFINE top == IF m <= n THEN n ELSE m
<1>1. /\ top \in {m, n}
      /\ \A y \in {m, n} : top >= y
  OBVIOUS
<1>2. \A x \in {m, n} : (\A y \in {m, n} : x >= y) => x = top
  OBVIOUS
<1>3. Max({m, n}) = top
  BY <1>1, <1>2 DEF Max
<1> QED BY <1>1, <1>3

LEMMA ToleranceIsNat ==
  ASSUME NEW expected \in Nat
  PROVE  ToleranceFor(expected) \in Nat /\ ToleranceFor(expected) <= expected
<1> DEFINE half == expected \div 2
           part == (expected + 49) \div 50
           floor == Min({SizeTolerance, half})
<1>1. half \in Nat /\ part \in Nat /\ half <= expected /\ part <= expected
  OBVIOUS
<1>2. ToleranceFor(expected) = Max({floor, part})
  BY DEF ToleranceFor
<1> HIDE DEF half, part
<1>3. floor \in Nat /\ floor <= half
  BY <1>1, StorageAssumption, MinOfTwo DEF Smaller
<1> HIDE DEF floor
<1>4. Max({floor, part}) \in {floor, part}
  BY <1>1, <1>3, MaxOfTwo
<1> QED BY <1>1, <1>2, <1>3, <1>4

(* A removal that was not refused deletes no more than what it measured    *)
(* and what that missed; a refused one deletes nothing.                    *)
LEMMA RemovalIsBounded ==
  ASSUME StorageIInv, NEW r \in Requests, RemoveTree(r)
  PROVE  LET shown == asked[r].expect
             lost == Lost(disk, disk', PlacesBelow(PathOf(asked[r].id)))
         IN /\ lost <= shown + ToleranceFor(shown) + asked[r].missed
            /\ lost <= 2 * shown + asked[r].missed
<1> DEFINE was == asked[r]
           path == PathOf(was.id)
           below == PlacesBelow(path)
           refused == Differs(was.size, was.expect)
           after == disk'
<1>1. PICK gone \in SUBSET (IF refused THEN {} ELSE below), failed \in BOOLEAN :
        /\ refused => failed
        /\ \/ failed \/ gone = below
           \/ gone = {} /\ catalog[was.id].cleanup = "clear-contents"
        /\ disk' = [p \in DOMAIN disk |-> IF p \in gone THEN 0 ELSE disk[p]]
        /\ IF failed THEN Answer(r, was, TRUE)
           ELSE Ask(r, [was EXCEPT !.pc = "removed", !.expect = 0, !.size = 0,
                          !.missed = 0])
  BY DEF RemoveTree, pageVars
<1>2. was.pc = "counted" /\ was.kind = "clean"
  BY DEF RemoveTree, pageVars
<1>3. RequestOK(was, catalog, disk) /\ DiskOK
  BY DEF StorageIInv, StorageInv
<1>4. /\ was.size \in Nat /\ was.expect \in Nat /\ was.missed \in Nat
      /\ ToleranceFor(was.expect) \in Nat /\ ToleranceFor(was.expect) <= was.expect
  BY <1>3, ToleranceIsNat DEF RequestOK, Request
<1>5. SizeBelow(disk, path) <= was.size + was.missed /\ SizeBelow(disk, path) \in Nat
  BY <1>2, <1>3, MeasureIsNat DEF RequestOK, Counted, PathOf
<1>6. below = Places(path) /\ below \subseteq DOMAIN disk
  BY DEF PlacesBelow, Places
<1>7. Figures(disk, below) /\ SizeBelow(disk, path) = Total(disk, below)
  BY <1>3, <1>6, PlacesHaveFigures, SizeIsTotal DEF Places
<1>8. \A p \in below : after[p] \in Nat /\ after[p] <= disk[p]
  <2>1. DiskShrinks
    BY <1>1, <1>3, RemovalShrinks
  <2> QED BY <1>6, <2>1, StorageAssumption DEF DiskShrinks, DiskOK
<1>9. refused => \A p \in below : after[p] = disk[p]
  BY <1>1, <1>6
<1> HIDE DEF after, below, path
<1>10. /\ Lost(disk, after, below) <= Total(disk, below)
       /\ refused => Lost(disk, after, below) = 0
       /\ Lost(disk, after, below) \in Nat
  BY <1>7, <1>8, <1>9, LostIsBounded
<1>11. ~refused => was.size <= was.expect + ToleranceFor(was.expect)
  BY <1>4 DEF Differs
<1> HIDE DEF refused, was
<1>12. Lost(disk, after, below) <= was.expect + ToleranceFor(was.expect) + was.missed
  BY <1>4, <1>5, <1>7, <1>10, <1>11
<1>13. Lost(disk, after, below) <= 2 * was.expect + was.missed
  BY <1>4, <1>10, <1>12
<1> QED BY <1>12, <1>13 DEF after, below, path, was

(* Only its own removal ends a cleanup that was measured.                  *)
LEMMA OnlyRemovalEnds ==
  ASSUME StorageIInv, [StorageNext]_storageVars, NEW r \in Requests,
         asked[r].kind = "clean", asked[r].pc = "counted", asked'[r].pc # "counted"
  PROVE  RemoveTree(r)
<1> DEFINE Goal == RemoveTree(r)
<1>1. asked = [q \in Requests |-> asked[q]] /\ asked[r] \in Request
  BY DEF StorageIInv, StorageInv, RequestOK
<1>2. ASSUME NEW q \in Requests, NEW request, Ask(q, request), q # r PROVE FALSE
  BY <1>1, <1>2 DEF Ask
<1>3. ASSUME NEW q \in Requests, Free(q) PROVE q # r
  BY <1>3, FreeIsIdle
<1>4. ASSUME NEW launch \in Launches, MountConsole(launch) PROVE Goal
  BY <1>4 DEF MountConsole
<1>5. ASSUME NEW id \in Growing, NEW figure \in Sizes, Grow(id, figure) PROVE Goal
  <2>1. ASSUME NEW n PROVE [asked[r] EXCEPT !.missed = n].pc = asked[r].pc
    BY <1>1 DEF Request
  <2> QED BY <1>5, <2>1 DEF Grow
<1>6. ASSUME Leave PROVE Goal
  BY <1>6 DEF Leave
<1>7. ASSUME NEW q \in Requests, PageStep(q) PROVE Goal
  <2>1. ASSUME OpenPanel(q) PROVE Goal
    BY <1>2, <1>3, <2>1 DEF OpenPanel, PageAsk
  <2>2. ASSUME NEW scope, RunScan(q, scope) PROVE Goal
    BY <1>2, <1>3, <2>2 DEF RunScan, PageAsk
  <2>3. ASSUME NEW id, OpenConfirm(q, id) PROVE Goal
    BY <1>2, <1>3, <2>3 DEF OpenConfirm
  <2>4. ASSUME Receive(q) PROVE Goal
    BY <1>2, <2>4 DEF Receive, PageAsk
  <2>5. ASSUME RunClean(q) PROVE Goal
    BY <1>2, <1>3, <2>5 DEF RunClean, Clean, Answer
  <2> QED BY <1>7, <2>1, <2>2, <2>3, <2>4, <2>5 DEF PageStep
<1>8. ASSUME NEW q \in Requests, HostStep(q) PROVE Goal
  <2>1. ASSUME NEW id, Skip(q, id) PROVE Goal
    BY <1>2, <2>1 DEF Skip
  <2>2. ASSUME NEW id, CountSize(q, id) PROVE Goal
    BY <1>2, <2>2 DEF CountSize
  <2>3. ASSUME KeepSize(q) PROVE Goal
    BY <1>2, <2>3 DEF KeepSize
  <2>4. ASSUME AnswerMeasured(q) PROVE Goal
    BY <1>2, <2>4 DEF AnswerMeasured, Answer
  <2>5. ASSUME NEW id, NEW confirm, NEW expect, RequestClean(q, id, confirm, expect)
        PROVE  Goal
    BY <1>2, <1>3, <2>5 DEF RequestClean, Clean, Answer
  <2>6. ASSUME RemoveTree(q) PROVE Goal
    BY <1>2, <2>6 DEF RemoveTree, Answer
  <2>7. ASSUME Report(q) PROVE Goal
    BY <1>2, <2>7 DEF Report, Answer
  <2> QED BY <1>8, <2>1, <2>2, <2>3, <2>4, <2>5, <2>6, <2>7 DEF HostStep
<1>9. ASSUME UNCHANGED storageVars PROVE Goal
  BY <1>9 DEF storageVars
<1> QED BY <1>4, <1>5, <1>6, <1>7, <1>8, <1>9 DEF StorageNext

(* A cleanup deletes what its caller was shown, up to the tolerance and to *)
(* what its measurement missed, and never more than twice the figure but   *)
(* for that (clean(), toleranceFor()).                                     *)
THEOREM DeletesShown == StorageSpec => DeletesWhatWasShown
<1>1. StorageIInv /\ [StorageNext]_storageVars =>
        [\A r \in Requests :
           LET before == asked[r]
               deleted == MapThenSumSet(LAMBDA p : disk[p] - disk'[p],
                                        PlacesBelow(PathOf(before.id)))
           IN /\ before.kind = "clean" /\ before.pc = "counted"
              /\ asked'[r].pc # "counted"
              => /\ deleted <= before.expect + ToleranceFor(before.expect) + before.missed
                 /\ deleted <= 2 * before.expect + before.missed
        ]_storageVars
  <2> SUFFICES ASSUME StorageIInv, [StorageNext]_storageVars, NEW r \in Requests,
                      asked[r].kind = "clean", asked[r].pc = "counted",
                      asked'[r].pc # "counted"
               PROVE  LET deleted == MapThenSumSet(LAMBDA p : disk[p] - disk'[p],
                                                   PlacesBelow(PathOf(asked[r].id)))
                      IN /\ deleted <= asked[r].expect + ToleranceFor(asked[r].expect)
                                         + asked[r].missed
                         /\ deleted <= 2 * asked[r].expect + asked[r].missed
    OBVIOUS
  <2>1. RemoveTree(r)
    BY OnlyRemovalEnds
  <2> QED BY <2>1, RemovalIsBounded DEF Lost
<1> QED BY <1>1, StorageInvariance, PTL DEF StorageSpec, DeletesWhatWasShown

(* Only a cleanup that was allowed takes anything off the disk, and what   *)
(* it takes lies at or below its target.                                   *)
LEMMA OnlyCleanupsRemove ==
  ASSUME StorageIInv, [StorageNext]_storageVars, NEW place \in DOMAIN disk,
         disk'[place] < disk[place]
  PROVE  \E r \in Requests :
           /\ Allowed(asked[r], catalog)
           /\ AtOrBelow(place, PathOf(asked[r].id))
<1> DEFINE Goal == \E r \in Requests :
                     /\ Allowed(asked[r], catalog)
                     /\ AtOrBelow(place, PathOf(asked[r].id))
<1>1. disk[place] \in Nat
  BY StorageAssumption DEF StorageIInv, StorageInv, DiskOK
<1>2. disk' # disk
  BY <1>1
<1>3. ASSUME NEW launch \in Launches, MountConsole(launch) PROVE Goal
  BY <1>3 DEF MountConsole, StorageIInv, StorageInv, MountOK
<1>4. ASSUME NEW id \in Growing, NEW figure \in Sizes, Grow(id, figure) PROVE Goal
  <2>1. disk' = [disk EXCEPT ![PathOf(id)] = figure] /\ disk[PathOf(id)] < figure
    BY <1>4 DEF Grow
  <2>2. disk'[place] = disk[place] \/ disk[place] < disk'[place]
    BY <2>1 DEF StorageIInv, StorageInv, DiskOK
  <2>3. disk'[place] \in Nat
    BY <1>1, <2>1, StorageAssumption DEF StorageIInv, StorageInv, DiskOK
  <2> QED BY <1>1, <2>2, <2>3
<1>5. ASSUME NEW r \in Requests, RemoveTree(r) PROVE Goal
  <2>1. place \in PlacesBelow(PathOf(asked[r].id))
    BY <1>1, <1>5 DEF RemoveTree
  <2>2. asked[r].kind = "clean" /\ asked[r].pc = "counted"
    BY <1>5 DEF RemoveTree
  <2>3. RequestOK(asked[r], catalog, disk)
    BY DEF StorageIInv, StorageInv
  <2> QED BY <2>1, <2>2, <2>3 DEF PlacesBelow, RequestOK
<1>6. ASSUME NEW r \in Requests, PageStep(r) PROVE Goal
  BY <1>2, <1>6 DEF PageStep, OpenPanel, RunScan, OpenConfirm, Receive, RunClean
<1>7. ASSUME NEW r \in Requests, HostStep(r) PROVE Goal
  BY <1>2, <1>5, <1>7 DEF HostStep, Skip, CountSize, KeepSize, AnswerMeasured,
     RequestClean, Report
<1>8. ASSUME Leave \/ UNCHANGED storageVars PROVE Goal
  BY <1>2, <1>8 DEF Leave, storageVars
<1> QED BY <1>3, <1>4, <1>6, <1>7, <1>8 DEF StorageNext

(* Of the launches: no guarded entry of the catalog lies at or below one   *)
(* that may be removed.  It is a fact of the roots, which the code does    *)
(* not check: it fails where the workspace is the profiles of the harness. *)
GuardedApart ==
  \A launch \in Launches : \A kept, target \in BuildCatalog(launch) :
    kept.safety = "guarded" /\ kept.path # None /\ Removable(target)
      => ~ AtOrBelow(kept.path, target.path)

(* Under such roots no request of the page, or of another client of the    *)
(* endpoint, removes what a guarded entry holds (assertFenced(),           *)
(* isRemovable()).                                                         *)
THEOREM GuardedAreKept ==
  ASSUME GuardedApart
  PROVE  StorageSpec => GuardedSurvive
<1>1. StorageIInv /\ [StorageNext]_storageVars =>
        [\A place \in DOMAIN disk :
           disk'[place] < disk[place]
             => \A id \in DOMAIN catalog :
                  PathOf(id) = place => catalog[id].safety # "guarded"]_storageVars
  <2> SUFFICES ASSUME StorageIInv, [StorageNext]_storageVars,
                      NEW place \in DOMAIN disk, disk'[place] < disk[place],
                      NEW id \in DOMAIN catalog, PathOf(id) = place,
                      catalog[id].safety = "guarded"
               PROVE  FALSE
    OBVIOUS
  <2>1. PICK r \in Requests : /\ Allowed(asked[r], catalog)
                              /\ AtOrBelow(place, PathOf(asked[r].id))
    BY OnlyCleanupsRemove
  <2> DEFINE target == catalog[asked[r].id]
  <2>2. roots \in Launches
    BY DEF StorageIInv, StorageInv, MountOK, Optional
  <2>3. catalog[id] \in BuildCatalog(roots) /\ target \in BuildCatalog(roots)
    BY <2>1, <2>2, StorageAssumption DEF StorageIInv, StorageInv, MountOK, Allowed
  <2>4. place # None /\ catalog[id].path = place
    BY DEF StorageIInv, StorageInv, DiskOK, PathOf
  <2> QED BY <2>1, <2>2, <2>3, <2>4 DEF GuardedApart, Allowed, PathOf
<1> QED BY <1>1, StorageInvariance, PTL DEF StorageSpec, GuardedSurvive

-----------------------------------------------------------------------------
(* The page of the projects                                                *)

Registry == [current : Optional(Projects), recent : SUBSET Projects]
Zone ==
  [kind : {"none", "reading", "status", "failed", "commit", "push", "working"},
   status : Optional(Projects), pull : BOOLEAN]
Panel ==
  [shown : BOOLEAN, busy : BOOLEAN, screen : Screens, data : Optional(Registry),
   target : Optional(Targets), token : 0..MaxCards, zone : Zone,
   gitStatus : Optional(Projects)]

(* What a panel shows is there: the projects it lists, the project it asks *)
(* about.                                                                  *)
PanelFits(p) ==
  /\ p.screen = "panel" => p.data # None
  /\ p.screen \in {"blocked", "confirm", "forget", "switched", "capability"} =>
       p.target \in Targets

PageActions == Guarding \cup GitActionNames \cup {"none", "status", "restart"}
InFlight ==
  [action : PageActions, target : Optional(Targets), card : 0..MaxCards,
   status : Optional(Projects), read : SUBSET {"current", "recent"},
   answer : Optional(Registry \cup Projects \cup {"cancelled", "idle", "busy", "done"})]

(* A call names the project it is about, and its answer is the action's.   *)
CallOK(c) ==
  /\ c \in InFlight
  /\ c.action = "none" => c = NoPageCall
  /\ c.action \in {"operations", "create", "open", "forget"} => c.target \in Targets
  /\ c.action = "refresh" => c.answer \in Optional(Registry)
  /\ c.action = "choose" => c.answer \in Optional({"cancelled"} \cup Projects)
  /\ c.action \in GitActionNames \cup {"status"} => c.answer \in Optional(Projects)

CallsOK(cs) ==
  /\ cs = [s \in PageCalls |-> cs[s]]
  /\ \A s \in PageCalls : CallOK(cs[s])

InFlightOf(cs, acts) == \E s \in PageCalls : cs[s].action \in acts
FlagOK(p, cs) ==
  /\ p.busy => InFlightOf(cs, Guarding)
  /\ p.screen = "waiting" => InFlightOf(cs, Guarding \cup {"restart"})

PageOK(p, cs) == p \in Panel /\ PanelFits(p) /\ CallsOK(cs) /\ FlagOK(p, cs)
ProjectsInv == PageOK(panel, pageCalls) /\ registry \in Registry

-----------------------------------------------------------------------------
LEMMA NoPageCallOK == CallOK(NoPageCall) /\ NoPageCall.action = "none"
BY ProjectsPageAssumption
   DEF CallOK, NoPageCall, InFlight, PageActions, Optional, Guarding, GitActionNames

LEMMA CallIsOK ==
  ASSUME NEW action \in PageActions \ {"none"}, NEW target \in Optional(Targets),
         action \in {"operations", "create", "open", "forget"} => target \in Targets
  PROVE  /\ CallOK(PageCall(action, target))
         /\ PageCall(action, target).action = action
         /\ PageCall(action, target).answer = None
<1>1. NoPageCall \in InFlight /\ NoPageCall.answer = None
  BY NoPageCallOK DEF CallOK, NoPageCall
<1> HIDE DEF NoPageCall
<1>2. /\ PageCall(action, target) \in InFlight
      /\ PageCall(action, target).action = action
      /\ PageCall(action, target).target = target
      /\ PageCall(action, target).answer = None
  BY <1>1 DEF PageCall, InFlight
<1> QED BY <1>2 DEF CallOK, Optional

(* A call takes a free slot, and the calls in flight stay in flight.       *)
LEMMA SentIsInFlight ==
  ASSUME NEW cs, CallsOK(cs), FreeSlots(cs) # {}, NEW c, CallOK(c)
  PROVE  /\ CallsOK(Send(cs, c))
         /\ \A acts : c.action \in acts => InFlightOf(Send(cs, c), acts)
         /\ \A acts : "none" \notin acts /\ InFlightOf(cs, acts) =>
              InFlightOf(Send(cs, c), acts)
<1> DEFINE slot == CHOOSE s \in FreeSlots(cs) : TRUE
<1>1. slot \in PageCalls /\ cs[slot] = NoPageCall
  BY DEF FreeSlots
<1>2. Send(cs, c) = [cs EXCEPT ![slot] = c]
  BY DEF Send
<1> HIDE DEF slot
<1>3. Send(cs, c) = [s \in PageCalls |-> IF s = slot THEN c ELSE cs[s]]
  BY <1>1, <1>2 DEF CallsOK
<1> QED BY <1>1, <1>3, NoPageCallOK DEF CallsOK, InFlightOf

(* What a panel is after its body is drawn anew.                           *)
LEMMA ScreenFields ==
  ASSUME NEW p \in Panel, NEW kind \in Screens, NEW target \in Optional(Targets)
  PROVE  LET drawn == Screen(p, kind, target)
         IN /\ drawn \in Panel /\ drawn.screen = kind /\ drawn.target = target
            /\ drawn.busy = p.busy /\ drawn.data = p.data /\ drawn.token = p.token
<1>1. NoZone \in Zone
  BY DEF NoZone, Zone, Optional
<1> HIDE DEF NoZone
<1> QED BY <1>1 DEF Screen, Panel

LEMMA WorkingFields ==
  ASSUME NEW p \in Panel
  PROVE  Working(p) \in Panel /\ Working(p).screen = "waiting"
<1> DEFINE drawn == Screen(p, "waiting", None)
<1>1. drawn \in Panel /\ drawn.screen = "waiting"
  BY ScreenFields DEF Screens, Optional
<1> HIDE DEF drawn
<1>2. [drawn EXCEPT !.busy = TRUE] \in Panel
      /\ [drawn EXCEPT !.busy = TRUE].screen = "waiting"
  BY <1>1 DEF Panel
<1> QED BY <1>2 DEF Working, drawn

LEMMA FreedFields ==
  ASSUME NEW p \in Panel
  PROVE  /\ Freed(p) \in Panel /\ ~ Freed(p).busy /\ Freed(p).data = p.data
         /\ Freed(p).token = p.token
BY DEF Freed, Panel

LEMMA WorkingIsAwaited ==
  ASSUME NEW p \in Panel, NEW cs, CallsOK(cs), FreeSlots(cs) # {}, NEW c, CallOK(c),
         c.action \in Guarding
  PROVE  PageOK(Working(p), Send(cs, c))
<1>1. /\ CallsOK(Send(cs, c)) /\ InFlightOf(Send(cs, c), Guarding)
      /\ InFlightOf(Send(cs, c), Guarding \cup {"restart"})
  BY SentIsInFlight
<1>2. Working(p) \in Panel /\ Working(p).screen = "waiting"
  BY WorkingFields
<1> QED BY <1>1, <1>2 DEF PageOK, PanelFits, FlagOK

LEMMA AskModelKeeps ==
  ASSUME NEW p \in Panel, NEW cs, CallsOK(cs), p.busy => PageOK(p, cs),
         NEW c, CallOK(c), c.action \in Guarding, AskModel(p, cs, c)
  PROVE  PageOK(panel', pageCalls')
<1>1. CASE p.busy
  BY <1>1 DEF AskModel
<1>2. CASE ~p.busy
  BY <1>2, WorkingIsAwaited DEF AskModel
<1> QED BY <1>1, <1>2

LEMMA RefreshPageKeeps ==
  ASSUME NEW p \in Panel, NEW cs, CallsOK(cs), p.busy => PageOK(p, cs),
         RefreshPage(p, cs)
  PROVE  PageOK(panel', pageCalls')
<1>1. CallOK(PageCall("refresh", None)) /\ PageCall("refresh", None).action \in Guarding
  BY CallIsOK DEF PageActions, Guarding, Optional
<1> QED BY <1>1, AskModelKeeps DEF RefreshPage

LEMMA OpenTargetKeeps ==
  ASSUME NEW p \in Panel, NEW cs, CallsOK(cs), NEW target \in Targets,
         OpenTarget(p, cs, target)
  PROVE  PageOK(panel', pageCalls')
<1>1. /\ CallOK(PageCall("operations", target))
      /\ PageCall("operations", target).action \in Guarding
  BY CallIsOK DEF PageActions, Guarding, Optional
<1> QED BY <1>1, WorkingIsAwaited DEF OpenTarget

LEMMA RenderAllKeeps ==
  ASSUME NEW p \in Panel, NEW cs, CallsOK(cs), p.busy => InFlightOf(cs, Guarding),
         NEW data \in Registry, data # None, RenderAll(p, cs, data)
  PROVE  PageOK(panel', pageCalls')
<1> DEFINE drawn == Screen(p, "panel", None)
           listed == [drawn EXCEPT !.data = data]
           next == p.token + 1
           carded == [listed EXCEPT !.token = next, !.zone = ZoneOf("reading", None)]
<1>1. /\ drawn \in Panel /\ drawn.screen = "panel" /\ drawn.busy = p.busy
      /\ drawn.token = p.token
  BY ScreenFields DEF Screens, Optional
<1>2. ZoneOf("reading", None) \in Zone
  BY DEF ZoneOf, NoZone, Zone, Optional
<1>3. [drawn EXCEPT !.data = data, !.token = @ + 1, !.zone = ZoneOf("reading", None)]
        = carded
  BY <1>1 DEF Panel
<1> HIDE DEF drawn
<1>4. /\ listed \in Panel /\ listed.screen = "panel" /\ listed.busy = p.busy
      /\ listed.data = data
  BY <1>1 DEF Panel, Optional
<1> HIDE DEF listed
<1>5. CASE data.current = None
  BY <1>4, <1>5 DEF RenderAll, PageOK, PanelFits, FlagOK, drawn, listed
<1>6. CASE data.current # None
  <2>1. /\ p.token < MaxCards /\ FreeSlots(cs) # {} /\ panel' = carded
        /\ pageCalls' = Send(cs, [PageCall("status", None) EXCEPT !.card = next])
    BY <1>3, <1>6 DEF RenderAll, drawn
  <2>2. next \in 0..MaxCards
    BY <2>1, ProjectsPageAssumption DEF Panel
  <2> DEFINE call == [PageCall("status", None) EXCEPT !.card = next]
  <2> HIDE DEF next
  <2>3. CallOK(call)
    <3>1. CallOK(PageCall("status", None)) /\ PageCall("status", None).action = "status"
          /\ PageCall("status", None).answer = None
      BY CallIsOK DEF PageActions, Guarding, Optional
    <3> HIDE DEF PageCall
    <3> QED BY <2>2, <3>1 DEF CallOK, InFlight, Guarding, GitActionNames
  <2> HIDE DEF call
  <2>4. /\ CallsOK(Send(cs, call))
        /\ InFlightOf(cs, Guarding) => InFlightOf(Send(cs, call), Guarding)
    BY <2>1, <2>3, SentIsInFlight DEF Guarding
  <2>5. /\ carded \in Panel /\ carded.screen = "panel" /\ carded.busy = p.busy
        /\ carded.data = data
    BY <1>2, <1>4, <2>2 DEF Panel
  <2> HIDE DEF carded
  <2> QED BY <2>1, <2>4, <2>5 DEF PageOK, PanelFits, FlagOK, call
<1> QED BY <1>5, <1>6

(* A body that offers something, drawn over a panel whose flag is right.   *)
LEMMA ScreenKeeps ==
  ASSUME NEW p \in Panel, NEW cs, CallsOK(cs), p.busy => InFlightOf(cs, Guarding),
         NEW kind \in Screens \ {"waiting", "panel"}, NEW target \in Optional(Targets),
         kind \in {"blocked", "confirm", "forget", "switched", "capability"} =>
           target \in Targets
  PROVE  PageOK(Screen(p, kind, target), cs)
<1>1. LET drawn == Screen(p, kind, target)
      IN drawn \in Panel /\ drawn.screen = kind /\ drawn.target = target
         /\ drawn.busy = p.busy
  BY ScreenFields
<1> HIDE DEF Screen
<1> QED BY <1>1 DEF PageOK, PanelFits, FlagOK

-----------------------------------------------------------------------------
(* Clicks                                                                  *)

LEMMA CurrentPage ==
  ASSUME ProjectsInv
  PROVE  /\ panel \in Panel /\ CallsOK(pageCalls) /\ PageOK(panel, pageCalls)
         /\ panel.busy => InFlightOf(pageCalls, Guarding)
         /\ panel.data # None => panel.data \in Registry
BY DEF ProjectsInv, PageOK, FlagOK, Panel, Optional

(* Changes that leave the body, what was read and the flag as they were.   *)
SameBody(p, q) ==
  /\ q \in Panel /\ q.screen = p.screen /\ q.busy = p.busy /\ q.data = p.data
  /\ q.target = p.target

LEMMA SameBodyKeeps ==
  ASSUME NEW p, NEW q, NEW cs, PageOK(p, cs), SameBody(p, q)
  PROVE  PageOK(q, cs)
BY DEF PageOK, PanelFits, FlagOK, SameBody

LEMMA OpenProjectsKeeps == ProjectsInv /\ OpenProjects => ProjectsInv'
<1> SUFFICES ASSUME ProjectsInv, OpenProjects PROVE ProjectsInv'
  OBVIOUS
<1> DEFINE p == [panel EXCEPT !.shown = TRUE]
<1>1. /\ IF p.data # None THEN RenderAll(p, pageCalls, p.data)
         ELSE RefreshPage(p, pageCalls)
      /\ registry' = registry
  BY DEF OpenProjects
<1>2. SameBody(panel, p)
  BY CurrentPage DEF SameBody, Panel
<1> HIDE DEF p
<1>3. PageOK(p, pageCalls) /\ p \in Panel
  BY <1>2, CurrentPage, SameBodyKeeps DEF SameBody
<1>4. PageOK(panel', pageCalls')
  BY <1>1, <1>2, <1>3, CurrentPage, RenderAllKeeps, RefreshPageKeeps DEF SameBody
<1> QED BY <1>1, <1>4 DEF ProjectsInv

LEMMA CloseProjectsKeeps == ProjectsInv /\ CloseProjects => ProjectsInv'
<1> SUFFICES ASSUME ProjectsInv, CloseProjects PROVE ProjectsInv'
  OBVIOUS
<1>1. SameBody(panel, panel') /\ UNCHANGED <<pageCalls, registry>>
  BY CurrentPage DEF CloseProjects, SameBody, Panel
<1> QED BY <1>1, CurrentPage, SameBodyKeeps DEF ProjectsInv

LEMMA ClickRefreshKeeps == ProjectsInv /\ ClickRefresh => ProjectsInv'
BY CurrentPage, RefreshPageKeeps DEF ClickRefresh, ProjectsInv

(* A call that the flag guards, from the panel as it is.                   *)
LEMMA ClickKeeps ==
  ASSUME ProjectsInv, NEW action \in Guarding, NEW target \in Optional(Targets),
         action \in {"operations", "create", "open", "forget"} => target \in Targets,
         AskModel(panel, pageCalls, PageCall(action, target)), registry' = registry
  PROVE  ProjectsInv'
<1>1. /\ CallOK(PageCall(action, target))
      /\ PageCall(action, target).action \in Guarding
  BY CallIsOK DEF PageActions, Guarding
<1> QED BY <1>1, CurrentPage, AskModelKeeps DEF ProjectsInv

LEMMA ClickPickerKeeps == ProjectsInv /\ ClickPicker => ProjectsInv'
BY ClickKeeps DEF ClickPicker, Guarding, Optional

LEMMA ApplyCapabilityKeeps == ProjectsInv /\ ApplyCapability => ProjectsInv'
BY ClickKeeps DEF ApplyCapability, Guarding, Optional

LEMMA RunForgetKeeps == ProjectsInv /\ RunForget => ProjectsInv'
<1> SUFFICES ASSUME ProjectsInv, RunForget PROVE ProjectsInv'
  OBVIOUS
<1>1. panel.target \in Targets
  BY DEF RunForget, Shows, ProjectsInv, PageOK, PanelFits
<1> QED BY <1>1, ClickKeeps DEF RunForget, Guarding, Optional

LEMMA ApplySwitchKeeps == ProjectsInv /\ ApplySwitch => ProjectsInv'
<1> SUFFICES ASSUME ProjectsInv, ApplySwitch PROVE ProjectsInv'
  OBVIOUS
<1>1. panel.target \in Targets
  BY DEF ApplySwitch, Shows, ProjectsInv, PageOK, PanelFits
<1> DEFINE action == IF panel.target.named THEN "open" ELSE "create"
<1>2. action \in {"open", "create"}
  OBVIOUS
<1>3. AskModel(panel, pageCalls, PageCall(action, panel.target)) /\ registry' = registry
  BY DEF ApplySwitch
<1> HIDE DEF action
<1> QED BY <1>1, <1>2, <1>3, ClickKeeps DEF Guarding, Optional

LEMMA ClickTargetKeeps == ProjectsInv /\ ClickTarget => ProjectsInv'
<1> SUFFICES ASSUME ProjectsInv, ClickTarget PROVE ProjectsInv'
  OBVIOUS
<1>1. \E target \in Targets : OpenTarget(panel, pageCalls, target)
  <2>1. CASE Shows("panel") /\ \E p \in panel.data.recent \ {panel.data.current} :
               OpenTarget(panel, pageCalls, [project |-> p, named |-> TRUE])
    <3>1. panel.data \in Registry
      BY <2>1, CurrentPage DEF Shows, ProjectsInv, PageOK, PanelFits
    <3> QED BY <2>1, <3>1 DEF Registry, Targets
  <2>2. CASE Shows("blocked") /\ OpenTarget(panel, pageCalls, panel.target)
    BY <2>2 DEF Shows, ProjectsInv, PageOK, PanelFits
  <2> QED BY <2>1, <2>2 DEF ClickTarget
<1> QED BY <1>1, CurrentPage, OpenTargetKeeps DEF ClickTarget, ProjectsInv

(* A body that asks about one project.                                     *)
LEMMA AskAboutKeeps ==
  ASSUME ProjectsInv, NEW kind \in {"capability", "forget"}, NEW project \in Projects,
         panel' = Screen(panel, kind, [project |-> project, named |-> TRUE]),
         UNCHANGED <<pageCalls, registry>>
  PROVE  ProjectsInv'
<1>1. [project |-> project, named |-> TRUE] \in Targets
  BY DEF Targets
<1> QED BY <1>1, CurrentPage, ScreenKeeps DEF ProjectsInv, Screens, Optional

LEMMA CapabilityConfirmKeeps == ProjectsInv /\ OpenCapabilityConfirm => ProjectsInv'
<1> SUFFICES ASSUME ProjectsInv, OpenCapabilityConfirm PROVE ProjectsInv'
  OBVIOUS
<1>1. CardOf(panel) \in Projects
  <2>1. CASE panel.screen = "panel"
    BY <2>1, CurrentPage DEF OpenCapabilityConfirm, CardOf, ProjectsInv, PageOK,
       PanelFits, Registry, Optional
  <2>2. CASE panel.screen = "switched"
    BY <2>2 DEF CardOf, ProjectsInv, PageOK, PanelFits, Targets
  <2>3. CASE panel.screen \notin {"panel", "switched"}
    BY <2>3 DEF OpenCapabilityConfirm, CardOf
  <2> QED BY <2>1, <2>2, <2>3
<1> QED BY <1>1, AskAboutKeeps DEF OpenCapabilityConfirm

LEMMA ConfirmForgetKeeps == ProjectsInv /\ ConfirmForget => ProjectsInv'
<1> SUFFICES ASSUME ProjectsInv, ConfirmForget PROVE ProjectsInv'
  OBVIOUS
<1>1. panel.data.recent \subseteq Projects
  BY CurrentPage DEF ConfirmForget, Shows, ProjectsInv, PageOK, PanelFits, Registry
<1> QED BY <1>1, AskAboutKeeps DEF ConfirmForget

LEMMA RunRestartKeeps == ProjectsInv /\ RunRestart => ProjectsInv'
<1> SUFFICES ASSUME ProjectsInv, RunRestart PROVE ProjectsInv'
  OBVIOUS
<1> DEFINE call == PageCall("restart", None)
<1>1. CallOK(call) /\ call.action = "restart"
  BY CallIsOK DEF PageActions, Guarding, Optional
<1> HIDE DEF call
<1>2. /\ FreeSlots(pageCalls) # {} /\ panel' = Screen(panel, "waiting", None)
      /\ pageCalls' = Send(pageCalls, call) /\ registry' = registry
  BY DEF RunRestart, call
<1>3. /\ CallsOK(pageCalls') /\ InFlightOf(pageCalls', Guarding \cup {"restart"})
      /\ InFlightOf(pageCalls, Guarding) => InFlightOf(pageCalls', Guarding)
  BY <1>1, <1>2, CurrentPage, SentIsInFlight DEF Guarding
<1>4. panel' \in Panel /\ panel'.screen = "waiting" /\ panel'.busy = panel.busy
  BY <1>2, CurrentPage, ScreenFields DEF Screens, Optional
<1> QED BY <1>2, <1>3, <1>4, CurrentPage DEF ProjectsInv, PageOK, PanelFits, FlagOK

-----------------------------------------------------------------------------
(* The Git zone                                                            *)

LEMMA ZoneIsDrawn ==
  ASSUME NEW p \in Panel, NEW zone \in Zone
  PROVE  SameBody(p, [p EXCEPT !.zone = zone])
BY DEF SameBody, Panel

LEMMA ZoneOfIsZone ==
  ASSUME NEW kind \in {"reading", "status", "failed", "commit", "push", "working"},
         NEW whose \in Optional(Projects)
  PROVE  ZoneOf(kind, whose) \in Zone
BY DEF ZoneOf, NoZone, Zone, Optional

LEMMA StatusOfZone ==
  ASSUME ProjectsInv
  PROVE  panel.zone \in Zone /\ panel.zone.status \in Optional(Projects)
         /\ panel.gitStatus \in Optional(Projects)
BY CurrentPage DEF Panel, Zone

LEMMA OpenGitViewKeeps ==
  ASSUME ProjectsInv, NEW kind \in {"commit", "push"}, OpenGitView(kind)
  PROVE  ProjectsInv'
<1>1. SameBody(panel, panel') /\ UNCHANGED <<pageCalls, registry>>
  BY CurrentPage, StatusOfZone, ZoneOfIsZone, ZoneIsDrawn DEF OpenGitView
<1> QED BY <1>1, CurrentPage, SameBodyKeeps DEF ProjectsInv

LEMMA LeaveGitViewKeeps == ProjectsInv /\ LeaveGitView => ProjectsInv'
<1> SUFFICES ASSUME ProjectsInv, LeaveGitView PROVE ProjectsInv'
  OBVIOUS
<1> DEFINE zone == ZoneOf("status", panel.zone.status)
<1>1. panel' = [panel EXCEPT !.zone = zone] /\ UNCHANGED <<pageCalls, registry>>
  BY CurrentPage DEF LeaveGitView, Panel
<1>2. zone \in Zone
  BY StatusOfZone, ZoneOfIsZone
<1> HIDE DEF zone
<1>3. SameBody(panel, panel')
  BY <1>1, <1>2, CurrentPage, ZoneIsDrawn
<1> QED BY <1>1, <1>3, CurrentPage, SameBodyKeeps DEF ProjectsInv

LEMMA RunGitKeeps ==
  ASSUME ProjectsInv, NEW action \in GitActionNames, RunGit(action)
  PROVE  ProjectsInv'
<1> DEFINE plain == PageCall(action, None)
           whose == IF action = "commit" THEN panel.zone.status ELSE None
           call == [plain EXCEPT !.card = panel.token, !.status = whose]
           zone == ZoneOf("working", None)
           drawn == [panel EXCEPT !.zone = zone]
<1>1. /\ FreeSlots(pageCalls) # {} /\ panel' = drawn
      /\ pageCalls' = Send(pageCalls, call) /\ registry' = registry
  BY DEF RunGit
<1>2. CallOK(plain) /\ plain.action = action /\ plain.answer = None
  BY CallIsOK DEF PageActions, Guarding, GitActionNames, Optional
<1>3. whose \in Optional(Projects) /\ panel.token \in 0..MaxCards
  BY StatusOfZone, CurrentPage DEF Optional, Panel
<1>4. zone \in Zone
  BY ZoneOfIsZone DEF Optional
<1> HIDE DEF plain, whose, zone
<1>5. CallOK(call)
  <2>1. call \in InFlight /\ call.action = action /\ call.answer = None
    BY <1>2, <1>3 DEF CallOK, InFlight
  <2> HIDE DEF call
  <2> QED BY <2>1 DEF CallOK, GitActionNames, Optional
<1>6. SameBody(panel, drawn)
  BY <1>4, CurrentPage, ZoneIsDrawn
<1> HIDE DEF call, drawn
<1>7. /\ CallsOK(pageCalls')
      /\ InFlightOf(pageCalls, Guarding) => InFlightOf(pageCalls', Guarding)
      /\ InFlightOf(pageCalls, Guarding \cup {"restart"}) =>
           InFlightOf(pageCalls', Guarding \cup {"restart"})
  BY <1>1, <1>5, CurrentPage, SentIsInFlight DEF Guarding
<1>8. PageOK(panel, pageCalls')
  BY <1>7, CurrentPage DEF PageOK, FlagOK
<1> QED BY <1>1, <1>6, <1>8, SameBodyKeeps DEF ProjectsInv

-----------------------------------------------------------------------------
(* What the Project Model answers                                          *)

(* A call that reads or is served stays in flight, with its answer.        *)
LEMMA AnsweredKeeps ==
  ASSUME ProjectsInv, NEW s \in PageCalls, NEW call, CallOK(call),
         call.action = pageCalls[s].action,
         pageCalls' = [pageCalls EXCEPT ![s] = call], panel' = panel,
         registry' \in Registry
  PROVE  ProjectsInv'
<1>1. pageCalls' = [q \in PageCalls |-> IF q = s THEN call ELSE pageCalls[q]]
  BY CurrentPage DEF CallsOK
<1>2. CallsOK(pageCalls')
  BY <1>1, CurrentPage DEF CallsOK
<1>3. \A acts : InFlightOf(pageCalls, acts) => InFlightOf(pageCalls', acts)
  BY <1>1 DEF InFlightOf
<1> QED BY <1>2, <1>3, CurrentPage DEF ProjectsInv, PageOK, FlagOK

LEMMA ReadPartKeeps ==
  ASSUME ProjectsInv, NEW s \in PageCalls, NEW part \in {"current", "recent"},
         ReadPart(s, part)
  PROVE  ProjectsInv'
<1> DEFINE was == pageCalls[s]
           answer == [current |-> IF part = "current" THEN registry.current
                                  ELSE IF was.answer = None THEN None
                                       ELSE was.answer.current,
                      recent |-> IF part = "recent" THEN registry.recent
                                 ELSE IF was.answer = None THEN {}
                                      ELSE was.answer.recent]
           read == was.read \cup {part}
           call == [was EXCEPT !.read = read, !.answer = answer]
<1>1. CallOK(was) /\ was \in InFlight /\ was.action = "refresh"
  BY CurrentPage DEF CallsOK, CallOK, ReadPart
<1>2. registry \in Registry /\ was.answer \in Optional(Registry)
  BY <1>1 DEF ProjectsInv, CallOK
<1>3. answer \in Registry
  <2> HIDE DEF was
  <2> QED BY <1>2 DEF Registry, Optional
<1>4. read \in SUBSET {"current", "recent"}
  BY <1>1 DEF InFlight
<1>5. /\ pageCalls' = [pageCalls EXCEPT ![s] = call]
      /\ UNCHANGED <<panel, registry>>
  <2>1. pageCalls' = [pageCalls EXCEPT ![s].read = read, ![s].answer = answer]
    BY <1>1 DEF ReadPart, InFlight
  <2> HIDE DEF read, answer
  <2> QED BY <2>1, CurrentPage DEF ReadPart, CallsOK
<1> HIDE DEF was, answer, read
<1>6. CallOK(call) /\ call.action = was.action
  <2>1. call \in InFlight /\ call.action = "refresh" /\ call.answer = answer
    BY <1>1, <1>3, <1>4 DEF InFlight, Optional
  <2> HIDE DEF call
  <2> QED BY <1>1, <1>3, <2>1 DEF CallOK, Guarding, GitActionNames, Optional
<1> HIDE DEF call
<1> QED BY <1>2, <1>5, <1>6, AnsweredKeeps DEF was

LEMMA ServeKeeps ==
  ASSUME ProjectsInv, NEW s \in PageCalls, Serve(s)
  PROVE  ProjectsInv'
<1> DEFINE was == pageCalls[s]
<1>1. CallOK(was) /\ was \in InFlight /\ was.action \notin {"refresh", "none"}
  BY CurrentPage DEF CallsOK, CallOK, Serve
<1>2. registry \in Registry
  BY DEF ProjectsInv
<1>3. PICK value \in Answers(was) : pageCalls' = [pageCalls EXCEPT ![s].answer = value]
  BY DEF Serve
<1>4. /\ value \in Projects \cup {"cancelled", "idle", "busy", "done"}
      /\ was.action = "choose" => value \in Projects \cup {"cancelled"}
      /\ was.action \in GitActionNames \cup {"status"} => value \in Projects
  BY <1>2, <1>3 DEF Answers, Registry, GitActionNames, Optional
<1>5. Changes(was) \in Registry
  BY <1>1, <1>2 DEF Changes, Registry, CallOK, Targets, Optional
<1> DEFINE call == [was EXCEPT !.answer = value]
<1>6. pageCalls' = [pageCalls EXCEPT ![s] = call]
  BY <1>3
<1> HIDE DEF was
<1>7. CallOK(call) /\ call.action = was.action
  <2>1. call \in InFlight /\ call.action = was.action /\ call.answer = value
        /\ call.target = was.target
    BY <1>1, <1>4 DEF InFlight, Optional
  <2> HIDE DEF call
  <2> QED BY <1>1, <1>4, <2>1 DEF CallOK, Optional
<1> HIDE DEF call
<1> QED BY <1>5, <1>6, <1>7, AnsweredKeeps DEF Serve, was

-----------------------------------------------------------------------------
(* Answers                                                                 *)

LEMMA DrawKeepsBody ==
  ASSUME NEW p \in Panel, NEW whose \in Optional(Projects), NEW card, NEW zone \in Zone
  PROVE  SameBody(p, Draw([p EXCEPT !.gitStatus = whose], card, zone))
<1> DEFINE q == [p EXCEPT !.gitStatus = whose]
<1>1. SameBody(p, q)
  BY DEF SameBody, Panel
<1> HIDE DEF q
<1>2. SameBody(q, [q EXCEPT !.zone = zone])
  BY <1>1, ZoneIsDrawn DEF SameBody
<1> QED BY <1>1, <1>2 DEF Draw, SameBody, q

LEMMA GitAnsweredKeepsBody ==
  ASSUME ProjectsInv, NEW c, CallOK(c), c.action \in GitActionNames,
         NEW ok \in BOOLEAN, NEW pull \in BOOLEAN
  PROVE  SameBody(panel, GitAnswered(c, ok, pull))
<1> DEFINE whose == IF ok THEN c.answer ELSE IF c.action = "commit" THEN c.status
                     ELSE panel.gitStatus
           base == ZoneOf("status", whose)
           zone == IF whose = None THEN ZoneOf("failed", None)
                   ELSE IF ~ok /\ c.action = "commit" THEN ZoneOf("commit", whose)
                   ELSE [base EXCEPT !.pull = ok /\ c.action = "fetch" /\ pull]
<1>1. whose \in Optional(Projects)
  BY StatusOfZone DEF CallOK, InFlight
<1>2. GitAnswered(c, ok, pull) =
        Draw([panel EXCEPT !.gitStatus = whose], c.card, zone)
  BY DEF GitAnswered
<1> HIDE DEF whose
<1>3. zone \in Zone
  <2>1. base \in Zone
    BY <1>1, ZoneOfIsZone
  <2> HIDE DEF base
  <2>2. ASSUME NEW offered \in BOOLEAN PROVE [base EXCEPT !.pull = offered] \in Zone
    BY <2>1 DEF Zone
  <2>3. (ok /\ c.action = "fetch" /\ pull) \in BOOLEAN
    OBVIOUS
  <2>4. ZoneOf("failed", None) \in Zone /\ ZoneOf("commit", whose) \in Zone
    BY <1>1, ZoneOfIsZone DEF Optional
  <2> QED BY <2>2, <2>3, <2>4
<1> HIDE DEF zone
<1> QED BY <1>1, <1>2, <1>3, CurrentPage, DrawKeepsBody

LEMMA StatusAnsweredKeepsBody ==
  ASSUME ProjectsInv, NEW c, CallOK(c), c.action = "status", NEW ok \in BOOLEAN
  PROVE  SameBody(panel, StatusAnswered(c, ok))
<1> DEFINE whose == IF ok THEN c.answer ELSE None
           zone == IF ok THEN ZoneOf("status", c.answer) ELSE ZoneOf("failed", None)
<1>1. whose \in Optional(Projects) /\ zone \in Zone
  BY ZoneOfIsZone DEF CallOK, Optional
<1>2. StatusAnswered(c, ok) \in
        {panel, Draw([panel EXCEPT !.gitStatus = whose], c.card, zone)}
  BY DEF StatusAnswered
<1> HIDE DEF whose, zone
<1> QED BY <1>1, <1>2, CurrentPage, DrawKeepsBody DEF SameBody

(* What the handler of one answer makes of the panel and of the calls.     *)
LEMMA HandledKeeps ==
  ASSUME ProjectsInv, NEW s \in PageCalls, NEW ok \in BOOLEAN, NEW pull \in BOOLEAN,
         Arrived(s, ok), Handled(s, ok, pull)
  PROVE  PageOK(panel', pageCalls')
<1> DEFINE c == pageCalls[s]
           cs == [pageCalls EXCEPT ![s] = NoPageCall]
           freed == Freed(panel)
<1>1. CallOK(c) /\ c.action \in PageActions \ {"none"}
  <2>1. CallOK(c) /\ c.action \in PageActions
    BY CurrentPage DEF CallsOK, CallOK, InFlight
  <2>2. NoPageCall.answer = None
    BY DEF NoPageCall
  <2>3. c # NoPageCall
    BY <2>2 DEF Arrived
  <2> QED BY <2>1, <2>3 DEF CallOK
<1>2. /\ CallsOK(cs) /\ s \in FreeSlots(cs)
      /\ \A acts : InFlightOf(pageCalls, acts) /\ c.action \notin acts =>
           InFlightOf(cs, acts)
  <2>1. cs = [q \in PageCalls |-> IF q = s THEN NoPageCall ELSE pageCalls[q]]
    BY CurrentPage DEF CallsOK
  <2> QED BY <2>1, NoPageCallOK, CurrentPage DEF CallsOK, FreeSlots, InFlightOf
<1>3. freed \in Panel /\ ~freed.busy
  BY CurrentPage, FreedFields
<1>4. panel \in Panel /\ PageOK(panel, pageCalls)
  BY CurrentPage
<1> HIDE DEF cs, freed
<1>5. CASE c.action \in GitActionNames \cup {"status"}
  <2>1. pageCalls' = cs /\ SameBody(panel, panel')
    <3>1. CASE c.action \in GitActionNames
      BY <1>1, <3>1, GitAnsweredKeepsBody DEF Handled, GitActionNames, Guarding, cs
    <3>2. CASE c.action = "status"
      BY <1>1, <3>2, StatusAnsweredKeepsBody DEF Handled, GitActionNames, Guarding, cs
    <3> QED BY <1>5, <3>1, <3>2
  <2>2. PageOK(panel, cs)
    BY <1>2, <1>4, <1>5 DEF PageOK, FlagOK, Guarding, GitActionNames
  <2> QED BY <2>1, <2>2, SameBodyKeeps
<1>6. CASE c.action = "restart"
  <2> DEFINE kind == IF ok THEN "leaving" ELSE "message"
  <2>1. panel' = Screen(panel, kind, None) /\ pageCalls' = cs
    BY <1>6 DEF Handled, GitActionNames, Guarding, cs
  <2>2. panel.busy => InFlightOf(cs, Guarding)
    BY <1>2, <1>6, CurrentPage DEF Guarding
  <2>3. kind \in {"leaving", "message"}
    OBVIOUS
  <2> HIDE DEF kind
  <2> QED BY <1>2, <1>4, <2>1, <2>2, <2>3, ScreenKeeps DEF Screens, Optional
<1>7. CASE c.action \in Guarding /\ ~ok
  <2>1. panel' = Screen(freed, "message", None) /\ pageCalls' = cs
    BY <1>7 DEF Handled, GitActionNames, Guarding, cs, freed, FailureShown
  <2> QED BY <1>2, <1>3, <2>1, ScreenKeeps DEF Screens, Optional
<1>8. CASE c.action = "refresh" /\ ok
  <2>1. RenderAll(freed, cs, c.answer)
    BY <1>8 DEF Handled, GitActionNames, Guarding, cs, freed
  <2>2. c.answer \in Registry /\ c.answer # None
    BY <1>1, <1>8 DEF CallOK, Arrived, Optional
  <2> QED BY <1>2, <1>3, <2>1, <2>2, RenderAllKeeps
<1>9. CASE c.action \in {"capability", "forget"} /\ ok
  <2> DEFINE p == [freed EXCEPT !.data = None]
  <2>1. RefreshPage(p, cs)
    BY <1>9 DEF Handled, GitActionNames, Guarding, cs, freed
  <2>2. p \in Panel /\ ~p.busy
    BY <1>3 DEF Panel, Optional
  <2> HIDE DEF p
  <2> QED BY <1>2, <2>1, <2>2, RefreshPageKeeps
<1>10. CASE c.action = "choose" /\ ok
  <2>1. CASE c.answer = "cancelled"
    <3>1. panel' = Screen(freed, "message", None) /\ pageCalls' = cs
      BY <1>10, <2>1 DEF Handled, GitActionNames, Guarding, cs, freed
    <3> QED BY <1>2, <1>3, <3>1, ScreenKeeps DEF Screens, Optional
  <2>2. CASE c.answer # "cancelled"
    <3>1. OpenTarget(freed, cs, [project |-> c.answer, named |-> FALSE])
      BY <1>10, <2>2 DEF Handled, GitActionNames, Guarding, cs, freed
    <3>2. [project |-> c.answer, named |-> FALSE] \in Targets
      BY <1>1, <1>10, <2>2 DEF CallOK, Arrived, Optional, Targets
    <3> QED BY <1>2, <1>3, <3>1, <3>2, OpenTargetKeeps
  <2> QED BY <2>1, <2>2
<1>11. CASE c.action = "operations" /\ ok
  <2>1. /\ panel' = IF c.answer = "busy" THEN RenderBlocked(freed, c.target)
                    ELSE RenderConfirm(freed, c.target)
        /\ pageCalls' = cs
    BY <1>11 DEF Handled, GitActionNames, Guarding, cs, freed
  <2>2. c.target \in Targets
    BY <1>1, <1>11 DEF CallOK
  <2>3. panel' \in {Screen(freed, "blocked", c.target), Screen(freed, "message", None),
                    Screen(freed, "confirm", c.target)}
    BY <2>1 DEF RenderBlocked, RenderConfirm
  <2> QED BY <1>2, <1>3, <2>1, <2>2, <2>3, ScreenKeeps DEF Screens, Optional
<1>12. CASE c.action = "create" /\ ok
  <2> DEFINE call == PageCall("open", c.target)
  <2>1. panel' = panel /\ pageCalls' = Send(cs, call)
    BY <1>12 DEF Handled, GitActionNames, Guarding, cs
  <2>2. CallOK(call) /\ call.action = "open"
    BY <1>1, <1>12, CallIsOK DEF CallOK, PageActions, Guarding, Optional
  <2> HIDE DEF call
  <2>3. /\ CallsOK(pageCalls') /\ InFlightOf(pageCalls', Guarding)
        /\ InFlightOf(pageCalls', Guarding \cup {"restart"})
    BY <1>2, <2>1, <2>2, SentIsInFlight DEF Guarding
  <2> QED BY <1>4, <2>1, <2>3 DEF PageOK, FlagOK
<1>13. CASE c.action = "open" /\ ok
  <2> DEFINE p == [freed EXCEPT !.data = None]
             target == [c.target EXCEPT !.named = TRUE]
  <2>1. panel' = Screen(p, "switched", target) /\ pageCalls' = cs
    BY <1>13 DEF Handled, GitActionNames, Guarding, RenderAfterSwitch, cs, freed
  <2>2. p \in Panel /\ ~p.busy
    BY <1>3 DEF Panel, Optional
  <2>3. target \in Targets
    BY <1>1, <1>13 DEF CallOK, Targets
  <2> HIDE DEF p, target
  <2> QED BY <1>2, <2>1, <2>2, <2>3, ScreenKeeps DEF Screens, Optional
<1> QED BY <1>1, <1>5, <1>6, <1>7, <1>8, <1>9, <1>10, <1>11, <1>12, <1>13
        DEF PageActions, Guarding

LEMMA DeliverKeeps ==
  ASSUME ProjectsInv, NEW s \in PageCalls, Deliver(s)
  PROVE  ProjectsInv'
BY HandledKeeps DEF Deliver, ProjectsInv

-----------------------------------------------------------------------------
(* The page is loaded                                                      *)

LEMMA LoadedPage ==
  LET none == [s \in PageCalls |-> NoPageCall]
  IN PageOK(NoPanel, none)
<1>1. NoZone \in Zone
  BY DEF NoZone, Zone, Optional
<1> HIDE DEF NoZone
<1>2. NoPanel \in Panel /\ NoPanel.screen = "none" /\ ~NoPanel.busy
  BY <1>1, ProjectsPageAssumption DEF NoPanel, Panel, Screens, Optional
<1>3. CallsOK([s \in PageCalls |-> NoPageCall])
  BY NoPageCallOK DEF CallsOK
<1> HIDE DEF NoPanel
<1> QED BY <1>2, <1>3 DEF PageOK, PanelFits, FlagOK

(* The invariant of the page of the projects holds at first and is kept by *)
(* every step.                                                             *)
LEMMA ProjectsInitInv == ProjectsInit => ProjectsInv
<1> SUFFICES ASSUME ProjectsInit PROVE ProjectsInv
  OBVIOUS
<1>1. registry \in Registry
  BY ProjectsPageAssumption DEF ProjectsInit, Registry, Optional
<1> QED BY <1>1, LoadedPage DEF ProjectsInit, ProjectsInv

LEMMA ProjectsNextInv == ProjectsInv /\ [ProjectsNext]_projectsPageVars => ProjectsInv'
<1> SUFFICES ASSUME ProjectsInv, [ProjectsNext]_projectsPageVars PROVE ProjectsInv'
  OBVIOUS
<1>1. CASE OpenProjects \/ CloseProjects
  BY <1>1, OpenProjectsKeeps, CloseProjectsKeeps
<1>2. CASE ReloadProjects
  BY <1>2, LoadedPage DEF ReloadProjects, ProjectsInv
<1>3. CASE ClickRefresh \/ ClickPicker \/ ClickTarget \/ ApplySwitch
  BY <1>3, ClickRefreshKeeps, ClickPickerKeeps, ClickTargetKeeps, ApplySwitchKeeps
<1>4. CASE OpenCapabilityConfirm \/ ApplyCapability
  BY <1>4, CapabilityConfirmKeeps, ApplyCapabilityKeeps
<1>5. CASE ConfirmForget \/ RunForget \/ RunRestart
  BY <1>5, ConfirmForgetKeeps, RunForgetKeeps, RunRestartKeeps
<1>6. CASE \E kind \in {"commit", "push"} : OpenGitView(kind)
  BY <1>6, OpenGitViewKeeps
<1>7. CASE LeaveGitView
  BY <1>7, LeaveGitViewKeeps
<1>8. CASE \E action \in GitActionNames : RunGit(action)
  BY <1>8, RunGitKeeps
<1>9. CASE \E s \in PageCalls : \E part \in {"current", "recent"} : ReadPart(s, part)
  BY <1>9, ReadPartKeeps
<1>10. CASE \E s \in PageCalls : Serve(s) \/ Deliver(s)
  BY <1>10, ServeKeeps, DeliverKeeps
<1>11. CASE UNCHANGED projectsPageVars
  BY <1>11 DEF projectsPageVars, ProjectsInv
<1> QED BY <1>1, <1>2, <1>3, <1>4, <1>5, <1>6, <1>7, <1>8, <1>9, <1>10, <1>11
        DEF ProjectsNext

(* The page of the projects keeps its invariant.                           *)
THEOREM ProjectsInvariance == ProjectsSpec => []ProjectsInv
BY ProjectsInitInv, ProjectsNextInv, PTL DEF ProjectsSpec

(* Every reachable state of the page of the projects is well typed,        *)
(* whatever its handlers find when they redraw it (projects-               *)
(* console/ui.js).                                                         *)
THEOREM ProjectsTypeCorrectness == ProjectsSpec => []ProjectsTypeOK
<1>1. ProjectsInv => ProjectsTypeOK
  BY DEF ProjectsInv, PageOK, CallsOK, CallOK, InFlight, Panel, Registry, Zone,
     ProjectsTypeOK
<1> QED BY <1>1, ProjectsInvariance, PTL

(* The page of the projects is never busy, nor its body without a button,  *)
(* but for a call in flight whose answer ends that (projects-              *)
(* console/ui.js).                                                         *)
THEOREM ProjectsPageAnswers == ProjectsSpec => []ProjectsAnswer
<1>1. ProjectsInv => ProjectsAnswer
  BY DEF ProjectsInv, PageOK, FlagOK, InFlightOf, ProjectsAnswer
<1> QED BY <1>1, ProjectsInvariance, PTL

-----------------------------------------------------------------------------
(* The page of the memory and of its backups                               *)

Detail == [id : Memories, shown : {"loading", "unread", "detail"}]
Sheet ==
  [shown : BOOLEAN, body : Bodies, foot : BOOLEAN, typed : BOOLEAN,
   page : 1..Pages + 1, items : Seq(1..Pages), loaded : BOOLEAN,
   noProject : BOOLEAN, detail : Optional(Detail), known : BOOLEAN,
   inspection : Optional({"sound", "refused"})]

Posted ==
  [action : SheetActions \cup {"none"}, id : Optional(Memories),
   page : 0..Pages + 1, append : BOOLEAN]

PostedOK(c) ==
  /\ c \in Posted
  /\ c.action = "none" => c = NoSheetCall
  /\ c.action = "page" => c.page \in 1..Pages + 1
  /\ c.action = "read" => c.id \in Memories

PostsOK(cs) ==
  /\ cs = [s \in SheetCalls |-> cs[s]]
  /\ \A s \in SheetCalls : PostedOK(cs[s])

(* A call of one of these actions is in flight, or about to be.            *)
Awaited(cs, also, acts) ==
  also \cap acts # {} \/ \E s \in SheetCalls : cs[s].action \in acts

(* The first status was read before anything else of the backups is asked  *)
(* for, and a memory shown as loading is being read.                       *)
BackupActions == {"create", "restore", "choose", "file", "upload", "inspect"}
RestFits(p, cs, also) ==
  /\ Awaited(cs, also, BackupActions) => p.known
  /\ p.detail # None =>
       (p.detail.shown = "loading" => Awaited(cs, also, {"read"}))

BodyFits(p, cs, also) ==
  /\ p.body \in {"backup", "inspection", "broken", "busy"} => p.known
  /\ p.body = "loading" => Awaited(cs, also, {"read"})
  /\ p.body = "reading" => Awaited(cs, also, {"status"})
  /\ p.body = "busy" => Awaited(cs, also, {"create", "restore", "status"})

(* A call that fails without a word, the chooser's, never holds the line.  *)
FootFits(p, cs, also) == p.foot => Awaited(cs, also, SheetActions \ {"choose"})

Fits(p, cs, also) ==
  /\ p \in Sheet /\ RestFits(p, cs, also) /\ BodyFits(p, cs, also)
  /\ FootFits(p, cs, also)

SheetInv ==
  /\ PostsOK(sheetCalls) /\ Fits(sheet, sheetCalls, {})
  /\ projectless \in BOOLEAN /\ (sheet.noProject => projectless)

-----------------------------------------------------------------------------
LEMMA NoSheetCallOK == PostedOK(NoSheetCall) /\ NoSheetCall.action = "none"
BY MemoryPageAssumption DEF PostedOK, NoSheetCall, Posted, Optional

LEMMA SheetCallOK ==
  ASSUME NEW action \in SheetActions \ {"page"}, NEW id \in Optional(Memories),
         action = "read" => id \in Memories
  PROVE  PostedOK(SheetCall(action, id)) /\ SheetCall(action, id).action = action
<1>1. NoSheetCall \in Posted
  BY NoSheetCallOK DEF PostedOK
<1> HIDE DEF NoSheetCall
<1>2. /\ SheetCall(action, id) \in Posted /\ SheetCall(action, id).action = action
      /\ SheetCall(action, id).id = id
  BY <1>1 DEF SheetCall, Posted
<1> HIDE DEF SheetCall
<1> QED BY <1>2 DEF PostedOK, SheetActions

LEMMA PageCallOK ==
  ASSUME NEW page \in 1..Pages + 1, NEW append \in BOOLEAN
  PROVE  LET call == [SheetCall("page", None) EXCEPT !.page = page, !.append = append]
         IN PostedOK(call) /\ call.action = "page"
<1> DEFINE base == SheetCall("page", None)
           call == [base EXCEPT !.page = page, !.append = append]
<1>1. NoSheetCall \in Posted
  BY NoSheetCallOK DEF PostedOK
<1> HIDE DEF NoSheetCall
<1>2. base \in Posted /\ base.action = "page"
  BY <1>1 DEF SheetCall, Posted, SheetActions, Optional
<1>3. page \in 0..Pages + 1
  BY MemoryPageAssumption
<1> HIDE DEF base
<1>4. call \in Posted /\ call.action = "page" /\ call.page = page
  BY <1>2, <1>3 DEF Posted
<1> HIDE DEF call
<1>5. PostedOK(call) /\ call.action = "page"
  BY <1>4 DEF PostedOK
<1> QED BY <1>5 DEF call, base

(* A call is posted in an idle slot: what was in flight stays so.          *)
LEMMA PostIsInFlight ==
  ASSUME NEW cs, PostsOK(cs), CanPost(cs), NEW c, PostedOK(c), c.action # "none",
         NEW p, Fits(p, cs, {c.action})
  PROVE  PostsOK(Post(cs, c)) /\ Fits(p, Post(cs, c), {})
<1> DEFINE slot == CHOOSE s \in IdleSlots(cs) : TRUE
<1>1. slot \in SheetCalls /\ cs[slot] = NoSheetCall
  BY DEF CanPost, IdleSlots
<1>2. Post(cs, c) = [cs EXCEPT ![slot] = c]
  BY DEF Post
<1> HIDE DEF slot
<1>3. Post(cs, c) = [s \in SheetCalls |-> IF s = slot THEN c ELSE cs[s]]
  BY <1>1, <1>2 DEF PostsOK
<1>4. PostsOK(Post(cs, c))
  BY <1>3 DEF PostsOK
<1>5. ASSUME NEW acts, "none" \notin acts
      PROVE  Awaited(cs, {c.action}, acts) <=> Awaited(Post(cs, c), {}, acts)
  BY <1>1, <1>3, <1>5, NoSheetCallOK DEF Awaited
<1> QED BY <1>4, <1>5 DEF Fits, RestFits, BodyFits, FootFits, BackupActions, SheetActions

(* The slot of a call that is answered is idle, and what the page showed   *)
(* was right as long as the call was counted.                              *)
LEMMA TakenIsIdle ==
  ASSUME SheetInv, NEW s \in SheetCalls
  PROVE  LET cs == [sheetCalls EXCEPT ![s] = NoSheetCall]
         IN /\ PostsOK(cs) /\ CanPost(cs) /\ Fits(sheet, cs, {sheetCalls[s].action})
<1> DEFINE cs == [sheetCalls EXCEPT ![s] = NoSheetCall]
<1>1. cs = [q \in SheetCalls |-> IF q = s THEN NoSheetCall ELSE sheetCalls[q]]
  BY DEF SheetInv, PostsOK
<1>2. PostsOK(cs) /\ CanPost(cs)
  BY <1>1, NoSheetCallOK DEF SheetInv, PostsOK, CanPost, IdleSlots
<1>3. ASSUME NEW acts, "none" \notin acts
      PROVE  Awaited(sheetCalls, {}, acts)
               <=> Awaited(cs, {sheetCalls[s].action}, acts)
  BY <1>1, <1>3, NoSheetCallOK DEF Awaited
<1> QED BY <1>2, <1>3 DEF SheetInv, Fits, RestFits, BodyFits, FootFits, BackupActions,
        SheetActions

-----------------------------------------------------------------------------
(* What the sections draw                                                  *)

LEMMA RenderMemoryFits ==
  ASSUME NEW p \in Sheet, NEW cs, NEW also, RestFits(p, cs, also)
  PROVE  /\ Fits(RenderMemory(p), cs, also)
         /\ RenderMemory(p).noProject = p.noProject
         /\ RenderMemory(p).page = p.page
<1> DEFINE body == IF p.detail # None THEN p.detail.shown
                   ELSE IF p.noProject THEN "empty" ELSE "list"
           q == [p EXCEPT !.foot = FALSE, !.body = body]
<1>1. /\ body \in {"loading", "unread", "detail", "empty", "list"}
      /\ body = "loading" => p.detail # None /\ p.detail.shown = "loading"
  BY DEF Sheet, Optional, Detail
<1> HIDE DEF body
<1>2. /\ q \in Sheet /\ q.body = body /\ ~q.foot /\ q.detail = p.detail
      /\ q.known = p.known /\ q.noProject = p.noProject /\ q.page = p.page
  BY <1>1 DEF Sheet, Bodies
<1>3. RenderMemory(p) = q
  BY DEF RenderMemory, q, body
<1> HIDE DEF q
<1> QED BY <1>1, <1>2, <1>3 DEF Fits, RestFits, BodyFits, FootFits

LEMMA RenderBackupFits ==
  ASSUME NEW p \in Sheet, NEW cs, NEW also, RestFits(p, cs, also),
         ~p.known => Awaited(cs, also, {"status"})
  PROVE  /\ Fits(RenderBackup(p), cs, also)
         /\ RenderBackup(p).noProject = p.noProject
<1> DEFINE body == IF ~p.known THEN "reading"
                   ELSE IF p.inspection = None THEN "backup"
                   ELSE InspectionBody(p.inspection)
           q == [p EXCEPT !.foot = FALSE, !.body = body]
<1>1. /\ body \in {"reading", "backup", "inspection", "broken"}
      /\ body = "reading" <=> ~p.known
  BY DEF InspectionBody
<1> HIDE DEF body
<1>2. /\ q \in Sheet /\ q.body = body /\ ~q.foot /\ q.detail = p.detail
      /\ q.known = p.known /\ q.noProject = p.noProject
  BY <1>1 DEF Sheet, Bodies
<1>3. RenderBackup(p) = q
  BY DEF RenderBackup, q, body
<1> HIDE DEF q
<1> QED BY <1>1, <1>2, <1>3 DEF Fits, RestFits, BodyFits, FootFits

LEMMA CurrentSheet ==
  ASSUME SheetInv
  PROVE  /\ sheet \in Sheet /\ PostsOK(sheetCalls) /\ Fits(sheet, sheetCalls, {})
         /\ RestFits(sheet, sheetCalls, {})
BY DEF SheetInv, Fits

LEMMA MoreIsAwaited ==
  ASSUME NEW cs, NEW action, NEW p \in Sheet, RestFits(p, cs, {}),
         action \notin BackupActions
  PROVE  RestFits(p, cs, {action})
BY DEF RestFits, Awaited

LEMMA LoadMemoryKeeps ==
  ASSUME NEW p \in Sheet, NEW cs, PostsOK(cs), RestFits(p, cs, {"page"}),
         BodyFits(p, cs, {"page"}), NEW append \in BOOLEAN, LoadMemory(p, cs, append),
         p.noProject => projectless, projectless \in BOOLEAN,
         projectless' = projectless
  PROVE  SheetInv'
<1> DEFINE call == [SheetCall("page", None) EXCEPT !.page = p.page, !.append = append]
           q == [p EXCEPT !.foot = TRUE]
<1>1. CanPost(cs) /\ sheet' = q /\ sheetCalls' = Post(cs, call)
  BY DEF LoadMemory
<1>2. PostedOK(call) /\ call.action = "page"
  BY PageCallOK DEF Sheet
<1> HIDE DEF call
<1>3. /\ q \in Sheet /\ q.body = p.body /\ q.detail = p.detail /\ q.known = p.known
      /\ q.noProject = p.noProject
  BY DEF Sheet
<1> HIDE DEF q
<1>4. Fits(q, cs, {call.action})
  BY <1>2, <1>3 DEF Fits, RestFits, BodyFits, FootFits, Awaited, SheetActions
<1> QED BY <1>1, <1>2, <1>3, <1>4, PostIsInFlight DEF SheetInv

(* A click that asks for something else, over a body that fits.            *)
LEMMA PostKeeps ==
  ASSUME NEW cs, PostsOK(cs), CanPost(cs), NEW action \in SheetActions \ {"page"},
         NEW id \in Optional(Memories), action = "read" => id \in Memories,
         Fits(sheet', cs, {action}), sheetCalls' = Post(cs, SheetCall(action, id)),
         sheet'.noProject => projectless, projectless \in BOOLEAN,
         projectless' = projectless
  PROVE  SheetInv'
<1> DEFINE call == SheetCall(action, id)
<1>1. PostedOK(call) /\ call.action = action
  BY SheetCallOK
<1> HIDE DEF call
<1>2. call.action # "none"
  BY <1>1 DEF SheetActions
<1>3. PostsOK(sheetCalls') /\ Fits(sheet', Post(cs, call), {})
  BY <1>1, <1>2, PostIsInFlight DEF call
<1> QED BY <1>3 DEF SheetInv, call

-----------------------------------------------------------------------------
(* Clicks in the memory                                                    *)

(* A click that draws the body anew and asks for nothing.                  *)
LEMMA DrawnKeeps ==
  ASSUME SheetInv, Fits(sheet', sheetCalls, {}), sheet'.noProject => projectless,
         UNCHANGED <<sheetCalls, projectless>>
  PROVE  SheetInv'
BY DEF SheetInv

LEMMA OpenMemoryKeeps == SheetInv /\ OpenMemory => SheetInv'
<1> SUFFICES ASSUME SheetInv, OpenMemory PROVE SheetInv'
  OBVIOUS
<1> DEFINE p == [sheet EXCEPT !.shown = TRUE, !.detail = None, !.page = 1]
           q == RenderMemory(p)
<1>1. LoadMemory(q, sheetCalls, FALSE) /\ projectless' = projectless
  BY DEF OpenMemory
<1>2. 1 \in 1..Pages + 1
  BY MemoryPageAssumption
<1>3. /\ p \in Sheet /\ p.known = sheet.known /\ p.detail = None
      /\ p.noProject = sheet.noProject
  BY <1>2, CurrentSheet DEF Sheet, Optional
<1> HIDE DEF p
<1>4. RestFits(p, sheetCalls, {"page"})
  BY <1>3, CurrentSheet DEF RestFits, Awaited, BackupActions
<1>5. Fits(q, sheetCalls, {"page"}) /\ q.noProject = p.noProject
  BY <1>3, <1>4, RenderMemoryFits
<1> HIDE DEF q
<1> QED BY <1>1, <1>3, <1>5, CurrentSheet, LoadMemoryKeeps DEF SheetInv, Fits

LEMMA CloseMemoryKeeps == SheetInv /\ CloseMemory => SheetInv'
<1> SUFFICES ASSUME SheetInv, CloseMemory PROVE SheetInv'
  OBVIOUS
<1> DEFINE p == [sheet EXCEPT !.shown = FALSE]
<1>1. /\ p \in Sheet /\ p.known = sheet.known /\ p.detail = sheet.detail
      /\ p.noProject = sheet.noProject /\ p.body = sheet.body /\ p.foot = sheet.foot
  BY CurrentSheet DEF Sheet
<1>2. sheet' = p /\ UNCHANGED <<sheetCalls, projectless>>
  BY DEF CloseMemory
<1> HIDE DEF p
<1>3. Fits(p, sheetCalls, {})
  BY <1>1, CurrentSheet DEF Fits, RestFits, BodyFits, FootFits
<1> QED BY <1>1, <1>2, <1>3, DrawnKeeps DEF SheetInv

LEMMA TypeSearchKeeps == SheetInv /\ TypeSearch => SheetInv'
<1> SUFFICES ASSUME SheetInv, TypeSearch PROVE SheetInv'
  OBVIOUS
<1> DEFINE p == [sheet EXCEPT !.typed = TRUE]
<1>1. /\ p \in Sheet /\ p.known = sheet.known /\ p.detail = sheet.detail
      /\ p.noProject = sheet.noProject /\ p.body = sheet.body /\ p.foot = sheet.foot
  BY CurrentSheet DEF Sheet
<1>2. sheet' = p /\ UNCHANGED <<sheetCalls, projectless>>
  BY DEF TypeSearch
<1> HIDE DEF p
<1>3. Fits(p, sheetCalls, {})
  BY <1>1, CurrentSheet DEF Fits, RestFits, BodyFits, FootFits
<1> QED BY <1>1, <1>2, <1>3, DrawnKeeps DEF SheetInv

(* The list is asked for again, with another page or the same.             *)
LEMMA ListKeeps ==
  ASSUME SheetInv, NEW p \in Sheet, p.known = sheet.known, p.detail = sheet.detail,
         p.noProject = sheet.noProject, p.body = sheet.body, NEW append \in BOOLEAN,
         LoadMemory(p, sheetCalls, append), projectless' = projectless
  PROVE  SheetInv'
<1>1. RestFits(p, sheetCalls, {"page"}) /\ BodyFits(p, sheetCalls, {"page"})
  BY CurrentSheet DEF Fits, RestFits, BodyFits, Awaited, BackupActions
<1> QED BY <1>1, CurrentSheet, LoadMemoryKeeps DEF SheetInv

LEMMA StartSearchKeeps == SheetInv /\ StartSearch => SheetInv'
<1> SUFFICES ASSUME SheetInv, StartSearch PROVE SheetInv'
  OBVIOUS
<1> DEFINE p == [sheet EXCEPT !.typed = FALSE, !.page = 1]
<1>1. LoadMemory(p, sheetCalls, FALSE) /\ projectless' = projectless
  BY DEF StartSearch
<1>2. 1 \in 1..Pages + 1
  BY MemoryPageAssumption
<1>3. /\ p \in Sheet /\ p.known = sheet.known /\ p.detail = sheet.detail
      /\ p.noProject = sheet.noProject /\ p.body = sheet.body
  BY <1>2, CurrentSheet DEF Sheet
<1> HIDE DEF p
<1> QED BY <1>1, <1>3, ListKeeps

LEMMA ReloadListKeeps == SheetInv /\ ReloadList => SheetInv'
BY CurrentSheet, ListKeeps DEF ReloadList

LEMMA ShowMoreKeeps == SheetInv /\ ShowMore => SheetInv'
<1> SUFFICES ASSUME SheetInv, ShowMore PROVE SheetInv'
  OBVIOUS
<1> DEFINE page == sheet.page + 1
           p == [sheet EXCEPT !.page = page]
<1>1. sheet.page <= Pages /\ sheet.page \in 1..Pages + 1
  BY CurrentSheet DEF ShowMore, Sheet
<1>2. page \in 1..Pages + 1
  BY <1>1, MemoryPageAssumption
<1>3. LoadMemory(p, sheetCalls, TRUE) /\ projectless' = projectless
  BY DEF ShowMore
<1> HIDE DEF page
<1>4. /\ p \in Sheet /\ p.known = sheet.known /\ p.detail = sheet.detail
      /\ p.noProject = sheet.noProject /\ p.body = sheet.body
  BY <1>2, CurrentSheet DEF Sheet
<1> HIDE DEF p
<1> QED BY <1>3, <1>4, ListKeeps

LEMMA OpenMemoryItemKeeps ==
  ASSUME SheetInv, NEW id \in Memories, OpenMemoryItem(id)
  PROVE  SheetInv'
<1> DEFINE p == [sheet EXCEPT !.detail = [id |-> id, shown |-> "loading"]]
<1>1. /\ CanPost(sheetCalls) /\ sheet' = RenderMemory(p)
      /\ sheetCalls' = Post(sheetCalls, SheetCall("read", id))
      /\ projectless' = projectless
  BY DEF OpenMemoryItem
<1>2. /\ p \in Sheet /\ p.known = sheet.known /\ p.noProject = sheet.noProject
  BY CurrentSheet DEF Sheet, Detail, Optional
<1> HIDE DEF p
<1>3. RestFits(p, sheetCalls, {"read"})
  BY <1>2, CurrentSheet DEF RestFits, Awaited, BackupActions
<1>4. Fits(sheet', sheetCalls, {"read"}) /\ sheet'.noProject = sheet.noProject
  BY <1>1, <1>2, <1>3, RenderMemoryFits
<1> QED BY <1>1, <1>4, CurrentSheet, PostKeeps DEF SheetInv, SheetActions, Optional

LEMMA BackToListKeeps == SheetInv /\ BackToList => SheetInv'
<1> SUFFICES ASSUME SheetInv, BackToList PROVE SheetInv'
  OBVIOUS
<1> DEFINE p == [sheet EXCEPT !.detail = None]
<1>1. sheet' = RenderMemory(p) /\ UNCHANGED <<sheetCalls, projectless>>
  BY DEF BackToList
<1>2. /\ p \in Sheet /\ p.known = sheet.known /\ p.noProject = sheet.noProject
      /\ p.detail = None
  BY CurrentSheet DEF Sheet, Optional
<1> HIDE DEF p
<1>3. RestFits(p, sheetCalls, {})
  BY <1>2, CurrentSheet DEF RestFits
<1> QED BY <1>1, <1>2, <1>3, RenderMemoryFits, DrawnKeeps DEF SheetInv

LEMMA ConfirmDeleteKeeps == SheetInv /\ ConfirmDelete => SheetInv'
<1> SUFFICES ASSUME SheetInv, ConfirmDelete PROVE SheetInv'
  OBVIOUS
<1> DEFINE p == [sheet EXCEPT !.body = "confirm"]
<1>1. sheet' = p /\ UNCHANGED <<sheetCalls, projectless>>
  BY DEF ConfirmDelete
<1>2. /\ p \in Sheet /\ p.known = sheet.known /\ p.noProject = sheet.noProject
      /\ p.detail = sheet.detail /\ p.body = "confirm" /\ p.foot = sheet.foot
  BY CurrentSheet DEF Sheet, Bodies
<1> HIDE DEF p
<1>3. Fits(p, sheetCalls, {})
  BY <1>2, CurrentSheet DEF Fits, RestFits, BodyFits, FootFits
<1> QED BY <1>1, <1>2, <1>3, DrawnKeeps DEF SheetInv

LEMMA CancelDeleteKeeps == SheetInv /\ CancelDelete => SheetInv'
BY CurrentSheet, RenderMemoryFits, DrawnKeeps DEF CancelDelete, SheetInv

LEMMA DeleteMemoryKeeps == SheetInv /\ DeleteMemory => SheetInv'
<1> SUFFICES ASSUME SheetInv, DeleteMemory PROVE SheetInv'
  OBVIOUS
<1> DEFINE p == [sheet EXCEPT !.body = "deleting", !.foot = TRUE]
<1>1. /\ sheet' = p /\ CanPost(sheetCalls) /\ sheet.detail # None
      /\ sheetCalls' = Post(sheetCalls, SheetCall("delete", sheet.detail.id))
      /\ projectless' = projectless
  BY DEF DeleteMemory
<1>2. /\ p \in Sheet /\ p.known = sheet.known /\ p.noProject = sheet.noProject
      /\ p.detail = sheet.detail /\ p.body = "deleting"
  BY CurrentSheet DEF Sheet, Bodies
<1>3. sheet.detail.id \in Memories
  BY <1>1, CurrentSheet DEF Sheet, Optional, Detail
<1> HIDE DEF p
<1>4. Fits(p, sheetCalls, {"delete"})
  BY <1>2, CurrentSheet DEF Fits, RestFits, BodyFits, FootFits, Awaited, SheetActions,
     BackupActions
<1> QED BY <1>1, <1>2, <1>3, <1>4, CurrentSheet, PostKeeps DEF SheetInv, SheetActions, Optional

-----------------------------------------------------------------------------
(* Clicks in the backups                                                   *)

LEMMA OpenBackupKeeps == SheetInv /\ OpenBackup => SheetInv'
<1> SUFFICES ASSUME SheetInv, OpenBackup PROVE SheetInv'
  OBVIOUS
<1> DEFINE p == [sheet EXCEPT !.shown = TRUE, !.inspection = None]
<1>1. /\ CanPost(sheetCalls) /\ sheet' = RenderBackup(p)
      /\ sheetCalls' = Post(sheetCalls, SheetCall("status", None))
      /\ projectless' = projectless
  BY DEF OpenBackup, RefreshBackup
<1>2. /\ p \in Sheet /\ p.known = sheet.known /\ p.noProject = sheet.noProject
      /\ p.detail = sheet.detail
  BY CurrentSheet DEF Sheet, Optional
<1> HIDE DEF p
<1>3. RestFits(p, sheetCalls, {"status"}) /\ Awaited(sheetCalls, {"status"}, {"status"})
  BY <1>2, CurrentSheet DEF RestFits, Awaited, BackupActions
<1>4. Fits(sheet', sheetCalls, {"status"}) /\ sheet'.noProject = sheet.noProject
  BY <1>1, <1>2, <1>3, RenderBackupFits
<1> QED BY <1>1, <1>4, CurrentSheet, PostKeeps DEF SheetInv, SheetActions, Optional

LEMMA BackupIsKnown ==
  ASSUME SheetInv, InBackup
  PROVE  sheet.known
BY CurrentSheet DEF InBackup, ShowsBody, Fits, BodyFits

LEMMA OccupyKeeps ==
  ASSUME SheetInv, InBackup, CanPost(sheetCalls), NEW action \in {"create", "restore"},
         sheet' = Occupy(sheet), sheetCalls' = Post(sheetCalls, SheetCall(action, None)),
         projectless' = projectless
  PROVE  SheetInv'
<1> DEFINE p == [sheet EXCEPT !.inspection = None, !.foot = TRUE, !.body = "busy"]
<1>1. sheet' = p
  BY DEF Occupy
<1>2. /\ p \in Sheet /\ p.known = sheet.known /\ p.noProject = sheet.noProject
      /\ p.detail = sheet.detail /\ p.body = "busy"
  BY CurrentSheet DEF Sheet, Bodies, Optional
<1> HIDE DEF p
<1>3. Fits(p, sheetCalls, {action})
  BY <1>2, CurrentSheet, BackupIsKnown DEF Fits, RestFits, BodyFits, FootFits, Awaited,
     SheetActions
<1> QED BY <1>1, <1>2, <1>3, CurrentSheet, PostKeeps DEF SheetInv, SheetActions, Optional

LEMMA RunCreateKeeps == SheetInv /\ RunCreate => SheetInv'
BY OccupyKeeps DEF RunCreate

LEMMA RunRestoreKeeps == SheetInv /\ RunRestore => SheetInv'
BY OccupyKeeps DEF RunRestore, InBackup

LEMMA RunChooseKeeps == SheetInv /\ RunChoose => SheetInv'
<1> SUFFICES ASSUME SheetInv, RunChoose PROVE SheetInv'
  OBVIOUS
<1> DEFINE p == [sheet EXCEPT !.inspection = None]
<1>1. /\ CanPost(sheetCalls) /\ sheet' = RenderBackup(p) /\ sheet.known
      /\ sheetCalls' = Post(sheetCalls, SheetCall("choose", None))
      /\ projectless' = projectless
  BY BackupIsKnown DEF RunChoose
<1>2. /\ p \in Sheet /\ p.known = sheet.known /\ p.noProject = sheet.noProject
      /\ p.detail = sheet.detail
  BY CurrentSheet DEF Sheet, Optional
<1> HIDE DEF p
<1>3. RestFits(p, sheetCalls, {"choose"})
  BY <1>1, <1>2, CurrentSheet DEF RestFits, Awaited
<1>4. Fits(sheet', sheetCalls, {"choose"}) /\ sheet'.noProject = sheet.noProject
  BY <1>1, <1>2, <1>3, RenderBackupFits
<1> QED BY <1>1, <1>4, CurrentSheet, PostKeeps DEF SheetInv, SheetActions, Optional

LEMMA InspectLocalKeeps == SheetInv /\ InspectLocal => SheetInv'
<1> SUFFICES ASSUME SheetInv, InspectLocal PROVE SheetInv'
  OBVIOUS
<1> DEFINE p == [sheet EXCEPT !.foot = TRUE]
<1>1. /\ CanPost(sheetCalls) /\ sheet' = p /\ sheet.known
      /\ sheetCalls' = Post(sheetCalls, SheetCall("inspect", None))
      /\ projectless' = projectless
  BY BackupIsKnown DEF InspectLocal, InBackup
<1>2. /\ p \in Sheet /\ p.known = sheet.known /\ p.noProject = sheet.noProject
      /\ p.detail = sheet.detail /\ p.body = sheet.body
  BY CurrentSheet DEF Sheet
<1> HIDE DEF p
<1>3. Fits(p, sheetCalls, {"inspect"})
  BY <1>1, <1>2, CurrentSheet DEF Fits, RestFits, BodyFits, FootFits, Awaited,
     SheetActions
<1> QED BY <1>1, <1>2, <1>3, CurrentSheet, PostKeeps DEF SheetInv, SheetActions, Optional

LEMMA DropInspectionKeeps == SheetInv /\ DropInspection => SheetInv'
<1> SUFFICES ASSUME SheetInv, DropInspection PROVE SheetInv'
  OBVIOUS
<1> DEFINE p == [sheet EXCEPT !.inspection = None]
<1>1. /\ sheet' = RenderBackup(p) /\ sheet.known
      /\ UNCHANGED <<sheetCalls, projectless>>
  BY BackupIsKnown DEF DropInspection, InBackup
<1>2. /\ p \in Sheet /\ p.known = sheet.known /\ p.noProject = sheet.noProject
      /\ p.detail = sheet.detail
  BY CurrentSheet DEF Sheet, Optional
<1> HIDE DEF p
<1>3. RestFits(p, sheetCalls, {})
  BY <1>2, CurrentSheet DEF RestFits
<1>4. Fits(sheet', sheetCalls, {}) /\ sheet'.noProject = sheet.noProject
  BY <1>1, <1>2, <1>3, RenderBackupFits
<1> QED BY <1>1, <1>4, DrawnKeeps DEF SheetInv

-----------------------------------------------------------------------------
(* Answers                                                                 *)

(* What an answer finds: its slot idle, and a page that was right as long  *)
(* as the call was counted.                                                *)
Found(cs, action) ==
  /\ PostsOK(cs) /\ CanPost(cs) /\ Fits(sheet, cs, {action})
  /\ projectless \in BOOLEAN /\ (sheet.noProject => projectless)
  /\ projectless' = projectless

LEMMA EndCallKeeps ==
  ASSUME NEW cs, NEW action, Found(cs, action), Fits(sheet', cs, {}),
         sheet'.noProject => projectless, sheetCalls' = cs
  PROVE  SheetInv'
BY DEF Found, SheetInv

LEMMA NextKeeps ==
  ASSUME NEW cs, NEW action, Found(cs, action), NEW following \in SheetActions \ {"page"},
         following # "read", Fits(sheet', cs, {following}),
         sheetCalls' = Post(cs, SheetCall(following, None)),
         sheet'.noProject => projectless
  PROVE  SheetInv'
BY PostKeeps DEF Found, Optional

LEMMA RestIsLeft ==
  ASSUME NEW cs, NEW action, Found(cs, action), action # "read"
  PROVE  sheet \in Sheet /\ RestFits(sheet, cs, {})
BY DEF Found, Fits, RestFits, Awaited

LEMMA PageArrives ==
  ASSUME NEW cs, NEW c, PostedOK(c), c.action = "page", Found(cs, "page"),
         Succeeded(c, cs)
  PROVE  SheetInv'
<1> DEFINE items == IF c.append THEN sheet.items \o PageOf(c) ELSE PageOf(c)
           p == [sheet EXCEPT !.items = items, !.loaded = TRUE, !.noProject = projectless]
<1>1. sheet' = p /\ sheetCalls' = Post(cs, SheetCall("stats", None))
  BY DEF Succeeded
<1>2. PageOf(c) \in Seq(1..Pages)
  <2>1. CASE projectless \/ c.page > Pages
    <3>1. PageOf(c) = <<>>
      BY <2>1 DEF PageOf
    <3> QED BY <3>1
  <2>2. CASE ~ (projectless \/ c.page > Pages)
    <3>1. PageOf(c) = <<c.page>>
      BY <2>2 DEF PageOf
    <3>2. c.page \in 1..Pages
      BY <2>2, MemoryPageAssumption DEF PostedOK
    <3> QED BY <3>1, <3>2
  <2> QED BY <2>1, <2>2
<1>3. sheet \in Sheet /\ sheet.items \in Seq(1..Pages)
  BY DEF Found, Fits, Sheet
<1>4. items \in Seq(1..Pages)
  <2>1. sheet.items \o PageOf(c) \in Seq(1..Pages)
    BY <1>2, <1>3
  <2> QED BY <1>2, <2>1
<1> HIDE DEF items
<1>5. /\ p \in Sheet /\ p.noProject = projectless /\ p.known = sheet.known
      /\ p.detail = sheet.detail /\ p.body = sheet.body /\ p.foot = sheet.foot
  BY <1>3, <1>4 DEF Found, Sheet
<1> HIDE DEF p
<1>6. Fits(p, cs, {"stats"})
  BY <1>5 DEF Found, Fits, RestFits, BodyFits, FootFits, Awaited, SheetActions,
     BackupActions
<1> QED BY <1>1, <1>5, <1>6, NextKeeps DEF SheetActions

LEMMA ListIsDrawn ==
  ASSUME NEW cs, NEW action \in {"page", "stats"}, Found(cs, action), NEW p \in Sheet,
         p.known = sheet.known, p.detail = sheet.detail, p.noProject = sheet.noProject,
         sheet' = RenderMemory(p), sheetCalls' = cs
  PROVE  SheetInv'
<1>1. RestFits(p, cs, {})
  BY RestIsLeft DEF RestFits
<1>2. Fits(sheet', cs, {}) /\ sheet'.noProject = sheet.noProject
  BY <1>1, RenderMemoryFits
<1> QED BY <1>2, EndCallKeeps DEF Found

LEMMA PageFails ==
  ASSUME NEW cs, NEW c, c.action \in {"page", "stats"}, Found(cs, c.action),
         Failed(c, cs)
  PROVE  SheetInv'
<1> DEFINE p == [sheet EXCEPT !.loaded = TRUE]
<1>1. sheet' = RenderMemory(p) /\ sheetCalls' = cs
  BY DEF Failed
<1>2. /\ p \in Sheet /\ p.known = sheet.known /\ p.detail = sheet.detail
      /\ p.noProject = sheet.noProject
  BY RestIsLeft DEF Sheet
<1> HIDE DEF p
<1> QED BY <1>1, <1>2, ListIsDrawn

LEMMA StatsArrive ==
  ASSUME NEW cs, NEW c, c.action = "stats", Found(cs, c.action), Succeeded(c, cs)
  PROVE  SheetInv'
BY RestIsLeft, ListIsDrawn DEF Succeeded

LEMMA ReadAnswered ==
  ASSUME NEW cs, NEW c, PostedOK(c), c.action = "read", Found(cs, c.action),
         Succeeded(c, cs) \/ Failed(c, cs)
  PROVE  SheetInv'
<1>1. PICK shown \in {"detail", "unread"} :
        /\ sheet' = RenderMemory([sheet EXCEPT !.detail = [id |-> c.id, shown |-> shown]])
        /\ sheetCalls' = cs
  BY DEF Succeeded, Failed
<1> DEFINE detail == [id |-> c.id, shown |-> shown]
           p == [sheet EXCEPT !.detail = detail]
<1>2. detail \in Detail /\ detail.shown # "loading"
  BY DEF Detail, PostedOK
<1>3. sheet \in Sheet /\ (Awaited(cs, {}, BackupActions) => sheet.known)
  BY DEF Found, Fits, RestFits, Awaited
<1>4. sheet' = RenderMemory(p)
  BY <1>1
<1> HIDE DEF detail
<1>5. /\ p \in Sheet /\ p.known = sheet.known /\ p.detail = detail
      /\ p.noProject = sheet.noProject
  BY <1>2, <1>3 DEF Sheet, Optional
<1> HIDE DEF p
<1>6. RestFits(p, cs, {})
  BY <1>2, <1>3, <1>5 DEF RestFits
<1>7. Fits(sheet', cs, {}) /\ sheet'.noProject = sheet.noProject
  BY <1>4, <1>5, <1>6, RenderMemoryFits
<1> QED BY <1>1, <1>7, EndCallKeeps DEF Found

LEMMA DeleteSucceeds ==
  ASSUME NEW cs, NEW c, c.action = "delete", Found(cs, c.action), Succeeded(c, cs)
  PROVE  SheetInv'
<1> DEFINE p == [sheet EXCEPT !.detail = None, !.loaded = FALSE, !.page = 1]
<1>1. LoadMemory(p, cs, FALSE)
  BY DEF Succeeded
<1>2. 1 \in 1..Pages + 1
  BY MemoryPageAssumption
<1>3. /\ p \in Sheet /\ p.known = sheet.known /\ p.detail = None
      /\ p.noProject = sheet.noProject /\ p.body = sheet.body
  BY <1>2, RestIsLeft DEF Sheet, Optional
<1> HIDE DEF p
<1>4. RestFits(p, cs, {"page"}) /\ BodyFits(p, cs, {"page"})
  BY <1>3 DEF Found, Fits, RestFits, BodyFits, Awaited, BackupActions
<1> QED BY <1>1, <1>3, <1>4, LoadMemoryKeeps DEF Found

LEMMA DeleteFails ==
  ASSUME NEW cs, NEW c, c.action = "delete", Found(cs, c.action), Failed(c, cs)
  PROVE  SheetInv'
<1> DEFINE body == IF sheet.body = "deleting" THEN "confirm" ELSE sheet.body
           p == [sheet EXCEPT !.foot = FALSE, !.body = body]
<1>1. sheet \in Sheet
  BY RestIsLeft
<1>2. sheet' = p /\ sheetCalls' = cs
  BY <1>1 DEF Failed, Sheet
<1>3. body \in Bodies /\ body \in {"confirm", sheet.body}
  BY <1>1 DEF Sheet, Bodies
<1> HIDE DEF body
<1>4. /\ p \in Sheet /\ p.known = sheet.known /\ p.detail = sheet.detail
      /\ p.noProject = sheet.noProject /\ p.body = body /\ ~p.foot
  BY <1>1, <1>3 DEF Sheet
<1> HIDE DEF p
<1>5. RestFits(p, cs, {})
  BY <1>4, RestIsLeft DEF RestFits
<1>6. BodyFits(p, cs, {})
  BY <1>3, <1>4 DEF Found, Fits, BodyFits, Awaited
<1>7. Fits(p, cs, {})
  BY <1>4, <1>5, <1>6 DEF Fits, FootFits
<1> QED BY <1>2, <1>4, <1>7, EndCallKeeps DEF Found

LEMMA StatusArrives ==
  ASSUME NEW cs, NEW c, c.action = "status", Found(cs, c.action),
         Succeeded(c, cs) \/ Failed(c, cs)
  PROVE  SheetInv'
<1> DEFINE p == [sheet EXCEPT !.known = TRUE]
<1>1. sheet' = RenderBackup(p) /\ sheetCalls' = cs
  BY DEF Succeeded, Failed
<1>2. /\ p \in Sheet /\ p.known /\ p.detail = sheet.detail
      /\ p.noProject = sheet.noProject
  BY RestIsLeft DEF Sheet
<1> HIDE DEF p
<1>3. RestFits(p, cs, {})
  BY <1>2, RestIsLeft DEF RestFits
<1>4. Fits(sheet', cs, {}) /\ sheet'.noProject = sheet.noProject
  BY <1>1, <1>2, <1>3, RenderBackupFits
<1> QED BY <1>1, <1>4, EndCallKeeps DEF Found

LEMMA OccupiedAnswered ==
  ASSUME NEW cs, NEW c, c.action \in {"create", "restore"}, Found(cs, c.action),
         Succeeded(c, cs) \/ Failed(c, cs)
  PROVE  SheetInv'
<1>1. sheet' = sheet /\ sheetCalls' = Post(cs, SheetCall("status", None))
  BY DEF Succeeded, Failed, RefreshBackup
<1>2. Fits(sheet, cs, {"status"})
  BY DEF Found, Fits, RestFits, BodyFits, FootFits, Awaited, SheetActions, BackupActions
<1> QED BY <1>1, <1>2, NextKeeps DEF Found, SheetActions

(* An archive is chosen, sent and inspected, one call after the other.     *)
LEMMA ArchiveGoesOn ==
  ASSUME NEW cs, NEW c, c.action \in {"choose", "file", "upload"}, Found(cs, c.action),
         Succeeded(c, cs)
  PROVE  SheetInv'
<1> DEFINE p == [sheet EXCEPT !.foot = TRUE]
<1>1. PICK following \in {"file", "upload", "inspect"} :
        /\ sheet' \in {sheet, p}
        /\ sheetCalls' = Post(cs, SheetCall(following, None))
  BY DEF Succeeded
<1>2. /\ p \in Sheet /\ p.known = sheet.known /\ p.detail = sheet.detail
      /\ p.noProject = sheet.noProject /\ p.body = sheet.body
  BY RestIsLeft DEF Sheet
<1> HIDE DEF p
<1>3. Fits(p, cs, {following}) /\ Fits(sheet, cs, {following})
  BY <1>2 DEF Found, Fits, RestFits, BodyFits, FootFits, Awaited, SheetActions,
     BackupActions
<1> QED BY <1>1, <1>2, <1>3, NextKeeps DEF Found, SheetActions

LEMMA NothingChosen ==
  ASSUME NEW cs, NEW c, c.action = "choose", Found(cs, c.action), Failed(c, cs)
  PROVE  SheetInv'
<1>1. sheet' = sheet /\ sheetCalls' = cs
  BY DEF Failed
<1>2. Fits(sheet, cs, {})
  BY DEF Found, Fits, RestFits, BodyFits, FootFits, Awaited, BackupActions
<1> QED BY <1>1, <1>2, EndCallKeeps DEF Found

LEMMA ArchiveFails ==
  ASSUME NEW cs, NEW c, c.action \in {"file", "upload", "inspect"}, Found(cs, c.action),
         Failed(c, cs)
  PROVE  SheetInv'
<1>1. sheet' = RenderBackup(sheet) /\ sheetCalls' = cs
  BY DEF Failed
<1>2. sheet.known
  BY DEF Found, Fits, RestFits, Awaited, BackupActions
<1>3. Fits(sheet', cs, {}) /\ sheet'.noProject = sheet.noProject
  BY <1>1, <1>2, RestIsLeft, RenderBackupFits
<1> QED BY <1>1, <1>3, EndCallKeeps DEF Found

LEMMA InspectionArrives ==
  ASSUME NEW cs, NEW c, c.action = "inspect", Found(cs, c.action), Succeeded(c, cs)
  PROVE  SheetInv'
<1>1. PICK verdict \in {"sound", "refused"} :
        sheet' = RenderBackup([sheet EXCEPT !.inspection = verdict])
  BY DEF Succeeded
<1> DEFINE p == [sheet EXCEPT !.inspection = verdict]
<1>2. sheetCalls' = cs
  BY DEF Succeeded
<1>3. sheet.known
  BY DEF Found, Fits, RestFits, Awaited, BackupActions
<1>4. /\ p \in Sheet /\ p.known = sheet.known /\ p.detail = sheet.detail
      /\ p.noProject = sheet.noProject
  BY RestIsLeft DEF Sheet, Optional
<1> HIDE DEF p
<1>5. RestFits(p, cs, {})
  BY <1>4, RestIsLeft DEF RestFits
<1>6. Fits(sheet', cs, {}) /\ sheet'.noProject = sheet.noProject
  BY <1>1, <1>3, <1>4, <1>5, RenderBackupFits DEF p
<1> QED BY <1>2, <1>6, EndCallKeeps DEF Found

LEMMA DeliverSheetKeeps ==
  ASSUME SheetInv, NEW s \in SheetCalls, DeliverSheet(s)
  PROVE  SheetInv'
<1> DEFINE c == sheetCalls[s]
           cs == [sheetCalls EXCEPT ![s] = NoSheetCall]
<1>1. Succeeded(c, cs) \/ Failed(c, cs)
  BY DEF DeliverSheet
<1>2. PostedOK(c) /\ c # NoSheetCall
  BY CurrentSheet DEF PostsOK, DeliverSheet
<1>3. c.action \in SheetActions
  BY <1>2 DEF PostedOK, Posted
<1>4. Found(cs, c.action)
  BY TakenIsIdle DEF Found, SheetInv, DeliverSheet
<1> HIDE DEF c, cs
<1>5. CASE c.action \in {"page", "stats", "read", "delete"}
  BY <1>1, <1>2, <1>4, <1>5, PageArrives, PageFails, StatsArrive, ReadAnswered,
     DeleteSucceeds, DeleteFails
<1>6. CASE c.action \in {"status", "create", "restore"}
  BY <1>1, <1>4, <1>6, StatusArrives, OccupiedAnswered
<1>7. CASE c.action \in {"choose", "file", "upload", "inspect"}
  BY <1>1, <1>4, <1>7, ArchiveGoesOn, NothingChosen, ArchiveFails, InspectionArrives
<1> QED BY <1>3, <1>5, <1>6, <1>7 DEF SheetActions

-----------------------------------------------------------------------------
(* The invariant of the page of the memory holds at first and is kept by   *)
(* every step.                                                             *)
LEMMA SheetInitInv == MemoryPageInit => SheetInv
<1> SUFFICES ASSUME MemoryPageInit PROVE SheetInv
  OBVIOUS
<1>1. /\ sheet = NoSheet /\ projectless \in BOOLEAN
      /\ sheetCalls = [s \in SheetCalls |-> NoSheetCall]
  BY MemoryPageAssumption DEF MemoryPageInit
<1>2. 1 \in 1..Pages + 1 /\ <<>> \in Seq(1..Pages)
  BY MemoryPageAssumption
<1>3. /\ NoSheet \in Sheet /\ NoSheet.detail = None /\ NoSheet.body = "none"
      /\ ~NoSheet.foot /\ ~NoSheet.noProject
  BY <1>2 DEF NoSheet, Sheet, Bodies, Optional
<1> HIDE DEF NoSheet
<1>4. PostsOK(sheetCalls) /\ \A s \in SheetCalls : sheetCalls[s].action = "none"
  BY <1>1, NoSheetCallOK DEF PostsOK
<1>5. Fits(sheet, sheetCalls, {})
  BY <1>1, <1>3, <1>4 DEF Fits, RestFits, BodyFits, FootFits, Awaited, BackupActions
<1> QED BY <1>1, <1>3, <1>4, <1>5 DEF SheetInv

LEMMA SheetNextInv == SheetInv /\ [MemoryPageNext]_memoryPageVars => SheetInv'
<1> SUFFICES ASSUME SheetInv, [MemoryPageNext]_memoryPageVars PROVE SheetInv'
  OBVIOUS
<1>1. CASE OpenMemory \/ CloseMemory \/ OpenBackup
  BY <1>1, OpenMemoryKeeps, CloseMemoryKeeps, OpenBackupKeeps
<1>2. CASE TypeSearch \/ StartSearch \/ ReloadList \/ ShowMore
  BY <1>2, TypeSearchKeeps, StartSearchKeeps, ReloadListKeeps, ShowMoreKeeps
<1>3. CASE \E id \in Memories : OpenMemoryItem(id)
  BY <1>3, OpenMemoryItemKeeps
<1>4. CASE BackToList \/ ConfirmDelete \/ CancelDelete \/ DeleteMemory
  BY <1>4, BackToListKeeps, ConfirmDeleteKeeps, CancelDeleteKeeps, DeleteMemoryKeeps
<1>5. CASE RunCreate \/ RunRestore \/ RunChoose
  BY <1>5, RunCreateKeeps, RunRestoreKeeps, RunChooseKeeps
<1>6. CASE InspectLocal \/ DropInspection
  BY <1>6, InspectLocalKeeps, DropInspectionKeeps
<1>7. CASE \E s \in SheetCalls : DeliverSheet(s)
  BY <1>7, DeliverSheetKeeps
<1>8. CASE UNCHANGED memoryPageVars
  BY <1>8 DEF memoryPageVars, SheetInv
<1> QED BY <1>1, <1>2, <1>3, <1>4, <1>5, <1>6, <1>7, <1>8 DEF MemoryPageNext

(* The page of the memory keeps its invariant.                             *)
THEOREM SheetInvariance == MemoryPageSpec => []SheetInv
BY SheetInitInv, SheetNextInv, PTL DEF MemoryPageSpec

(* Every reachable state of the page of the memory is well typed, whatever *)
(* order the answers come in (memory-console/ui.js).                       *)
THEOREM MemoryPageTypeCorrectness == MemoryPageSpec => []MemoryPageTypeOK
<1>1. SheetInv => MemoryPageTypeOK
  BY DEF SheetInv, Fits, PostsOK, PostedOK, Posted, Sheet, Detail, MemoryPageTypeOK
<1> QED BY <1>1, SheetInvariance, PTL

(* The page of the memory shows no progress and no body without a button   *)
(* but for a call in flight that redraws them (memory-console/ui.js).      *)
THEOREM MemoryPageAnswers == MemoryPageSpec => []MemoryAnswers
<1>1. SheetInv => MemoryAnswers
  BY DEF SheetInv, Fits, BodyFits, FootFits, Awaited, MemoryAnswers
<1> QED BY <1>1, SheetInvariance, PTL

-----------------------------------------------------------------------------
(* The plugins beside one another                                          *)

(* At first each plugin is in a first state of its own.                    *)
LEMMA PluginsStart ==
  ServicesInit =>
    /\ RouterInit /\ TerminalInit /\ TreeScanInit /\ StorageInit /\ GitInit
    /\ ContextInit /\ ProjectsInit /\ MemoryPageInit /\ service \in Services
BY DEF ServicesInit

(* A step of one plugin leaves the others as they were.                    *)
LEMMA PluginsStep ==
  [ServicesNext]_servicesVars =>
    /\ [RouterNext]_routerVars
    /\ [TerminalNext]_terminalVars
    /\ [TreeScanNext]_treeScanVars
    /\ [StorageNext]_storageVars
    /\ [GitNext]_gitVars
    /\ [ContextNext]_contextVars
    /\ [ProjectsNext]_projectsPageVars
    /\ [MemoryPageNext]_memoryPageVars
    /\ service' = service
<1> SUFFICES ASSUME [ServicesNext]_servicesVars
             PROVE  /\ [RouterNext]_routerVars
                    /\ [TerminalNext]_terminalVars
                    /\ [TreeScanNext]_treeScanVars
                    /\ [StorageNext]_storageVars
                    /\ [GitNext]_gitVars
                    /\ [ContextNext]_contextVars
                    /\ [ProjectsNext]_projectsPageVars
                    /\ [MemoryPageNext]_memoryPageVars
                    /\ service' = service
  OBVIOUS
<1>1. CASE UNCHANGED servicesVars
  BY <1>1 DEF servicesVars
<1>2. CASE ServicesNext
  BY <1>2 DEF ServicesNext, Others
<1> QED BY <1>1, <1>2

(* Beside the others each plugin is the plugin that was modelled alone: a  *)
(* behaviour of all of them is one of every one of them.                   *)
THEOREM PluginsStandAlone ==
  ServicesSpec =>
    /\ RouterSpec /\ TerminalSpec /\ TreeScanSpec /\ StorageSpec
    /\ GitSpec /\ ContextSpec /\ ProjectsSpec /\ MemoryPageSpec
<1>1. ServicesSpec => RouterSpec /\ TerminalSpec /\ TreeScanSpec /\ StorageSpec
  BY PluginsStart, PluginsStep, PTL
     DEF ServicesSpec, RouterSpec, TerminalSpec, TreeScanSpec, StorageSpec
<1>2. ServicesSpec => GitSpec /\ ContextSpec /\ ProjectsSpec /\ MemoryPageSpec
  BY PluginsStart, PluginsStep, PTL
     DEF ServicesSpec, GitSpec, ContextSpec, ProjectsSpec, MemoryPageSpec
<1> QED BY <1>1, <1>2, PTL

(* None of the three pages waits for nothing, whichever plugin a behaviour *)
(* exercises: not for an answer that is not to come, nor for one that came *)
(* or failed.                                                              *)
THEOREM PagesAlwaysAnswer == ServicesSpec => []PagesAnswer
<1>1. StorageAnswers /\ ProjectsAnswer /\ MemoryAnswers => PagesAnswer
  BY DEF PagesAnswer
<1> QED BY <1>1, PluginsStandAlone, ConsoleAnswers, ProjectsPageAnswers,
           MemoryPageAnswers, PTL

(* The plugin a behaviour exercises is well typed in every state.          *)
THEOREM ServicesTypeCorrectness == ServicesSpec => []TypesOK
<1>1. service \in Services
        /\ RouterTypeOK /\ TerminalTypeOK /\ TreeScanTypeOK /\ StorageTypeOK
        /\ GitTypeOK /\ ContextTypeOK /\ ProjectsTypeOK /\ MemoryPageTypeOK
      => TypesOK
  BY DEF TypesOK, Services
<1>2. ServicesSpec => [](service \in Services)
  <2>1. service \in Services /\ [ServicesNext]_servicesVars => (service \in Services)'
    BY PluginsStep
  <2> QED BY <2>1, PluginsStart, PTL DEF ServicesSpec
<1> QED BY <1>1, <1>2, PluginsStandAlone, RouterTypeCorrectness,
           TerminalTypeCorrectness, ScanTypeCorrectness, StorageTypeCorrectness,
           GitTypeCorrectness, ContextTypeCorrectness, ProjectsTypeCorrectness,
           MemoryPageTypeCorrectness, PTL
=============================================================================
