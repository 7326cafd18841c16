--------------------------- MODULE TreeScanProofs ---------------------------
(***************************************************************************)
(* Proofs about TreeScan, for every finite tree of directories, every set  *)
(* of names and every limit.                                               *)
(***************************************************************************)
EXTENDS TreeScan, FiniteSetTheorems, SequenceTheorems, TLAPS

States == {"unknown", "waiting", "woken", "reading", "over"}

(* No element of a sequence occurs in it twice.                            *)
Once(s) == \A i, j \in 1..Len(s) : s[i] = s[j] => i = j

(* A walk finds the subdirectories of its own directory, and none of them  *)
(* is walked before its parent's read is over.                             *)
FindsItsOwn == \A d \in Directories : seen[d] \cap Directories \subseteq SubdirectoriesOf(d)

ChildrenLater ==
  \A d \in Directories : walks[d] # "over" =>
    \A c \in SubdirectoriesOf(d) : walks[c] = "unknown"

(* A slot is held by each reader, and by no one else.                      *)
SlotsAreReaders == slots = Cardinality(Readers)

(* The queue holds the waiting directories, each once, and is empty unless *)
(* someone will release a slot or was just given one.                      *)
Queue ==
  /\ waiters \in Seq(Directories) /\ Once(waiters)
  /\ \A d \in Directories :
       walks[d] = "waiting" <=> \E i \in 1..Len(waiters) : waiters[i] = d
  /\ waiters # <<>> => \E d \in Directories : walks[d] \in {"reading", "woken"}

ScanIInv ==
  /\ walks \in [Directories -> States]
  /\ seen \in [Directories -> SUBSET (Directories \cup Names)]
  /\ FindsItsOwn /\ ChildrenLater /\ SlotsAreReaders /\ Queue

-----------------------------------------------------------------------------
(* Sequences                                                               *)

(* The elements of a finite set, each once.                                *)
LEMMA SetToSeqIsOnce ==
  ASSUME NEW S, IsFiniteSet(S)
  PROVE  SetToSeq(S) \in Seq(S) /\ Once(SetToSeq(S))
<1> DEFINE n == Cardinality(S)
<1>1. n \in Nat /\ ExistsBijection(1..n, S)
  BY FS_CardinalityType
<1>2. \E f \in [1..n -> S] : IsInjective(f)
  BY <1>1 DEF ExistsBijection, Bijection, Injection
<1>3. SetToSeq(S) \in [1..n -> S] /\ IsInjective(SetToSeq(S))
  BY <1>2 DEF SetToSeq
<1>4. SetToSeq(S) \in Seq(S)
  BY <1>1, <1>3, SeqDef
<1>5. DOMAIN SetToSeq(S) = 1..Len(SetToSeq(S))
  BY <1>4, LenProperties
<1> QED BY <1>3, <1>4, <1>5 DEF IsInjective, Once

(* The sequence of a finite set holds all of it.                           *)
LEMMA SetToSeqIsAll ==
  ASSUME NEW S, IsFiniteSet(S)
  PROVE  \A x \in S : \E i \in 1..Len(SetToSeq(S)) : SetToSeq(S)[i] = x
<1> DEFINE n == Cardinality(S)
           s == SetToSeq(S)
<1>1. n \in Nat /\ ExistsBijection(1..n, S)
  BY FS_CardinalityType
<1>2. \E f \in [1..n -> S] : IsInjective(f)
  BY <1>1 DEF ExistsBijection, Bijection, Injection
<1>3. s \in [1..n -> S] /\ IsInjective(s)
  BY <1>2 DEF SetToSeq
<1>4. s \in Seq(S) /\ Len(s) = n
  BY <1>1, <1>3, SeqDef, LenProperties
<1>5. s \in Injection(1..n, S)
  BY <1>3 DEF Injection
<1>6. Cardinality(1..n) = n
  BY <1>1, FS_Interval
<1>7. s \in Surjection(1..n, S)
  BY <1>5, <1>6, FS_Injection
<1> QED BY <1>4, <1>7 DEF Surjection

(* A sequence without repetition has as many elements as it is long.       *)
LEMMA OnceCardinality ==
  ASSUME NEW S, NEW s \in Seq(S), Once(s)
  PROVE  /\ IsFiniteSet(ToSet(s))
         /\ Cardinality(ToSet(s)) = Len(s)
         /\ \A x : x \in ToSet(s) <=> \E i \in 1..Len(s) : s[i] = x
<1>1. Len(s) \in Nat /\ DOMAIN s = 1..Len(s) /\ s \in [1..Len(s) -> S]
  BY LenProperties
<1>2. \A x : x \in ToSet(s) <=> \E i \in 1..Len(s) : s[i] = x
  BY <1>1 DEF ToSet
<1>3. s \in [1..Len(s) -> ToSet(s)]
  BY <1>1, <1>2
<1>4. s \in Bijection(1..Len(s), ToSet(s))
  BY <1>1, <1>2, <1>3 DEF Bijection, Injection, Surjection, IsInjective, Once
<1>5. ExistsBijection(1..Len(s), ToSet(s))
  BY <1>4 DEF ExistsBijection
<1>6. IsFiniteSet(1..Len(s)) /\ Cardinality(1..Len(s)) = Len(s)
  BY <1>1, FS_Interval
<1> QED BY <1>2, <1>5, <1>6, FS_Bijection

(* A piece of a sequence without repetition.                               *)
LEMMA PieceIsOnce ==
  ASSUME NEW S, NEW s \in Seq(S), Once(s),
         NEW m \in Nat \ {0}, NEW n \in Nat, n <= Len(s), m <= n + 1
  PROVE  /\ SubSeq(s, m, n) \in Seq(S) /\ Once(SubSeq(s, m, n))
         /\ Len(SubSeq(s, m, n)) = n - m + 1
         /\ \A i \in 1..n - m + 1 : SubSeq(s, m, n)[i] = s[m + i - 1]
<1>1. Len(s) \in Nat /\ \A i \in 1..Len(s) : s[i] \in S
  BY LenProperties, ElementOfSeq
<1>2. \A i \in m..n : s[i] \in S
  BY <1>1
<1>3. /\ SubSeq(s, m, n) \in Seq(S)
      /\ Len(SubSeq(s, m, n)) = IF m <= n THEN n - m + 1 ELSE 0
      /\ \A i \in 1..n - m + 1 : SubSeq(s, m, n)[i] = s[m + i - 1]
  BY <1>2, SubSeqProperties
<1>4. Len(SubSeq(s, m, n)) = n - m + 1
  BY <1>3
<1>5. ASSUME NEW i \in 1..n - m + 1, NEW j \in 1..n - m + 1, s[m + i - 1] = s[m + j - 1]
      PROVE  i = j
  <2>1. m + i - 1 \in 1..Len(s) /\ m + j - 1 \in 1..Len(s)
    BY <1>1
  <2>2. m + i - 1 = m + j - 1
    BY <1>5, <2>1 DEF Once
  <2> QED BY <2>2
<1> QED BY <1>3, <1>4, <1>5 DEF Once

-----------------------------------------------------------------------------
(* The release of a slot                                                   *)

(* The first subdirectories found read, the others queue, and the longest  *)
(* waiter is woken.                                                        *)
LEMMA ReleaseKeeps ==
  ASSUME ScanIInv, NEW d \in Directories, walks[d] = "reading",
         NEW found \in Seq(SubdirectoriesOf(d)), Once(found),
         Release(d, found), seen' = seen
  PROVE  ScanIInv'
<1> USE TreeScanAssumption
<1> DEFINE left == slots - 1
           free == IF left < Concurrency THEN Concurrency - left ELSE 0
           now == IF free < Len(found) THEN free ELSE Len(found)
           taken == SubSeq(found, 1, now)
           others == SubSeq(found, now + 1, Len(found))
           longest == IF waiters = <<>> THEN {} ELSE {Head(waiters)}
           rest == IF waiters = <<>> THEN <<>> ELSE Tail(waiters)
<1>1. /\ slots' = left + now
      /\ waiters' = rest \o others
      /\ walks' = [w \in Directories |->
                     CASE w = d -> "over"
                       [] w \in ToSet(taken) -> "reading"
                       [] w \in ToSet(others) -> "waiting"
                       [] w \in longest -> "woken"
                       [] OTHER -> walks[w]]
  BY DEF Release
<1>2. /\ IsFiniteSet(Readers) /\ d \in Readers
      /\ slots \in Nat \ {0} /\ slots = Cardinality(Readers)
      /\ IsFiniteSet(Readers \ {d}) /\ Cardinality(Readers \ {d}) = left
  <2>1. Readers \subseteq Directories /\ d \in Readers
    BY DEF Readers
  <2>2. IsFiniteSet(Readers)
    BY <2>1, FS_Subset
  <2>3. Cardinality(Readers) \in Nat
    BY <2>2, FS_CardinalityType
  <2>4. IsFiniteSet(Readers \ {d}) /\ Cardinality(Readers \ {d}) = Cardinality(Readers) - 1
    BY <2>1, <2>2, FS_RemoveElement
  <2>5. Cardinality(Readers \ {d}) \in Nat
    BY <2>4, FS_CardinalityType
  <2> QED BY <2>1, <2>2, <2>3, <2>4, <2>5 DEF ScanIInv, SlotsAreReaders
<1>3. /\ Len(found) \in Nat /\ left \in Nat
      /\ \A i \in 1..Len(found) : found[i] \in SubdirectoriesOf(d)
  BY <1>2, LenProperties, ElementOfSeq
<1>4. now \in Nat /\ now <= Len(found)
      /\ (now = 0 => Len(found) = 0 \/ left >= Concurrency)
  BY <1>3
<1> HIDE DEF now
<1>5. /\ taken \in Seq(SubdirectoriesOf(d)) /\ Once(taken) /\ Len(taken) = now
      /\ \A i \in 1..now : taken[i] = found[i]
  <2>1. /\ taken \in Seq(SubdirectoriesOf(d)) /\ Once(taken)
        /\ Len(taken) = now - 1 + 1
        /\ \A i \in 1..now - 1 + 1 : taken[i] = found[1 + i - 1]
    <3>1. now \in Nat /\ now <= Len(found) /\ 1 <= now + 1 /\ 1 \in Nat \ {0}
      BY <1>4
    <3> QED BY <3>1, PieceIsOnce
  <2> QED BY <1>4, <2>1
<1>6. /\ others \in Seq(SubdirectoriesOf(d)) /\ Once(others)
      /\ Len(others) = Len(found) - now
      /\ \A i \in 1..Len(found) - now : others[i] = found[now + i]
  <2>1. /\ others \in Seq(SubdirectoriesOf(d)) /\ Once(others)
        /\ Len(others) = Len(found) - (now + 1) + 1
        /\ \A i \in 1..Len(found) - (now + 1) + 1 : others[i] = found[now + 1 + i - 1]
    <3>1. now + 1 \in Nat \ {0} /\ Len(found) \in Nat /\ now + 1 <= Len(found) + 1
      BY <1>3, <1>4
    <3> QED BY <3>1, PieceIsOnce
  <2> QED BY <1>3, <1>4, <2>1
<1>7. /\ IsFiniteSet(ToSet(taken)) /\ Cardinality(ToSet(taken)) = now
      /\ \A x : x \in ToSet(taken) <=> \E i \in 1..now : found[i] = x
  <2>1. /\ IsFiniteSet(ToSet(taken)) /\ Cardinality(ToSet(taken)) = Len(taken)
        /\ \A x : x \in ToSet(taken) <=> \E i \in 1..Len(taken) : taken[i] = x
    <3>1. taken \in Seq(SubdirectoriesOf(d)) /\ Once(taken)
      BY <1>5
    <3> HIDE DEF taken
    <3> QED BY ONLY <3>1, OnceCardinality
  <2> HIDE DEF taken
  <2> QED BY <1>5, <2>1
<1>8. \A x : x \in ToSet(others) <=> \E i \in 1..Len(others) : others[i] = x
  <2>1. others \in Seq(SubdirectoriesOf(d)) /\ Once(others)
    BY <1>6
  <2> HIDE DEF others
  <2> QED BY ONLY <2>1, OnceCardinality
<1>9. \A x \in ToSet(taken) \cup ToSet(others) :
        x \in SubdirectoriesOf(d) /\ x # d /\ x \in Directories /\ walks[x] = "unknown"
  <2>1. \A x \in ToSet(taken) \cup ToSet(others) : x \in SubdirectoriesOf(d)
    BY <1>3, <1>4, <1>5, <1>6, <1>7, <1>8, ElementOfSeq
  <2>2. \A x \in SubdirectoriesOf(d) : x \in Directories /\ x # d /\ walks[x] = "unknown"
    BY DEF ScanIInv, ChildrenLater, SubdirectoriesOf
  <2> QED BY <2>1, <2>2
<1>10. ToSet(taken) \cap ToSet(others) = {}
  <2> HIDE DEF taken, others
  <2> SUFFICES ASSUME NEW x \in ToSet(taken), x \in ToSet(others)
               PROVE  FALSE
    OBVIOUS
  <2>. PICK i \in 1..now : found[i] = x
    BY <1>7
  <2>. PICK j \in 1..Len(others) : others[j] = x
    BY <1>8
  <2>1. others[j] = found[now + j] /\ i \in 1..Len(found) /\ now + j \in 1..Len(found)
    BY <1>3, <1>4, <1>6
  <2>2. i = now + j
    BY <2>1 DEF Once
  <2> QED BY <1>4, <2>2
<1>11. /\ waiters \in Seq(Directories) /\ Len(waiters) \in Nat /\ Once(waiters)
       /\ \A i \in 1..Len(waiters) : waiters[i] \in Directories /\ walks[waiters[i]] = "waiting"
       /\ \A w \in Directories :
            walks[w] = "waiting" <=> \E i \in 1..Len(waiters) : waiters[i] = w
  <2>1. waiters \in Seq(Directories)
    BY DEF ScanIInv, Queue
  <2>2. Len(waiters) \in Nat /\ \A i \in 1..Len(waiters) : waiters[i] \in Directories
    BY <2>1, LenProperties, ElementOfSeq
  <2> QED BY <2>1, <2>2 DEF ScanIInv, Queue
<1>12. CASE waiters = <<>> \/ waiters # <<>>
  <2>1. /\ rest \in Seq(Directories) /\ Len(rest) \in Nat
        /\ Len(rest) = IF waiters = <<>> THEN 0 ELSE Len(waiters) - 1
        /\ \A i \in 1..Len(rest) : rest[i] = waiters[i + 1]
    <3>1. CASE waiters = <<>>
      BY <3>1, EmptySeq
    <3>2. CASE waiters # <<>>
      <4>1. Tail(waiters) \in Seq(Directories) /\ Len(Tail(waiters)) = Len(waiters) - 1
            /\ \A i \in 1..Len(Tail(waiters)) : Tail(waiters)[i] = waiters[i + 1]
        BY <1>11, <3>2, HeadTailProperties
      <4>2. Len(Tail(waiters)) \in Nat
        BY <4>1, LenProperties
      <4> QED BY <3>2, <4>1, <4>2
    <3> QED BY <3>1, <3>2
  <2>2. longest = {w \in Directories : \E i \in 1..Len(waiters) : i = 1 /\ waiters[i] = w}
    <3>1. CASE waiters = <<>>
      BY <3>1, EmptySeq
    <3>2. CASE waiters # <<>>
      <4>1. Len(waiters) # 0 /\ Head(waiters) = waiters[1]
        BY <1>11, <3>2, EmptySeq, HeadTailProperties
      <4> QED BY <1>11, <3>2, <4>1
    <3> QED BY <3>1, <3>2
  <2> HIDE DEF rest, longest, taken, others
  <2>3. \A w \in longest : walks[w] = "waiting"
    BY <1>11, <2>2
  <2>4. /\ walks'[d] = "over"
        /\ \A w \in ToSet(taken) : walks'[w] = "reading"
        /\ \A w \in ToSet(others) : walks'[w] = "waiting"
        /\ \A w \in longest : walks'[w] = "woken"
        /\ \A w \in Directories \ ({d} \cup ToSet(taken) \cup ToSet(others) \cup longest) :
             walks'[w] = walks[w]
        /\ DOMAIN walks' = Directories
    <3>1. \A w \in longest : w # d /\ w \notin ToSet(taken) /\ w \notin ToSet(others)
                             /\ w \in Directories
      BY <1>9, <2>2, <2>3
    <3> QED BY <1>1, <1>9, <1>10, <3>1
  <2>5. walks' \in [Directories -> States]
    <3>1. \A w \in Directories : walks'[w] \in States
      BY <2>4 DEF States, ScanIInv
    <3>2. walks' = [w \in Directories |-> walks'[w]]
      BY <1>1
    <3> QED BY <3>1, <3>2
  <2>6. Readers' = (Readers \ {d}) \cup ToSet(taken)
    BY <1>9, <1>10, <2>3, <2>4 DEF Readers
  <2>7. SlotsAreReaders'
    <3>1. (Readers \ {d}) \cap ToSet(taken) = {}
      BY <1>9 DEF Readers
    <3>2. Cardinality((Readers \ {d}) \cup ToSet(taken)) = left + now - 0
      <4>1. /\ Cardinality((Readers \ {d}) \cup ToSet(taken)) =
                 Cardinality(Readers \ {d}) + Cardinality(ToSet(taken))
                   - Cardinality((Readers \ {d}) \cap ToSet(taken))
        BY <1>2, <1>7, FS_Union
      <4> QED BY <1>2, <1>7, <3>1, <4>1, FS_EmptySet
    <3>3. left + now - 0 = left + now
      BY <1>3, <1>4
    <3> QED BY <1>1, <2>6, <3>2, <3>3 DEF SlotsAreReaders
  <2>8. ChildrenLater'
    <3> SUFFICES ASSUME NEW p \in Directories, walks'[p] # "over",
                        NEW c \in SubdirectoriesOf(p)
                 PROVE  walks'[c] = "unknown"
      BY DEF ChildrenLater, SubdirectoriesOf
    <3>1. walks[p] # "over"
      BY <1>9, <2>3, <2>4
    <3>2. c \in Directories /\ walks[c] = "unknown" /\ p # d
      BY <2>4, <3>1 DEF ScanIInv, ChildrenLater, SubdirectoriesOf
    <3>3. c # d /\ c \notin ToSet(taken) /\ c \notin ToSet(others) /\ c \notin longest
      BY <1>9, <2>3, <3>2 DEF SubdirectoriesOf
    <3> QED BY <2>4, <3>2, <3>3
  <2>9. /\ waiters' \in Seq(Directories)
        /\ Len(waiters') = Len(rest) + Len(others)
        /\ \A i \in 1..Len(waiters') :
             waiters'[i] = IF i <= Len(rest) THEN rest[i] ELSE others[i - Len(rest)]
    <3>1. others \in Seq(Directories)
      <4>1. SubdirectoriesOf(d) \subseteq Directories
        BY DEF SubdirectoriesOf
      <4>2. \A i \in 1..Len(others) : others[i] \in Directories
        BY <1>6, <4>1, ElementOfSeq
      <4>3. others \in [1..Len(others) -> SubdirectoriesOf(d)] /\ Len(others) \in Nat
        BY <1>6, LenProperties
      <4>4. others \in [1..Len(others) -> Directories]
        BY <4>1, <4>3
      <4> QED BY <4>3, <4>4, SeqDef
    <3>2. /\ rest \o others \in Seq(Directories)
          /\ Len(rest \o others) = Len(rest) + Len(others)
          /\ \A i \in 1..Len(rest) + Len(others) : (rest \o others)[i] =
               IF i <= Len(rest) THEN rest[i] ELSE others[i - Len(rest)]
      <4>1. rest \in Seq(Directories)
        BY <2>1
      <4> QED BY ONLY <3>1, <4>1, ConcatProperties
    <3>3. waiters' = rest \o others
      BY <1>1
    <3>4. Len(waiters') = Len(rest) + Len(others) /\ waiters' \in Seq(Directories)
      BY <3>2, <3>3
    <3>5. \A i \in 1..Len(rest) + Len(others) : waiters'[i] =
            IF i <= Len(rest) THEN rest[i] ELSE others[i - Len(rest)]
      BY ONLY <3>2, <3>3
    <3> QED BY <3>4, <3>5
  <2>10. Len(others) \in Nat
    BY <1>3, <1>4, <1>6
  <2>11. Once(waiters')
    <3> SUFFICES ASSUME NEW i \in 1..Len(waiters'), NEW j \in 1..Len(waiters'),
                        waiters'[i] = waiters'[j]
                 PROVE  i = j
      BY DEF Once
    <3>1. \A k \in 1..Len(rest) : k + 1 \in 1..Len(waiters) /\ rest[k] = waiters[k + 1]
                                  /\ walks[rest[k]] = "waiting"
      BY <1>11, <2>1
    <3>2. \A k \in 1..Len(others) : walks[others[k]] = "unknown"
      BY <1>8, <1>9
    <3>3. CASE i <= Len(rest) /\ j <= Len(rest)
      <4>1. i \in 1..Len(rest) /\ j \in 1..Len(rest)
        BY <2>1, <3>3
      <4>2. waiters[i + 1] = waiters[j + 1]
        BY <2>9, <3>1, <3>3, <4>1
      <4>3. i + 1 = j + 1
        BY <3>1, <4>1, <4>2, <1>11 DEF Once
      <4> QED BY <4>3
    <3>4. CASE i > Len(rest) /\ j > Len(rest)
      <4>1. i - Len(rest) \in 1..Len(others) /\ j - Len(rest) \in 1..Len(others)
        BY <2>1, <2>9, <2>10, <3>4
      <4>2. ~(i <= Len(rest)) /\ ~(j <= Len(rest))
        BY <2>1, <3>4
      <4>3. others[i - Len(rest)] = others[j - Len(rest)]
        BY <2>9, <4>2
      <4>4. i - Len(rest) = j - Len(rest)
        BY <1>6, <4>1, <4>3 DEF Once
      <4> QED BY <2>1, <4>4
    <3>5. CASE i <= Len(rest) /\ j > Len(rest)
      <4>1. i \in 1..Len(rest) /\ j - Len(rest) \in 1..Len(others) /\ ~(j <= Len(rest))
        BY <2>1, <2>9, <2>10, <3>5
      <4>2. rest[i] = others[j - Len(rest)]
        BY <2>9, <3>5, <4>1
      <4> QED BY <3>1, <3>2, <4>1, <4>2
    <3>6. CASE i > Len(rest) /\ j <= Len(rest)
      <4>1. j \in 1..Len(rest) /\ i - Len(rest) \in 1..Len(others) /\ ~(i <= Len(rest))
        BY <2>1, <2>9, <2>10, <3>6
      <4>2. rest[j] = others[i - Len(rest)]
        BY <2>9, <3>6, <4>1
      <4> QED BY <3>1, <3>2, <4>1, <4>2
    <3> QED BY <2>1, <2>9, <2>10, <3>3, <3>4, <3>5, <3>6
  <2>12. \A w \in Directories :
           (\E i \in 1..Len(waiters') : waiters'[i] = w) <=>
              (\E i \in 1..Len(rest) : rest[i] = w) \/ w \in ToSet(others)
    <3> SUFFICES ASSUME NEW w \in Directories
                 PROVE  (\E i \in 1..Len(waiters') : waiters'[i] = w) <=>
                          (\E i \in 1..Len(rest) : rest[i] = w)
                          \/ (\E i \in 1..Len(others) : others[i] = w)
      BY <1>8
    <3>1. ASSUME NEW i \in 1..Len(rest)
          PROVE  i \in 1..Len(waiters') /\ waiters'[i] = rest[i]
      BY <2>1, <2>9, <2>10, <3>1
    <3>2. ASSUME NEW i \in 1..Len(others)
          PROVE  Len(rest) + i \in 1..Len(waiters') /\ waiters'[Len(rest) + i] = others[i]
      <4>1. Len(rest) + i \in 1..Len(waiters') /\ ~(Len(rest) + i <= Len(rest))
            /\ Len(rest) + i - Len(rest) = i
        BY <2>1, <2>9, <2>10, <3>2
      <4> QED BY <2>9, <4>1
    <3>3. ASSUME NEW i \in 1..Len(waiters')
          PROVE  \/ i \in 1..Len(rest) /\ waiters'[i] = rest[i]
                 \/ i - Len(rest) \in 1..Len(others) /\ waiters'[i] = others[i - Len(rest)]
      BY <2>1, <2>9, <2>10, <3>3
    <3>4. ASSUME NEW i \in 1..Len(waiters'), waiters'[i] = w
          PROVE  (\E k \in 1..Len(rest) : rest[k] = w)
                 \/ (\E k \in 1..Len(others) : others[k] = w)
      BY <3>3, <3>4
    <3>5. ASSUME NEW i \in 1..Len(rest), rest[i] = w
          PROVE  \E k \in 1..Len(waiters') : waiters'[k] = w
      BY <3>1, <3>5
    <3>6. ASSUME NEW i \in 1..Len(others), others[i] = w
          PROVE  \E k \in 1..Len(waiters') : waiters'[k] = w
      BY <3>2, <3>6
    <3> QED BY <3>4, <3>5, <3>6
  <2>13. \A w \in Directories :
           (\E i \in 1..Len(rest) : rest[i] = w) <=> walks[w] = "waiting" /\ w \notin longest
    <3> SUFFICES ASSUME NEW w \in Directories
                 PROVE  (\E i \in 1..Len(rest) : rest[i] = w) <=>
                          (\E i \in 1..Len(waiters) : waiters[i] = w) /\ w \notin longest
      BY <1>11
    <3>1. ASSUME NEW i \in 1..Len(rest), rest[i] = w
          PROVE  (\E k \in 1..Len(waiters) : waiters[k] = w) /\ w \notin longest
      <4>1. i + 1 \in 1..Len(waiters) /\ waiters[i + 1] = w /\ 1 \in 1..Len(waiters) /\ i + 1 # 1
        BY <1>11, <2>1, <3>1
      <4>2. waiters[1] # w
        BY <1>11, <4>1 DEF Once
      <4> QED BY <2>2, <4>1, <4>2
    <3>2. ASSUME NEW k \in 1..Len(waiters), waiters[k] = w, w \notin longest
          PROVE  \E i \in 1..Len(rest) : rest[i] = w
      <4>1. k # 1
        BY <2>2, <3>2
      <4>2. k - 1 \in 1..Len(rest) /\ (k - 1) + 1 = k
        <5>1. waiters # <<>>
          BY <1>11, <3>2, EmptySeq
        <5> QED BY <1>11, <2>1, <3>2, <4>1, <5>1
      <4>3. rest[k - 1] = waiters[(k - 1) + 1]
        BY <2>1, <4>2
      <4> QED BY <3>2, <4>2, <4>3
    <3> QED BY <3>1, <3>2
  <2>14. \A w \in Directories :
           walks'[w] = "waiting" <=> \E i \in 1..Len(waiters') : waiters'[i] = w
    <3> SUFFICES ASSUME NEW w \in Directories
                 PROVE  walks'[w] = "waiting" <=>
                          (walks[w] = "waiting" /\ w \notin longest) \/ w \in ToSet(others)
      BY <2>12, <2>13
    <3>1. CASE w \in {d} \cup ToSet(taken)
      BY <1>9, <1>10, <2>4, <3>1
    <3>2. CASE w \in ToSet(others)
      BY <2>4, <3>2
    <3>3. CASE w \in longest /\ w \notin ToSet(others)
      BY <2>4, <3>3
    <3>4. CASE w \notin {d} \cup ToSet(taken) \cup ToSet(others) \cup longest
      BY <2>4, <3>4
    <3> QED BY <3>1, <3>2, <3>3, <3>4
  <2>15. ASSUME waiters' # <<>>
         PROVE  \E w \in Directories : walks'[w] \in {"reading", "woken"}
    <3>1. CASE waiters # <<>>
      <4>1. Len(waiters) # 0
        BY <1>11, <3>1, EmptySeq
      <4>2. waiters[1] \in longest /\ waiters[1] \in Directories
        BY <1>11, <2>2, <4>1
      <4> QED BY <2>4, <4>2
    <3>2. CASE waiters = <<>> /\ now # 0
      <4>1. found[1] \in ToSet(taken)
        BY <1>4, <1>7, <3>2
      <4> QED BY <1>9, <2>4, <4>1
    <3>3. CASE waiters = <<>> /\ now = 0
      <4>1. Len(waiters') # 0
        BY <2>9, <2>15, EmptySeq
      <4>2. Len(others) # 0
        BY <2>1, <2>9, <2>10, <3>3, <4>1
      <4>3. left >= Concurrency
        BY <1>4, <1>6, <3>3, <4>2
      <4>4. Cardinality(Readers \ {d}) # 0
        BY <1>2, <1>3, <4>3
      <4>5. Readers \ {d} # {}
        BY <4>4, FS_EmptySet
      <4> QED BY <2>6, <4>5 DEF Readers
    <3> QED BY <3>1, <3>2, <3>3
  <2>16. Queue'
    BY <2>9, <2>11, <2>14, <2>15 DEF Queue
  <2>17. FindsItsOwn' /\ seen' \in [Directories -> SUBSET (Directories \cup Names)]
    BY DEF ScanIInv, FindsItsOwn, SubdirectoriesOf
  <2> QED BY <2>5, <2>7, <2>8, <2>16, <2>17 DEF ScanIInv
<1> QED BY <1>12

-----------------------------------------------------------------------------
(* The other steps                                                         *)

(* One walk begins: its top is being read, and nothing else is.            *)
WalkBegins ==
  /\ walks = [d \in Directories |-> IF d = Top THEN "reading" ELSE "unknown"]
  /\ seen = [d \in Directories |-> {}]
  /\ slots = 1
  /\ waiters = <<>>

LEMMA OneReaderAtFirst == WalkBegins => ScanIInv
<1> USE TreeScanAssumption DEF WalkBegins
<1> SUFFICES ASSUME WalkBegins
             PROVE  ScanIInv
  OBVIOUS
<1>1. walks \in [Directories -> States] /\ seen \in [Directories -> SUBSET (Directories \cup Names)]
  BY DEF States
<1>2. FindsItsOwn
  BY DEF FindsItsOwn
<1>3. ChildrenLater
  BY DEF ChildrenLater, SubdirectoriesOf
<1>4. SlotsAreReaders
  <2>1. Readers = {Top}
    BY DEF Readers
  <2> QED BY <2>1, FS_Singleton DEF SlotsAreReaders
<1>5. Queue
  <2>1. waiters \in Seq(Directories) /\ Len(waiters) = 0
    BY EmptySeq
  <2> QED BY <2>1 DEF Queue, Once
<1> QED BY <1>1, <1>2, <1>3, <1>4, <1>5 DEF ScanIInv

(* A new walk finds an empty queue: nobody waits, and whoever waited left  *)
(* it.                                                                     *)
LEMMA NobodyIsQueued ==
  ASSUME ScanIInv, \A d \in Directories : walks[d] # "waiting"
  PROVE  waiters = <<>>
<1>1. waiters \in Seq(Directories) /\ Len(waiters) \in Nat
  BY LenProperties DEF ScanIInv, Queue
<1>2. \A i \in 1..Len(waiters) : waiters[i] \in Directories
  BY <1>1, ElementOfSeq
<1>3. ASSUME Len(waiters) # 0
      PROVE  FALSE
  <2>1. 1 \in 1..Len(waiters)
    BY <1>1, <1>3
  <2>2. walks[waiters[1]] = "waiting"
    BY <1>2, <2>1 DEF ScanIInv, Queue
  <2> QED BY <1>2, <2>1, <2>2
<1> QED BY <1>1, <1>3, EmptySeq

(* The woken waiter takes a slot of its own.                               *)
LEMMA ResumeKeeps ==
  ASSUME ScanIInv, NEW d \in Directories, Resume(d)
  PROVE  ScanIInv'
<1> USE TreeScanAssumption DEF Resume
<1>1. /\ walks' \in [Directories -> States] /\ walks'[d] = "reading"
      /\ \A w \in Directories \ {d} : walks'[w] = walks[w]
      /\ walks[d] = "woken"
  BY DEF ScanIInv, States
<1>2. /\ seen' \in [Directories -> SUBSET (Directories \cup Names)]
      /\ FindsItsOwn'
  BY DEF ScanIInv, FindsItsOwn, SubdirectoriesOf
<1>3. ChildrenLater'
  BY <1>1 DEF ScanIInv, ChildrenLater, SubdirectoriesOf
<1>4. SlotsAreReaders'
  <2>1. Readers' = Readers \cup {d} /\ d \notin Readers /\ Readers \subseteq Directories
    BY <1>1 DEF Readers
  <2>2. IsFiniteSet(Readers)
    BY <2>1, FS_Subset
  <2>3. Cardinality(Readers \cup {d}) = Cardinality(Readers) + 1
    BY <2>1, <2>2, FS_AddElement
  <2> QED BY <2>1, <2>3 DEF ScanIInv, SlotsAreReaders
<1>5. Queue'
  <2>1. waiters' = waiters /\ waiters \in Seq(Directories) /\ Once(waiters)
    BY DEF ScanIInv, Queue
  <2>2. \A w \in Directories : walks'[w] = "waiting" <=> walks[w] = "waiting"
    BY <1>1
  <2>3. \E w \in Directories : walks'[w] \in {"reading", "woken"}
    BY <1>1
  <2> QED BY <2>1, <2>2, <2>3 DEF ScanIInv, Queue
<1> QED BY <1>1, <1>2, <1>3, <1>4, <1>5 DEF ScanIInv

(* Steps of a read that ends later leave the queue as it was.              *)
LEMMA ReadKeeps ==
  ASSUME ScanIInv, UNCHANGED <<walks, slots, waiters>>,
         seen' \in [Directories -> SUBSET (Directories \cup Names)],
         FindsItsOwn'
  PROVE  ScanIInv'
<1>1. /\ walks' \in [Directories -> States] /\ ChildrenLater'
  BY DEF ScanIInv, ChildrenLater
<1>2. SlotsAreReaders'
  BY DEF ScanIInv, SlotsAreReaders, Readers
<1>3. Queue'
  BY DEF ScanIInv, Queue, Once
<1> QED BY <1>1, <1>2, <1>3 DEF ScanIInv

LEMMA ScanStepKeeps == ScanIInv /\ [TreeScanNext]_treeScanVars => ScanIInv'
<1> USE TreeScanAssumption
<1> SUFFICES ASSUME ScanIInv, [TreeScanNext]_treeScanVars
             PROVE  ScanIInv'
  OBVIOUS
<1>1. ASSUME NEW d \in Directories, NEW e \in Directories \cup Names, Visit(d, e)
      PROVE  ScanIInv'
  <2>1. /\ seen' = [seen EXCEPT ![d] = @ \cup {e}]
        /\ UNCHANGED <<walks, slots, waiters>>
        /\ e \in SubdirectoriesOf(d) \/ e \in FilesOf(d)
    BY <1>1 DEF Visit
  <2>2. seen' \in [Directories -> SUBSET (Directories \cup Names)]
    BY <2>1 DEF ScanIInv
  <2>3. e \in Directories => e \in SubdirectoriesOf(d)
    BY <2>1 DEF FilesOf
  <2>4. FindsItsOwn'
    <3> SUFFICES ASSUME NEW p \in Directories, NEW c \in seen'[p], c \in Directories
                 PROVE  c \in SubdirectoriesOf(p)
      BY DEF FindsItsOwn, SubdirectoriesOf
    <3>1. c \in seen[p] \/ (p = d /\ c = e)
      BY <2>1 DEF ScanIInv
    <3> QED BY <2>3, <3>1 DEF ScanIInv, FindsItsOwn
  <2> QED BY <2>1, <2>2, <2>4, ReadKeeps
<1>2. ASSUME NEW d \in Directories, NEW readable \in BOOLEAN, Stat(d, readable)
      PROVE  ScanIInv'
  <2>1. seen' = seen /\ UNCHANGED <<walks, slots, waiters>>
    BY <1>2 DEF Stat
  <2>2. FindsItsOwn' /\ seen' \in [Directories -> SUBSET (Directories \cup Names)]
    BY <2>1 DEF ScanIInv, FindsItsOwn
  <2> QED BY <2>1, <2>2, ReadKeeps
<1>3. ASSUME NEW d \in Directories, NEW failed \in BOOLEAN, NEW timeUp \in BOOLEAN,
             EndRead(d, failed, timeUp)
      PROVE  ScanIInv'
  <2> DEFINE mine == seen[d] \cap Directories
             found == SetToSeq(mine)
  <2>1. walks[d] = "reading" /\ seen' = seen
        /\ (Release(d, <<>>) \/ Release(d, found))
    BY <1>3 DEF EndRead
  <2>2. IsFiniteSet(mine) /\ mine \subseteq SubdirectoriesOf(d)
    BY FS_Subset DEF ScanIInv, FindsItsOwn
  <2>3. found \in Seq(mine) /\ Once(found)
    BY <2>2, SetToSeqIsOnce
  <2> HIDE DEF mine, found
  <2>4. found \in Seq(SubdirectoriesOf(d))
    <3>1. found \in [1..Len(found) -> mine] /\ Len(found) \in Nat
      BY <2>3, LenProperties
    <3>2. found \in [1..Len(found) -> SubdirectoriesOf(d)]
      BY <2>2, <3>1
    <3> QED BY <3>1, <3>2, SeqDef
  <2>5. <<>> \in Seq(SubdirectoriesOf(d)) /\ Once(<<>>)
    BY EmptySeq DEF Once
  <2>6. CASE Release(d, <<>>)
    BY <2>1, <2>5, <2>6, ReleaseKeeps
  <2>7. CASE Release(d, found)
    BY <2>1, <2>3, <2>4, <2>7, ReleaseKeeps
  <2> QED BY <2>1, <2>6, <2>7
<1>4. ASSUME NEW d \in Directories, Resume(d)
      PROVE  ScanIInv'
  BY <1>4, ResumeKeeps
<1>5. CASE MeasureAgain
  <2>1. waiters = <<>>
    BY <1>5, NobodyIsQueued DEF MeasureAgain
  <2>2. WalkBegins'
    BY <1>5, <2>1 DEF MeasureAgain, WalkBegins
  <2> QED BY <2>2, OneReaderAtFirst, PTL
<1>6. CASE UNCHANGED treeScanVars
  <2>1. seen' = seen /\ UNCHANGED <<walks, slots, waiters>>
    BY <1>6 DEF treeScanVars
  <2>2. FindsItsOwn' /\ seen' \in [Directories -> SUBSET (Directories \cup Names)]
    BY <2>1 DEF ScanIInv, FindsItsOwn
  <2> QED BY <2>1, <2>2, ReadKeeps
<1> QED BY <1>1, <1>2, <1>3, <1>4, <1>5, <1>6 DEF TreeScanNext, ReadStep

-----------------------------------------------------------------------------

(* A slot is held by each directory being read and by nobody else, the     *)
(* queue holds the waiting ones once each, and no directory is walked      *)
(* before its parent was read, for every tree and every interleaving of    *)
(* the concurrent reads of measureTree().                                  *)
THEOREM ScanInvariance == TreeScanSpec => []ScanIInv
<1>1. TreeScanInit => ScanIInv
  BY OneReaderAtFirst DEF TreeScanInit, WalkBegins
<1> QED BY <1>1, ScanStepKeeps, PTL DEF TreeScanSpec

(* While a directory is queued, another one is being read or was just      *)
(* woken and will release its slot: the walk cannot deadlock, whatever the *)
(* tree and the number of slots.                                           *)
THEOREM NoWaiterIsStranded == TreeScanSpec => []WaitersAreServed
<1>1. ASSUME ScanIInv
      PROVE  WaitersAreServed
  <2>1. /\ waiters \in Seq(Directories) /\ Once(waiters)
        /\ \A d \in Directories :
             walks[d] = "waiting" <=> \E i \in 1..Len(waiters) : waiters[i] = d
        /\ waiters # <<>> => \E d \in Directories : walks[d] \in {"reading", "woken"}
    BY <1>1 DEF ScanIInv, Queue
  <2>2. /\ Cardinality(ToSet(waiters)) = Len(waiters)
        /\ \A x : x \in ToSet(waiters) <=> \E i \in 1..Len(waiters) : waiters[i] = x
    BY <2>1, OnceCardinality
  <2>3. \A i \in 1..Len(waiters) : waiters[i] \in Directories
    BY <2>1, ElementOfSeq
  <2>4. ToSet(waiters) = {d \in Directories : walks[d] = "waiting"}
    BY <2>1, <2>2, <2>3
  <2> QED BY <2>1, <2>2, <2>4 DEF WaitersAreServed
<1> QED BY <1>1, ScanInvariance, PTL

-----------------------------------------------------------------------------
(* The figure                                                              *)

(* The files whose inode a walk was told.                                  *)
Asked == {n \in Names : n \in seen[Within[n]] \ looking[Within[n]]}

(* A read asks for the inode of one of its files at a time, and only a     *)
(* read does.                                                              *)
AsksForOne ==
  \A d \in Directories :
    /\ seen[d] \cap Names \subseteq FilesOf(d)
    /\ \/ looking[d] = {}
       \/ /\ walks[d] = "reading"
          /\ \E n \in FilesOf(d) \cap seen[d] : looking[d] = {n}

(* Each inode counted is charged once, and without an unreadable place the *)
(* inodes counted are those of the files asked for.                        *)
ChargedOnce ==
  /\ IsFiniteSet(counted)
  /\ allocated = Cardinality(counted)
  /\ counted \subseteq {Inode[n] : n \in Names}
  /\ ~unreadable => counted = {Inode[n] : n \in Asked}

(* A directory whose walk is over was read to its end, and the walks of    *)
(* its subdirectories were begun, unless the budget ran out or some place  *)
(* was unreadable.                                                         *)
ReadToItsEnd ==
  /\ walks[Top] # "unknown"
  /\ \A d \in Directories :
       walks[d] = "over" /\ ~stopped /\ ~unreadable =>
         /\ seen[d] = SubdirectoriesOf(d) \cup FilesOf(d)
         /\ \A c \in SubdirectoriesOf(d) : walks[c] # "unknown"

FigureTypes ==
  /\ entries \in 0..MaxEntries
  /\ looking \in [Directories -> SUBSET Names]
  /\ stopped \in BOOLEAN /\ unreadable \in BOOLEAN

FigureInv == FigureTypes /\ AsksForOne /\ ChargedOnce /\ ReadToItsEnd

(* What the release of a slot does to the walks: the one that releases it  *)
(* is over, those of the subdirectories found are begun, a read goes on,   *)
(* and nothing else ends.                                                  *)
LEMMA ReleaseStarts ==
  ASSUME ScanIInv, NEW d \in Directories, walks[d] = "reading",
         NEW found \in Seq(SubdirectoriesOf(d)), Once(found),
         Release(d, found)
  PROVE  /\ walks'[d] = "over"
         /\ \A i \in 1..Len(found) : walks'[found[i]] # "unknown"
         /\ \A w \in Directories :
              /\ walks[w] # "unknown" => walks'[w] # "unknown"
              /\ walks'[w] = "over" => w = d \/ walks[w] = "over"
              /\ walks[w] = "reading" /\ w # d => walks'[w] = "reading"
<1> DEFINE left == slots - 1
           free == IF left < Concurrency THEN Concurrency - left ELSE 0
           now == IF free < Len(found) THEN free ELSE Len(found)
           taken == SubSeq(found, 1, now)
           others == SubSeq(found, now + 1, Len(found))
           longest == IF waiters = <<>> THEN {} ELSE {Head(waiters)}
<1>1. \A w \in Directories :
        walks'[w] = CASE w = d -> "over"
                      [] w \in ToSet(taken) -> "reading"
                      [] w \in ToSet(others) -> "waiting"
                      [] w \in longest -> "woken"
                      [] OTHER -> walks[w]
  BY DEF Release
<1>2. Len(found) \in Nat /\ \A i \in 1..Len(found) : found[i] \in SubdirectoriesOf(d)
  BY LenProperties, ElementOfSeq
<1>3. now \in 0..Len(found)
  <2>1. slots \in Nat
    <3>1. IsFiniteSet(Readers)
      BY TreeScanAssumption, FS_Subset DEF Readers
    <3> QED BY <3>1, FS_CardinalityType DEF ScanIInv, SlotsAreReaders
  <2> QED BY <1>2, <2>1, TreeScanAssumption
<1> HIDE DEF now
<1>4. /\ taken \in Seq(SubdirectoriesOf(d)) /\ Once(taken) /\ Len(taken) = now
      /\ \A i \in 1..now : taken[i] = found[i]
  <2>1. 1 \in Nat \ {0} /\ now \in Nat /\ now <= Len(found) /\ 1 <= now + 1
    BY <1>2, <1>3
  <2>2. /\ taken \in Seq(SubdirectoriesOf(d)) /\ Once(taken)
        /\ Len(taken) = now - 1 + 1
        /\ \A i \in 1..now - 1 + 1 : taken[i] = found[1 + i - 1]
    BY <2>1, PieceIsOnce
  <2> QED BY <1>3, <2>2
<1>5. /\ others \in Seq(SubdirectoriesOf(d)) /\ Once(others)
      /\ Len(others) = Len(found) - now
      /\ \A i \in 1..Len(found) - now : others[i] = found[now + i]
  <2>1. now + 1 \in Nat \ {0} /\ Len(found) \in Nat /\ now + 1 <= Len(found) + 1
    BY <1>2, <1>3
  <2>2. /\ others \in Seq(SubdirectoriesOf(d)) /\ Once(others)
        /\ Len(others) = Len(found) - (now + 1) + 1
        /\ \A i \in 1..Len(found) - (now + 1) + 1 : others[i] = found[now + 1 + i - 1]
    BY <2>1, PieceIsOnce
  <2> QED BY <1>2, <1>3, <2>2
<1> HIDE DEF taken, others
<1>6. /\ \A x : x \in ToSet(taken) <=> \E i \in 1..now : taken[i] = x
      /\ \A x : x \in ToSet(others) <=> \E i \in 1..Len(found) - now : others[i] = x
  BY <1>4, <1>5, OnceCardinality
<1>7. \A x \in SubdirectoriesOf(d) : x \in Directories /\ x # d /\ walks[x] = "unknown"
  BY TreeScanAssumption DEF SubdirectoriesOf, ScanIInv, ChildrenLater
<1>8. \A w \in Directories :
        walks[w] = "reading" => w \notin ToSet(others) /\ w \notin longest
  <2> SUFFICES ASSUME NEW w \in Directories, walks[w] = "reading"
               PROVE  w \notin ToSet(others) /\ w \notin longest
    OBVIOUS
  <2>1. w \notin ToSet(others)
    <3>1. \A i \in 1..Len(found) - now : others[i] \in SubdirectoriesOf(d)
      BY <1>5, ElementOfSeq
    <3> QED BY <1>6, <1>7, <3>1
  <2>2. w \notin longest
    <3>1. SUFFICES ASSUME waiters # <<>>
                   PROVE  w # Head(waiters)
      OBVIOUS
    <3>2. waiters \in Seq(Directories) /\ Len(waiters) \in Nat /\ Len(waiters) # 0
      BY <3>1, LenProperties, EmptySeq DEF ScanIInv, Queue
    <3>3. 1 \in 1..Len(waiters) /\ Head(waiters) = waiters[1]
      BY <3>2
    <3>4. waiters[1] \in Directories
      BY <3>2, <3>3, ElementOfSeq
    <3>5. walks[waiters[1]] = "waiting"
      BY <3>3, <3>4 DEF ScanIInv, Queue
    <3> QED BY <3>3, <3>5
  <2> QED BY <2>1, <2>2
<1>9. ASSUME NEW i \in 1..Len(found)
      PROVE  walks'[found[i]] # "unknown"
  <2>1. found[i] \in Directories
    BY <1>2, <1>7
  <2>2. CASE i <= now
    <3>1. i \in 1..now /\ taken[i] = found[i]
      BY <1>3, <1>4, <2>2
    <3>2. found[i] \in ToSet(taken)
      BY <1>6, <3>1
    <3> QED BY <1>1, <2>1, <3>2
  <2>3. CASE ~(i <= now)
    <3>1. i - now \in 1..Len(found) - now /\ now + (i - now) = i
      BY <1>2, <1>3, <2>3
    <3>2. others[i - now] = found[i]
      BY <1>5, <3>1
    <3>3. found[i] \in ToSet(others)
      BY <1>6, <3>1, <3>2
    <3> QED BY <1>1, <2>1, <3>3
  <2> QED BY <2>2, <2>3
<1>10. ASSUME NEW w \in Directories
      PROVE  /\ walks[w] # "unknown" => walks'[w] # "unknown"
             /\ walks'[w] = "over" => w = d \/ walks[w] = "over"
             /\ walks[w] = "reading" /\ w # d => walks'[w] = "reading"
  <2>1. walks[w] # "unknown" => walks'[w] # "unknown"
    BY <1>1
  <2>2. walks'[w] = "over" => w = d \/ walks[w] = "over"
    BY <1>1
  <2>3. walks[w] = "reading" /\ w # d => walks'[w] = "reading"
    BY <1>1, <1>8
  <2> QED BY <2>1, <2>2, <2>3
<1>11. walks'[d] = "over"
  <2>1. d \notin ToSet(taken)
    <3>1. \A i \in 1..now : taken[i] \in SubdirectoriesOf(d)
      BY <1>4, ElementOfSeq
    <3> QED BY <1>6, <1>7, <3>1
  <2> QED BY <1>1, <1>8, <2>1
<1> QED BY <1>9, <1>10, <1>11

LEMMA BeginsExact ==
  ASSUME WalkBegins, looking = [d \in Directories |-> {}], counted = {},
         entries = 0, stopped = FALSE, unreadable = FALSE, allocated = 0
  PROVE  FigureInv
<1> USE TreeScanAssumption DEF WalkBegins
<1>1. FigureTypes
  <2>1. entries \in 0..MaxEntries
    OBVIOUS
  <2>2. looking \in [Directories -> SUBSET Names]
    OBVIOUS
  <2> QED BY <2>1, <2>2 DEF FigureTypes
<1>2. AsksForOne
  BY DEF AsksForOne
<1>3. ChargedOnce
  <2>1. IsFiniteSet({}) /\ Cardinality({}) = 0
    BY FS_EmptySet
  <2>2. Asked = {}
    BY DEF Asked
  <2> QED BY <2>1, <2>2 DEF ChargedOnce
<1>4. ReadToItsEnd
  BY DEF ReadToItsEnd
<1> QED BY <1>1, <1>2, <1>3, <1>4 DEF FigureInv

LEMMA VisitExact ==
  ASSUME ScanIInv, FigureInv, NEW d \in Directories,
         NEW e \in Directories \cup Names, Visit(d, e)
  PROVE  FigureInv'
<1> USE TreeScanAssumption DEF FigureInv
<1>1. /\ walks[d] = "reading" /\ looking[d] = {} /\ ~Exhausted
      /\ e \in SubdirectoriesOf(d) \cup FilesOf(d) /\ e \notin seen[d]
      /\ entries' = entries + 1
      /\ UNCHANGED <<walks, slots, waiters, counted, stopped, unreadable, allocated>>
  BY DEF Visit
<1>2. /\ seen' = [seen EXCEPT ![d] = seen[d] \cup {e}]
      /\ looking' = [looking EXCEPT ![d] = {e} \cap Names]
  BY DEF Visit
<1>3. /\ seen'[d] = seen[d] \cup {e} /\ looking'[d] = {e} \cap Names
      /\ \A w \in Directories \ {d} : seen'[w] = seen[w] /\ looking'[w] = looking[w]
      /\ looking' \in [Directories -> SUBSET Names]
  BY <1>2 DEF ScanIInv, FigureTypes
<1>4. FigureTypes'
  BY <1>1, <1>3 DEF FigureTypes, Exhausted
<1>5. AsksForOne'
  <2> SUFFICES ASSUME NEW w \in Directories
               PROVE  /\ seen'[w] \cap Names \subseteq FilesOf(w)
                      /\ \/ looking'[w] = {}
                         \/ /\ walks'[w] = "reading"
                            /\ \E n \in FilesOf(w) \cap seen'[w] : looking'[w] = {n}
    BY DEF AsksForOne, FilesOf
  <2>1. CASE w = d
    <3>1. e \in Names => e \in FilesOf(d)
      BY <1>1 DEF SubdirectoriesOf
    <3> QED BY <1>1, <1>3, <2>1, <3>1 DEF AsksForOne
  <2>2. CASE w # d
    BY <1>1, <1>3, <2>2 DEF AsksForOne
  <2> QED BY <2>1, <2>2
<1>6. ChargedOnce'
  <2>1. Asked' = Asked
    <3>1. ASSUME NEW n \in Names
          PROVE  n \in seen'[Within[n]] \ looking'[Within[n]] <=>
                   n \in seen[Within[n]] \ looking[Within[n]]
      <4>1. Within[n] \in Directories
        OBVIOUS
      <4> QED BY <1>1, <1>3, <4>1
    <3> QED BY <3>1 DEF Asked
  <2> QED BY <1>1, <2>1 DEF ChargedOnce
<1>7. ReadToItsEnd'
  BY <1>1, <1>3 DEF ReadToItsEnd, SubdirectoriesOf, FilesOf
<1> QED BY <1>4, <1>5, <1>6, <1>7

LEMMA StatExact ==
  ASSUME ScanIInv, FigureInv, NEW d \in Directories, NEW readable \in BOOLEAN,
         Stat(d, readable)
  PROVE  FigureInv'
<1> USE TreeScanAssumption DEF FigureInv
<1>1. /\ looking[d] # {}
      /\ looking' = [looking EXCEPT ![d] = {}]
      /\ UNCHANGED <<walks, seen, slots, waiters, entries, stopped>>
  BY DEF Stat
<1>2. /\ looking'[d] = {} /\ looking' \in [Directories -> SUBSET Names]
      /\ \A w \in Directories \ {d} : looking'[w] = looking[w]
  BY <1>1 DEF FigureTypes
<1>3. PICK n \in FilesOf(d) \cap seen[d] : looking[d] = {n}
  BY <1>1 DEF AsksForOne
<1>4. n \in Names /\ Within[n] = d
  BY <1>3 DEF FilesOf
<1>5. FigureTypes'
  BY <1>1, <1>2 DEF FigureTypes, Stat
<1>6. AsksForOne'
  BY <1>1, <1>2 DEF AsksForOne, FilesOf
<1>7. ReadToItsEnd'
  BY <1>1 DEF ReadToItsEnd, SubdirectoriesOf, FilesOf, Stat
<1>8. CASE ~readable
  BY <1>5, <1>6, <1>7, <1>8 DEF ChargedOnce, Stat
<1>9. CASE readable
  <2> DEFINE inodes == {Inode[m] : m \in looking[d]} \ counted
  <2>1. /\ counted' = counted \cup inodes
        /\ allocated' = allocated + Cardinality(inodes)
        /\ unreadable' = unreadable
    BY <1>9 DEF Stat
  <2>2. {Inode[m] : m \in looking[d]} = {Inode[n]}
    BY <1>3
  <2>3. inodes = IF Inode[n] \in counted THEN {} ELSE {Inode[n]}
    BY <2>2
  <2> HIDE DEF inodes
  <2>4. /\ IsFiniteSet(counted')
        /\ allocated' = Cardinality(counted')
    <3>1. CASE Inode[n] \in counted
      <4>1. counted' = counted /\ Cardinality(inodes) = 0
        BY <2>1, <2>3, <3>1, FS_EmptySet
      <4>2. Cardinality(counted) \in Nat
        BY FS_CardinalityType DEF ChargedOnce
      <4>3. IsFiniteSet(counted) /\ allocated = Cardinality(counted)
        BY DEF ChargedOnce
      <4>4. IsFiniteSet(counted')
        BY <4>1, <4>3
      <4>5. allocated' = allocated
        BY <2>1, <4>1, <4>2, <4>3
      <4> QED BY <4>1, <4>3, <4>4, <4>5
    <3>2. CASE Inode[n] \notin counted
      <4>1. counted' = counted \cup {Inode[n]} /\ Cardinality(inodes) = 1
        BY <2>1, <2>3, <3>2, FS_Singleton
      <4>2. IsFiniteSet(counted')
            /\ Cardinality(counted') = Cardinality(counted) + 1
        BY <3>2, <4>1, FS_AddElement DEF ChargedOnce
      <4> QED BY <2>1, <4>1, <4>2 DEF ChargedOnce
    <3> QED BY <3>1, <3>2
  <2>5. counted' = counted \cup {Inode[n]}
    BY <2>1, <2>3
  <2>6. Asked' = Asked \cup {n}
    <3>1. ASSUME NEW m \in Names
          PROVE  m \in seen'[Within[m]] \ looking'[Within[m]] <=>
                   m = n \/ m \in seen[Within[m]] \ looking[Within[m]]
      <4>1. Within[m] \in Directories
        OBVIOUS
      <4>2. CASE Within[m] = d
        BY <1>1, <1>2, <1>3, <4>2
      <4>3. CASE Within[m] # d
        BY <1>1, <1>2, <1>4, <4>1, <4>3
      <4> QED BY <4>2, <4>3
    <3> QED BY <1>4, <3>1 DEF Asked
  <2>7. ChargedOnce'
    BY <1>4, <2>1, <2>4, <2>5, <2>6 DEF ChargedOnce
  <2> QED BY <1>5, <1>6, <1>7, <2>7
<1> QED BY <1>8, <1>9

(* The end of a read: without a failure and within the budget, the whole   *)
(* directory was read, and the walks of all its subdirectories begin.      *)
LEMMA EndReadExact ==
  ASSUME ScanIInv, FigureInv, NEW d \in Directories, NEW failed \in BOOLEAN,
         NEW timeUp \in BOOLEAN, EndRead(d, failed, timeUp)
  PROVE  FigureInv'
<1> USE TreeScanAssumption DEF FigureInv
<1> DEFINE mine == seen[d] \cap Directories
           found == SetToSeq(mine)
           all == seen[d] = SubdirectoriesOf(d) \cup FilesOf(d)
           over == (Exhausted \/ timeUp) /\ (found # <<>> \/ ~(failed \/ all))
           given == IF stopped' THEN <<>> ELSE found
<1>1. /\ walks[d] = "reading" /\ looking[d] = {}
      /\ failed \/ all \/ over
      /\ unreadable' = (unreadable \/ failed)
      /\ stopped' = (stopped \/ over)
      /\ Release(d, given)
      /\ UNCHANGED <<seen, looking, counted, entries, allocated>>
  BY DEF EndRead
<1>2. IsFiniteSet(mine) /\ mine \subseteq SubdirectoriesOf(d)
  BY FS_Subset DEF ScanIInv, FindsItsOwn
<1>3. found \in Seq(mine) /\ Once(found)
  BY <1>2, SetToSeqIsOnce
<1>4. \A x \in mine : \E i \in 1..Len(found) : found[i] = x
  BY <1>2, SetToSeqIsAll
<1>5. stopped' \in BOOLEAN /\ unreadable' \in BOOLEAN
  BY <1>1 DEF FigureTypes
<1>6. ~stopped' /\ ~unreadable' => ~stopped /\ ~unreadable /\ all /\ given = found
  BY <1>1
<1> HIDE DEF mine, found, over
<1>7. given \in Seq(SubdirectoriesOf(d)) /\ Once(given)
  <2>1. CASE stopped'
    BY <2>1, EmptySeq DEF Once
  <2>2. CASE ~stopped'
    <3>1. found \in [1..Len(found) -> mine] /\ Len(found) \in Nat
      BY <1>3, LenProperties
    <3>2. found \in [1..Len(found) -> SubdirectoriesOf(d)]
      BY <1>2, <3>1
    <3>3. found \in Seq(SubdirectoriesOf(d))
      BY <3>1, <3>2, SeqDef
    <3> QED BY <1>3, <2>2, <3>3
  <2> QED BY <2>1, <2>2
<1> HIDE DEF given
<1>8. /\ walks'[d] = "over"
      /\ \A i \in 1..Len(given) : walks'[given[i]] # "unknown"
      /\ \A w \in Directories :
           /\ walks[w] # "unknown" => walks'[w] # "unknown"
           /\ walks'[w] = "over" => w = d \/ walks[w] = "over"
           /\ walks[w] = "reading" /\ w # d => walks'[w] = "reading"
  BY <1>1, <1>7, ReleaseStarts
<1>9. FigureTypes'
  BY <1>1, <1>5 DEF FigureTypes
<1>10. AsksForOne'
  BY <1>1, <1>8 DEF AsksForOne, FilesOf
<1>11. ChargedOnce'
  <2>1. Asked' = Asked
    BY <1>1 DEF Asked
  <2>2. ~unreadable' => ~unreadable
    BY <1>1
  <2> QED BY <1>1, <2>1, <2>2 DEF ChargedOnce
<1>12. ReadToItsEnd'
  <2> SUFFICES ASSUME NEW w \in Directories, walks'[w] = "over", ~stopped',
                      ~unreadable'
               PROVE  /\ seen[w] = SubdirectoriesOf(w) \cup FilesOf(w)
                      /\ \A c \in SubdirectoriesOf(w) : walks'[c] # "unknown"
    BY <1>1, <1>8 DEF ReadToItsEnd, SubdirectoriesOf, FilesOf
  <2>1. CASE w = d
    <3>1. seen[d] = SubdirectoriesOf(d) \cup FilesOf(d)
      BY <1>6
    <3>2. ASSUME NEW c \in SubdirectoriesOf(d)
          PROVE  walks'[c] # "unknown"
      <4>1. c \in mine
        BY <3>1 DEF mine, SubdirectoriesOf
      <4> QED BY <1>4, <1>6, <1>8, <4>1
    <3> QED BY <2>1, <3>1, <3>2
  <2>2. CASE w # d
    <3>1. walks[w] = "over" /\ ~stopped /\ ~unreadable
      BY <1>6, <1>8, <2>2
    <3> QED BY <1>8, <3>1 DEF ReadToItsEnd, SubdirectoriesOf
  <2> QED BY <2>1, <2>2
<1> QED BY <1>9, <1>10, <1>11, <1>12

LEMMA FigureStep ==
  ScanIInv /\ FigureInv /\ [TreeScanNext]_treeScanVars => FigureInv'
<1> SUFFICES ASSUME ScanIInv, FigureInv, [TreeScanNext]_treeScanVars
             PROVE  FigureInv'
  OBVIOUS
<1>1. ASSUME NEW d \in Directories, ReadStep(d)
      PROVE  FigureInv'
  BY <1>1, VisitExact, StatExact, EndReadExact DEF ReadStep
<1>2. ASSUME NEW d \in Directories, Resume(d)
      PROVE  FigureInv'
  <2>1. /\ walks[d] = "woken"
        /\ \A w \in Directories :
             walks'[w] = IF w = d THEN "reading" ELSE walks[w]
        /\ UNCHANGED <<seen, looking, waiters, counted, entries, stopped,
                       unreadable, allocated>>
    BY <1>2 DEF Resume, ScanIInv
  <2>2. AsksForOne'
    BY <2>1 DEF FigureInv, AsksForOne, FilesOf
  <2>3. ReadToItsEnd'
    BY <2>1, TreeScanAssumption
       DEF FigureInv, ReadToItsEnd, SubdirectoriesOf, FilesOf
  <2>4. Asked' = Asked
    BY <2>1 DEF Asked
  <2>5. ChargedOnce'
    BY <2>1, <2>4 DEF FigureInv, ChargedOnce
  <2>6. FigureTypes'
    BY <2>1 DEF FigureInv, FigureTypes
  <2> QED BY <2>2, <2>3, <2>5, <2>6 DEF FigureInv
<1>3. CASE MeasureAgain
  <2>1. waiters = <<>>
    BY <1>3, NobodyIsQueued DEF MeasureAgain
  <2>2. looking = [d \in Directories |-> {}]
    <3>1. \A d \in Directories : looking[d] = {}
      BY <1>3 DEF MeasureAgain, FigureInv, AsksForOne
    <3> QED BY <3>1 DEF FigureInv, FigureTypes
  <2>3. /\ WalkBegins' /\ (looking = [d \in Directories |-> {}])'
        /\ (counted = {})' /\ (entries = 0)' /\ (stopped = FALSE)'
        /\ (unreadable = FALSE)' /\ (allocated = 0)'
    BY <1>3, <2>1, <2>2 DEF MeasureAgain, WalkBegins
  <2> QED BY <2>3, BeginsExact, PTL
<1>4. CASE UNCHANGED treeScanVars
  <2>1. Asked' = Asked
    BY <1>4 DEF treeScanVars, Asked
  <2> QED
    BY <1>4, <2>1 DEF treeScanVars, FigureInv, FigureTypes, AsksForOne,
                      ChargedOnce, ReadToItsEnd, SubdirectoriesOf, FilesOf
<1> QED BY <1>1, <1>2, <1>3, <1>4 DEF TreeScanNext

LEMMA FigureInvariance == TreeScanSpec => []FigureInv
<1>1. TreeScanInit => FigureInv
  BY BeginsExact DEF TreeScanInit, WalkBegins
<1> QED BY <1>1, ScanInvariance, FigureStep, PTL DEF TreeScanSpec

(* Every state of a walk is well typed: the semaphore's count and the      *)
(* figure never go below zero, and the entries never pass their limit.     *)
THEOREM ScanTypeCorrectness == TreeScanSpec => []TreeScanTypeOK
<1>1. ScanIInv /\ FigureInv => TreeScanTypeOK
  <2> SUFFICES ASSUME ScanIInv, FigureInv PROVE TreeScanTypeOK
    OBVIOUS
  <2>1. slots \in Nat
    <3>1. IsFiniteSet(Readers)
      BY TreeScanAssumption, FS_Subset DEF Readers
    <3> QED BY <3>1, FS_CardinalityType DEF ScanIInv, SlotsAreReaders
  <2>2. allocated \in Nat
    BY FS_CardinalityType DEF FigureInv, ChargedOnce
  <2> QED
    BY <2>1, <2>2 DEF ScanIInv, States, Queue, FigureInv, FigureTypes,
                      ChargedOnce, TreeScanTypeOK
<1> QED BY <1>1, ScanInvariance, FigureInvariance, PTL

(* A walk that met neither its budget nor an unreadable place reports each *)
(* inode of the tree once, for every tree, however its names are linked    *)
(* and in whatever order its directories are read.                         *)
THEOREM FigureOfTheTree == TreeScanSpec => []FigureIsExact
<1>1. FigureInv => FigureIsExact
  <2> SUFFICES ASSUME FigureInv, ~stopped, ~unreadable,
                      \A d \in Directories : walks[d] \in {"over", "unknown"}
               PROVE  allocated = Cardinality({Inode[n] : n \in Names})
    BY DEF FigureIsExact
  <2> DEFINE S == {d \in Directories : walks[d] = "over"}
  <2>1. Top \in S
    BY TreeScanAssumption DEF FigureInv, ReadToItsEnd
  <2>2. ASSUME NEW d \in Directories \ {Top}, Parent[d] \in S
        PROVE  d \in S
    <3>1. Parent[d] \in Directories /\ d \in SubdirectoriesOf(Parent[d])
      BY TreeScanAssumption DEF SubdirectoriesOf
    <3> QED BY <2>2, <3>1 DEF FigureInv, ReadToItsEnd
  <2>3. S = Directories
    <3>1. S \in SUBSET Directories
      OBVIOUS
    <3> HIDE DEF S
    <3> QED BY <2>1, <2>2, <3>1, TreeScanAssumption
  <2>4. Asked = Names
    <3> SUFFICES ASSUME NEW n \in Names
                 PROVE  n \in seen[Within[n]] \ looking[Within[n]]
      BY DEF Asked
    <3>1. Within[n] \in Directories /\ n \in FilesOf(Within[n])
      BY TreeScanAssumption DEF FilesOf
    <3>2. seen[Within[n]] = SubdirectoriesOf(Within[n]) \cup FilesOf(Within[n])
      BY <2>3, <3>1 DEF FigureInv, ReadToItsEnd
    <3>3. looking[Within[n]] = {}
      BY <2>3, <3>1 DEF FigureInv, AsksForOne
    <3> QED BY <3>1, <3>2, <3>3
  <2> QED BY <2>4 DEF FigureInv, ChargedOnce
<1> QED BY <1>1, FigureInvariance, PTL
=============================================================================
