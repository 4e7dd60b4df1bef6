---------------------------- MODULE Gtrs_proofs ----------------------------
(***************************************************************************)
(* Theorems about module Gtrs, for every set of transactions and every     *)
(* setting of the configuration flags.                                     *)
(***************************************************************************)
EXTENDS Gtrs, SumLemmas, TLAPS

(***************************************************************************)
(* The inductive invariant.                                                *)
(***************************************************************************)

\* The counters bound what was handed out, and no number was handed out twice.
NumbersInv ==
  /\ maxtrxnum <= committrxnum
  /\ \A t \in Trx : num[t] <= committrxnum
  /\ \A t \in Trx : level[t] <= maxtrxnum
  /\ NumbersUnique

\* How far a commit is tells what the transaction is and whether it has its
\* number.  Without one at the end, touching a table implies the delayed flag.
StagesInv ==
  \A t \in Trx :
    /\ commitst[t] \in {"init", "level"} \/ state[t] = "new" => num[t] = NULL
    /\ commitst[t] = "validate" => state[t] = "validate"
    /\ commitst[t] = "end" => state[t] \in {"begin", "validate"}
    /\ commitst[t] = "end" /\ state[t] = "begin" /\ dtable[t]
         => delayed[t] /\ num[t] = NULL

\* Every number in the validate list is still to become visible, and who
\* validates is in the list.
ListInv ==
  /\ \A i \in DOMAIN validatetrxlist : num[validatetrxlist[i]] > maxtrxnum
  /\ ValidatesSorted
  /\ \A t \in Trx : state[t] = "validate" => In(t, validatetrxlist)

LevelsInv == LevelTypes /\ NumbersInv /\ StagesInv /\ ListInv
-----------------------------------------------------------------------------
(***************************************************************************)
(* Lists                                                                   *)
(***************************************************************************)

\* What removing the first n entries of a list leaves.
LEMMA DropProperties ==
  ASSUME NEW S, NEW s \in Seq(S), NEW n \in 0..Len(s)
  PROVE  /\ Drop(s, n) \in Seq(S)
         /\ Len(Drop(s, n)) = Len(s) - n
         /\ \A i \in 1..(Len(s) - n) : Drop(s, n)[i] = s[i + n]
         /\ \A i \in (n + 1)..Len(s) : s[i] = Drop(s, n)[i - n]
<1>1. Len(s) \in Nat /\ \A i \in 1..Len(s) : s[i] \in S
  OBVIOUS
<1>2. \A i \in 1..(Len(s) - n) : i + n \in 1..Len(s)
  BY <1>1
<1>3. Len(s) - n \in Nat
  BY <1>1
<1>4. Drop(s, n) \in [1..(Len(s) - n) -> S]
  BY <1>1, <1>2 DEF Drop
<1>5. Drop(s, n) \in Seq(S) /\ Len(Drop(s, n)) = Len(s) - n
  BY <1>3, <1>4
<1>6. \A i \in 1..(Len(s) - n) : Drop(s, n)[i] = s[i + n]
  BY DEF Drop
<1>7. \A i \in (n + 1)..Len(s) : s[i] = Drop(s, n)[i - n]
  BY <1>1 DEF Drop
<1> QED
  BY <1>5, <1>6, <1>7

\* What removing entry i of a list leaves.
LEMMA RemoveProperties ==
  ASSUME NEW S, NEW s \in Seq(S), NEW i \in 1..Len(s)
  PROVE  /\ Remove(s, i) \in Seq(S)
         /\ Len(Remove(s, i)) = Len(s) - 1
<1>1. Len(s) \in Nat /\ \A j \in 1..Len(s) : s[j] \in S
  OBVIOUS
<1>2. Len(s) - 1 \in Nat
  BY <1>1
<1>3. Remove(s, i) \in [1..(Len(s) - 1) -> S]
  BY <1>1 DEF Remove
<1> QED
  BY <1>2, <1>3

\* The read levels without that of one transaction are still a list of them.
LEMMA LevelsWithoutType ==
  ASSUME readlevellist \in Seq(Trx), NEW t
  PROVE  LevelsWithout(t) \in Seq(Trx)
<1>1. CASE In(t, readlevellist)
  <2> DEFINE i == CHOOSE j \in DOMAIN readlevellist : readlevellist[j] = t
  <2>1. i \in 1..Len(readlevellist)
    BY <1>1 DEF In
  <2>2. Remove(readlevellist, i) \in Seq(Trx)
    BY <2>1, RemoveProperties
  <2> QED
    BY <1>1, <2>2 DEF LevelsWithout
<1>2. CASE ~In(t, readlevellist)
  BY <1>2 DEF LevelsWithout
<1> QED
  BY <1>1, <1>2
-----------------------------------------------------------------------------
(***************************************************************************)
(* The end of a transaction                                                *)
(***************************************************************************)

\* The read levels after dbe_gtrs_endtrx: that of t and m released ones went.
LEMMA EndTrxReadLevels ==
  ASSUME NEW t \in Trx, NEW committed \in BOOLEAN, EndTrx(t, committed),
         LevelsWithout(t) \in Seq(Trx)
  PROVE  \E m \in 0..Len(LevelsWithout(t)) :
           /\ readlevellist' = Drop(LevelsWithout(t), m)
           /\ level' = [u \in Trx |->
                          IF \/ u = t /\ In(t, readlevellist)
                             \/ \E i \in 1..m : LevelsWithout(t)[i] = u
                            THEN NULL ELSE level[u]]
<1> DEFINE counts == IF committed /\ writes[t]
                       THEN ReleaseCounts(LevelsWithout(t)) ELSE {0}
<1>1. PICK m \in counts :
        /\ readlevellist' = Drop(LevelsWithout(t), m)
        /\ level' = [u \in Trx |->
                       IF \/ u = t /\ In(t, readlevellist)
                          \/ \E i \in 1..m : LevelsWithout(t)[i] = u
                         THEN NULL ELSE level[u]]
  BY Zenon DEF EndTrx
<1>2. counts \subseteq 0..Len(LevelsWithout(t))
  BY DEF ReleaseCounts
<1> QED
  BY <1>1, <1>2

\* dbe_gtrs_endtrx keeps the types of everything but the waiting writes.
LEMMA EndTrxTypes ==
  ASSUME LevelTypes, NEW t \in Trx, NEW committed \in BOOLEAN,
         EndTrx(t, committed)
  PROVE  /\ state' \in [Trx -> States]
         /\ level' \in [Trx -> Nat] /\ num' \in [Trx -> Nat]
         /\ validatetrxlist' \in Seq(Trx) /\ readlevellist' \in Seq(Trx)
         /\ committrxnum' \in Nat /\ maxtrxnum' \in Nat /\ mergetrxnum' \in Nat
<1> USE DEF LevelTypes
<1>1. /\ state' \in [Trx -> States] /\ num' \in [Trx -> Nat]
      /\ committrxnum' \in Nat
  BY DEF EndTrx, States
<1>2. Validating(t) \in Seq(Trx)
  BY DEF Validating
<1>3. PICK n \in 0..Len(Validating(t)) :
        /\ validatetrxlist' = Drop(Validating(t), n)
        /\ maxtrxnum' =
             IF n > 0 THEN Raise(maxtrxnum, num'[Validating(t)[n]])
             ELSE IF committed /\ num'[t] # NULL /\ Validating(t) = << >>
                    THEN Raise(maxtrxnum, num'[t])
             ELSE maxtrxnum
  BY DEF EndTrx
<1>4. validatetrxlist' \in Seq(Trx)
  BY <1>2, <1>3, DropProperties
<1>5. n > 0 => Validating(t)[n] \in Trx
  BY <1>2
<1>6. maxtrxnum' \in Nat
  BY <1>1, <1>3, <1>5 DEF Raise
<1>7. LevelsWithout(t) \in Seq(Trx)
  BY LevelsWithoutType
<1>8. PICK m \in 0..Len(LevelsWithout(t)) :
        /\ readlevellist' = Drop(LevelsWithout(t), m)
        /\ level' = [u \in Trx |->
                       IF \/ u = t /\ In(t, readlevellist)
                          \/ \E i \in 1..m : LevelsWithout(t)[i] = u
                         THEN NULL ELSE level[u]]
  BY <1>7, EndTrxReadLevels
<1>9. readlevellist' \in Seq(Trx)
  BY <1>7, <1>8, DropProperties
<1>10. level' \in [Trx -> Nat]
  BY <1>8 DEF NULL
<1>11. readlevellist' # << >> => readlevellist'[1] \in Trx
  BY <1>9
<1>12. MergeLevel(readlevellist', maxtrxnum') \in Nat
  BY <1>6, <1>11 DEF MergeLevel
<1>13. mergetrxnum' \in Nat
  BY <1>12 DEF EndTrx, Raise
<1> QED
  BY <1>1, <1>4, <1>6, <1>9, <1>10, <1>13

\* The numbers and the validate list after dbe_gtrs_endtrx.
LEMMA EndTrxNumbers ==
  ASSUME LevelTypes, NumbersInv, ListInv,
         NEW t \in Trx, NEW committed \in BOOLEAN, EndTrx(t, committed)
  PROVE  NumbersInv' /\ ListInv' /\ maxtrxnum <= maxtrxnum'
<1> DEFINE V == Validating(t)
<1> USE DEF NULL
<1>0. /\ num \in [Trx -> Nat] /\ committrxnum \in Nat /\ maxtrxnum \in Nat
      /\ validatetrxlist \in Seq(Trx) /\ level \in [Trx -> Nat]
  BY DEF LevelTypes
<1>1. /\ num' \in [Trx -> Nat] /\ committrxnum' \in Nat /\ maxtrxnum' \in Nat
      /\ validatetrxlist' \in Seq(Trx) /\ level' \in [Trx -> Nat]
      /\ state' \in [Trx -> States]
  BY EndTrxTypes
<1>2. /\ \A u \in Trx \ {t} : num'[u] = num[u]
      /\ num[t] # NULL => num'[t] = num[t]
      /\ num'[t] \in {num[t], committrxnum'}
      /\ num'[t] # num[t] => committrxnum' = committrxnum + 1
      /\ committrxnum <= committrxnum'
  <2>1. /\ num' = IF TakesNumber(t, committed)
                    THEN [num EXCEPT ![t] = committrxnum + 1] ELSE num
        /\ committrxnum' = IF TakesNumber(t, committed) THEN committrxnum + 1
                                                        ELSE committrxnum
    BY DEF EndTrx
  <2>2. TakesNumber(t, committed) => num[t] = NULL
    BY DEF TakesNumber
  <2> QED
    BY <2>1, <2>2, <1>0
<1>3. \A u \in Trx : num'[u] <= committrxnum'
  <2> TAKE u \in Trx
  <2>1. num[u] <= committrxnum
    BY DEF NumbersInv
  <2>2. CASE u = t
    BY <2>1, <2>2, <1>0, <1>1, <1>2
  <2>3. CASE u # t
    <3>1. num'[u] = num[u]
      BY <2>3, <1>2
    <3> QED
      BY <2>1, <3>1, <1>0, <1>1, <1>2
  <2> QED
    BY <2>2, <2>3
<1>4. NumbersUnique'
  <2> SUFFICES ASSUME NEW u \in Trx, NEW w \in Trx, u # w, num'[u] # NULL
               PROVE  num'[u] # num'[w]
    BY DEF NumbersUnique
  <2>1. /\ num[u] <= committrxnum /\ num[w] <= committrxnum
        /\ num[u] # NULL => num[u] # num[w]
        /\ num[w] # NULL => num[u] # num[w]
    BY DEF NumbersInv, NumbersUnique
  <2>2. /\ num[u] \in Nat /\ num[w] \in Nat /\ num[t] \in Nat
        /\ num'[u] \in Nat /\ num'[w] \in Nat /\ num'[t] \in Nat
    BY <1>0, <1>1
  <2>3. CASE num'[t] = num[t]
    <3>1. num'[u] = num[u] /\ num'[w] = num[w]
      BY <2>3, <1>2
    <3> QED
      BY <2>1, <3>1
  <2>4. CASE num'[t] # num[t]
    <3>1. num'[t] = committrxnum + 1
      BY <2>4, <1>2
    <3>2. /\ u = t \/ num'[u] = num[u]
          /\ w = t \/ num'[w] = num[w]
      BY <1>2
    <3> QED
      BY <3>1, <3>2, <2>1, <2>2, <1>0
  <2> QED
    BY <2>3, <2>4
<1>5. V \in Seq(Trx)
  BY <1>0 DEF Validating
<1>6. \/ V = validatetrxlist
      \/ /\ Len(V) = Len(validatetrxlist) + 1
         /\ \A i \in 1..Len(validatetrxlist) : V[i] = validatetrxlist[i]
         /\ V[Len(V)] = t /\ num'[t] = committrxnum + 1
  <2>1. CASE delayed[t] /\ num[t] = NULL
    <3>1. num' = [num EXCEPT ![t] = committrxnum + 1]
      BY <2>1 DEF EndTrx, TakesNumber
    <3>2. V = Append(validatetrxlist, t)
      BY <2>1 DEF Validating
    <3> QED
      BY <3>1, <3>2, <1>0
  <2>2. CASE ~(delayed[t] /\ num[t] = NULL)
    BY <2>2 DEF Validating
  <2> QED
    BY <2>1, <2>2
<1>7. \A i \in 1..Len(validatetrxlist) :
        /\ validatetrxlist[i] \in Trx
        /\ num'[validatetrxlist[i]] = num[validatetrxlist[i]]
        /\ num[validatetrxlist[i]] > maxtrxnum
  BY <1>0, <1>2 DEF ListInv
<1>8. /\ \A i \in 1..Len(V) : num'[V[i]] > maxtrxnum
      /\ \A i, j \in 1..Len(V) : i < j => num'[V[i]] < num'[V[j]]
  <2>1. CASE V = validatetrxlist
    BY <2>1, <1>7 DEF ListInv, ValidatesSorted
  <2>2. CASE V # validatetrxlist
    <3>1. \A i \in 1..Len(validatetrxlist) :
            /\ num'[V[i]] = num[validatetrxlist[i]]
            /\ num[validatetrxlist[i]] <= committrxnum
      BY <2>2, <1>6, <1>7 DEF NumbersInv
    <3>2. num'[V[Len(V)]] = committrxnum + 1 /\ committrxnum >= maxtrxnum
      BY <2>2, <1>6 DEF NumbersInv
    <3>3. \A i \in 1..Len(V) : i \in 1..Len(validatetrxlist) \/ i = Len(V)
      BY <2>2, <1>6
    <3>4. ASSUME NEW i \in 1..Len(V)
          PROVE  num'[V[i]] > maxtrxnum
      <4>1. CASE i \in 1..Len(validatetrxlist)
        <5>1. num'[V[i]] = num[validatetrxlist[i]]
          BY <4>1, <3>1
        <5> QED
          BY <4>1, <5>1, <1>7
      <4>2. CASE i = Len(V)
        BY <4>2, <3>2, <1>0
      <4> QED
        BY <4>1, <4>2, <3>3
    <3>5. ASSUME NEW i \in 1..Len(V), NEW j \in 1..Len(V), i < j
          PROVE  num'[V[i]] < num'[V[j]]
      <4>1. i \in 1..Len(validatetrxlist)
        BY <2>2, <3>5, <1>6
      <4>2. CASE j = Len(V)
        <5>1. /\ num'[V[i]] = num[validatetrxlist[i]]
              /\ num[validatetrxlist[i]] <= committrxnum
              /\ num[validatetrxlist[i]] \in Nat
          BY <4>1, <3>1, <1>7, <1>0
        <5> QED
          BY <4>2, <5>1, <3>2, <1>0
      <4>3. CASE j \in 1..Len(validatetrxlist)
        BY <4>1, <4>3, <3>1, <3>5 DEF ListInv, ValidatesSorted
      <4> QED
        BY <4>2, <4>3, <3>3
    <3> QED
      BY <3>4, <3>5
  <2> QED
    BY <2>1, <2>2
<1>9. PICK n \in 0..Len(V) :
        /\ IsPrefix(n, V, {u \in Trx : Ended(state'[u])})
        /\ validatetrxlist' = Drop(V, n)
        /\ maxtrxnum' = IF n > 0 THEN Raise(maxtrxnum, num'[V[n]])
                        ELSE IF committed /\ num'[t] # NULL /\ V = << >>
                               THEN Raise(maxtrxnum, num'[t])
                        ELSE maxtrxnum
  BY DEF EndTrx
<1>10. /\ Len(validatetrxlist') = Len(V) - n
       /\ \A i \in 1..(Len(V) - n) : validatetrxlist'[i] = V[i + n]
       /\ \A i \in (n + 1)..Len(V) : V[i] = validatetrxlist'[i - n]
  BY <1>5, <1>9, DropProperties
<1>11. \A i \in 1..Len(V) : V[i] \in Trx
  BY <1>5
<1>12. DOMAIN validatetrxlist' = 1..(Len(V) - n)
  <2>1. validatetrxlist' \in Seq(Trx)
    BY <1>1
  <2>2. DOMAIN validatetrxlist' = 1..Len(validatetrxlist')
    BY <2>1
  <2> QED
    BY <2>2, <1>10
<1>13. /\ maxtrxnum <= maxtrxnum' /\ maxtrxnum' <= committrxnum'
       /\ n > 0 => maxtrxnum' = num'[V[n]]
       /\ n = 0 /\ V # << >> => maxtrxnum' = maxtrxnum
  <2>1. maxtrxnum <= committrxnum'
    BY <1>0, <1>1, <1>2 DEF NumbersInv
  <2>2. CASE n > 0
    <3>1. n \in 1..Len(V)
      BY <2>2
    <3>2. num'[V[n]] > maxtrxnum /\ V[n] \in Trx
      BY <3>1, <1>8, <1>11
    <3>3. maxtrxnum' = num'[V[n]]
      BY <2>2, <3>2, <1>9, <1>1 DEF Raise
    <3>4. num'[V[n]] <= committrxnum' /\ num'[V[n]] \in Nat
      BY <3>2, <1>1, <1>3
    <3> QED
      BY <2>2, <3>2, <3>3, <3>4, <1>0
  <2>3. CASE n = 0
    <3>1. maxtrxnum' = IF committed /\ num'[t] # NULL /\ V = << >>
                         THEN Raise(maxtrxnum, num'[t]) ELSE maxtrxnum
      BY <2>3, <1>9
    <3>2. num'[t] <= committrxnum' /\ num'[t] \in Nat
      BY <1>1, <1>3
    <3> QED
      BY <2>1, <2>3, <3>1, <3>2, <1>0, <1>1 DEF Raise
  <2> QED
    BY <2>2, <2>3
<1>14. \A i \in DOMAIN validatetrxlist' : num'[validatetrxlist'[i]] > maxtrxnum'
  <2> TAKE i \in DOMAIN validatetrxlist'
  <2>1. i \in 1..(Len(V) - n) /\ i + n \in 1..Len(V) /\ V # << >>
    <3>1. i \in 1..(Len(V) - n)
      BY <1>12
    <3> QED
      BY <3>1, <1>5
  <2>2. validatetrxlist'[i] = V[i + n] /\ V[i + n] \in Trx
    BY <2>1, <1>10, <1>11
  <2>3. CASE n > 0
    BY <2>1, <2>2, <2>3, <1>8, <1>13
  <2>4. CASE n = 0
    BY <2>1, <2>2, <2>4, <1>8, <1>13
  <2> QED
    BY <2>3, <2>4
<1>15. ValidatesSorted'
  <2> SUFFICES ASSUME NEW i \in DOMAIN validatetrxlist',
                      NEW j \in DOMAIN validatetrxlist', i < j
               PROVE  num'[validatetrxlist'[i]] < num'[validatetrxlist'[j]]
    BY DEF ValidatesSorted
  <2>1. /\ i \in 1..(Len(V) - n) /\ i + n \in 1..Len(V)
        /\ j \in 1..(Len(V) - n) /\ j + n \in 1..Len(V) /\ i + n < j + n
    <3>1. i \in 1..(Len(V) - n) /\ j \in 1..(Len(V) - n)
      BY <1>12
    <3> QED
      BY <3>1, <1>5
  <2> QED
    BY <2>1, <1>8, <1>10
<1>16. \A u \in Trx : state'[u] = "validate" => In(u, validatetrxlist')
  <2> SUFFICES ASSUME NEW u \in Trx, state'[u] = "validate"
               PROVE  In(u, validatetrxlist')
    OBVIOUS
  <2>1. u # t /\ state[u] = "validate"
    <3>1. state' = [state EXCEPT ![t] = IF committed THEN "commit" ELSE "abort"]
      BY DEF EndTrx
    <3> QED
      BY <3>1 DEF LevelTypes
  <2>2. PICK k \in 1..Len(validatetrxlist) : validatetrxlist[k] = u
    BY <2>1 DEF ListInv, In
  <2>3. k \in 1..Len(V) /\ V[k] = u
    BY <2>2, <1>6
  <2>4. ~Ended(state'[u])
    BY DEF Ended
  <2>5. k \notin 1..n
    BY <2>3, <2>4, <1>9 DEF IsPrefix
  <2>6. k \in (n + 1)..Len(V)
    BY <2>3, <2>5
  <2>7. validatetrxlist'[k - n] = u
    BY <2>3, <2>6, <1>10
  <2>8. k - n \in 1..(Len(V) - n)
    BY <2>6, <1>5
  <2>9. k - n \in DOMAIN validatetrxlist'
    BY <2>8, <1>12
  <2> QED
    BY <2>7, <2>9 DEF In
<1>17. \A u \in Trx : level'[u] <= maxtrxnum'
  <2> TAKE u \in Trx
  <2>1. LevelsWithout(t) \in Seq(Trx)
    BY LevelsWithoutType DEF LevelTypes
  <2>2. level'[u] = NULL \/ level'[u] = level[u]
    BY <2>1, EndTrxReadLevels
  <2>3. level[u] <= maxtrxnum /\ level[u] \in Nat
    BY <1>0 DEF NumbersInv
  <2>4. maxtrxnum <= maxtrxnum' /\ maxtrxnum \in Nat /\ maxtrxnum' \in Nat
    BY <1>0, <1>1, <1>13
  <2>5. level'[u] <= level[u]
    BY <2>2, <2>3 DEF NULL
  <2>6. level'[u] \in Nat
    BY <2>2, <2>3 DEF NULL
  <2> QED
    BY <2>3, <2>4, <2>5, <2>6
<1> QED
  BY <1>3, <1>4, <1>13, <1>14, <1>15, <1>16, <1>17 DEF NumbersInv, ListInv
-----------------------------------------------------------------------------
(***************************************************************************)
(* Every step keeps the invariant                                          *)
(***************************************************************************)

LEMMA TypesStep ==
  ASSUME LevelTypes, [Next]_vars
  PROVE  LevelTypes'
<1> USE DEF LevelTypes, States, CommitSts
<1>1. ASSUME NEW t \in Trx, Statement(t)
      PROVE  LevelTypes'
  <2>1. CASE Begin(t)
    BY <2>1 DEF Begin, session, merging, lists, counters, storage
  <2>2. CASE BeginReadLevel(t)
    BY <2>2 DEF BeginReadLevel, session, merging, lists, counters, storage
  <2>3. CASE BeginAddReadLevel(t)
    <3>1. readlevellist' \in Seq(Trx)
      BY <2>3 DEF BeginAddReadLevel, AddReadLevel
    <3> QED
      BY <2>3, <3>1 DEF BeginAddReadLevel, merging, counters, storage
  <2>4. CASE TouchTable(t)
    <3>1. readlevellist' \in Seq(Trx)
      <4>1. CASE level[t] = NULL
        <5>1. AddReadLevel(t)
          BY <2>4, <4>1 DEF TouchTable
        <5> QED
          BY <5>1 DEF AddReadLevel
      <4>2. CASE level[t] # NULL
        <5>1. readlevellist' = readlevellist
          BY <2>4, <4>2 DEF TouchTable
        <5> QED
          BY <5>1
      <4> QED
        BY <4>1, <4>2
    <3>2. level' \in [Trx -> Nat]
      BY <2>4 DEF TouchTable
    <3>3. /\ storageonly' \in [Trx -> {"no", "asking", "yes"}]
          /\ dtable' \in [Trx -> BOOLEAN]
      BY <2>4 DEF TouchTable
    <3> QED
      BY <2>4, <3>1, <3>2, <3>3 DEF TouchTable, merging, counters, storage
  <2>5. CASE AskStorageTree(t)
    BY <2>5 DEF AskStorageTree, merging, lists, counters, storage
  <2>6. CASE MarkWrite(t)
    BY <2>6 DEF MarkWrite, merging, lists, counters, storage
  <2>7. CASE Write(t)
    BY <2>7 DEF Write, merging, lists, counters, storage
  <2>8. CASE Fail(t)
    BY <2>8 DEF Fail, merging, lists, counters, storage
  <2>9. CASE StmtRollback(t)
    BY <2>9 DEF StmtRollback, merging, lists, counters, storage
  <2>10. CASE SetCanRemoveReadLevel(t)
    BY <2>10 DEF SetCanRemoveReadLevel, session, merging, lists, counters, storage
  <2>11. CASE Restart(t)
    BY <2>11 DEF Restart, session, merging, lists, counters, storage
  <2> QED
    BY <1>1, <2>1, <2>2, <2>3, <2>4, <2>5, <2>6, <2>7, <2>8, <2>9, <2>10,
       <2>11 DEF Statement
<1>2. ASSUME NEW t \in Trx, StartCommit(t)
      PROVE  LevelTypes'
  <2>1. CASE CommitNoTable(t)
    BY <2>1 DEF CommitNoTable, session, merging, lists, storage
  <2>2. CASE CommitValidate(t)
    BY <2>2 DEF CommitValidate, session, merging, storage
  <2>3. CASE CommitDelayed(t)
    BY <2>3 DEF CommitDelayed, merging, lists, counters, storage
  <2> QED
    BY <1>2, <2>1, <2>2, <2>3 DEF StartCommit
<1>3. ASSUME NEW t \in Trx, NEW ok \in BOOLEAN, EndTrx(t, ok), EndSession(t, ok),
             commitst' = [commitst EXCEPT ![t] = "done"]
             \/ commitst' = [commitst EXCEPT ![t] = "waitreadlevel"]
      PROVE  LevelTypes'
  <2>1. /\ state' \in [Trx -> States]
        /\ level' \in [Trx -> Nat] /\ num' \in [Trx -> Nat]
        /\ validatetrxlist' \in Seq(Trx) /\ readlevellist' \in Seq(Trx)
        /\ committrxnum' \in Nat /\ maxtrxnum' \in Nat /\ mergetrxnum' \in Nat
    BY <1>3, EndTrxTypes
  <2>2. UNCHANGED <<activemergetrxnum, storagetrxnum, instorage, canremove>>
    BY <1>3 DEF EndTrx, storage
  <2>3. /\ writes' \in [Trx -> BOOLEAN] /\ dtable' \in [Trx -> BOOLEAN]
        /\ checks' \in [Trx -> BOOLEAN] /\ delayed' \in [Trx -> BOOLEAN]
        /\ failed' \in [Trx -> BOOLEAN] /\ mergewrites' \in [Trx -> Nat]
        /\ storageonly' \in [Trx -> {"no", "asking", "yes"}]
    BY <1>3 DEF EndSession
  <2>4. commitst' \in [Trx -> CommitSts]
    BY <1>3
  <2> QED
    BY <2>1, <2>2, <2>3, <2>4
<1>4. ASSUME NEW t \in Trx, FinishCommit(t)
      PROVE  LevelTypes'
  <2>1. CASE Validate(t)
    <3>1. failed' \in [Trx -> BOOLEAN]
      BY <2>1 DEF Validate
    <3> QED
      BY <2>1, <3>1 DEF Validate, merging, lists, counters, storage
  <2>2. CASE EndCommit(t)
    <3>1. PICK ok \in BOOLEAN, c \in {"done", "waitreadlevel"} :
            /\ EndTrx(t, ok) /\ EndSession(t, ok)
            /\ commitst' = [commitst EXCEPT ![t] = c]
      BY <2>2 DEF EndCommit
    <3> QED
      BY <3>1, <1>3
  <2>3. CASE WaitReadLevel(t)
    BY <2>3 DEF WaitReadLevel, session, merging, lists, counters, storage
  <2> QED
    BY <1>4, <2>1, <2>2, <2>3 DEF FinishCommit
<1>5. ASSUME NEW t \in Trx, EndNow(t)
      PROVE  LevelTypes'
  <2>1. CASE CommitReadOnly(t)
    BY <2>1, <1>3 DEF CommitReadOnly
  <2>2. CASE Rollback(t)
    BY <2>2, <1>3 DEF Rollback
  <2> QED
    BY <1>5, <2>1, <2>2 DEF EndNow
<1>6. CASE Merge
  <2>1. CASE ReleaseReadLevels
    <3>1. PICK n \in 0..Len(readlevellist) :
            /\ readlevellist' = Drop(readlevellist, n)
            /\ level' = [u \in Trx |-> IF \E i \in 1..n : readlevellist[i] = u
                                         THEN NULL ELSE level[u]]
      BY <2>1 DEF ReleaseReadLevels, ReleaseCounts
    <3>2. readlevellist' \in Seq(Trx)
      BY <3>1, DropProperties
    <3>3. level' \in [Trx -> Nat]
      BY <3>1 DEF NULL
    <3> QED
      BY <2>1, <3>2, <3>3 DEF ReleaseReadLevels, session, counters, storage
  <2>2. CASE MergeStart
    BY <2>2 DEF MergeStart, session, merging, lists, storage
  <2>3. CASE MergeDone
    <3>1. storagetrxnum' \in Nat /\ instorage' \subseteq Trx
      BY <2>3 DEF MergeDone, Raise, Visible
    <3>2. activemergetrxnum' \in Nat
      BY <2>3 DEF MergeDone, NULL
    <3> QED
      BY <2>3, <3>1, <3>2 DEF MergeDone, session, merging, lists
  <2> QED
    BY <1>6, <2>1, <2>2, <2>3 DEF Merge
<1>7. CASE UNCHANGED vars
  BY <1>7 DEF vars, session, merging, lists, counters, storage
<1> QED
  BY <1>1, <1>2, <1>4, <1>5, <1>6, <1>7 DEF Next
\* Steps that leave the numbers and the validate list alone: levels only go
\* up to what is visible, and no stage is reached without its number.
LEMMA QuietStep ==
  ASSUME LevelTypes, NumbersInv, StagesInv, ListInv, NEW t \in Trx,
         UNCHANGED <<num, committrxnum, maxtrxnum, validatetrxlist>>,
         level' \in [Trx -> Nat],
         \A u \in Trx : level'[u] \in {NULL, level[u], maxtrxnum},
         \A u \in Trx \ {t} : /\ state'[u] = state[u] /\ commitst'[u] = commitst[u]
                              /\ dtable'[u] = dtable[u] /\ delayed'[u] = delayed[u],
         state'[t] = "validate" => state[t] = "validate",
         commitst'[t] \in {"init", "level"} \/ state'[t] = "new"
           => commitst[t] \in {"init", "level"} \/ state[t] = "new",
         commitst'[t] = "validate" => state'[t] = "validate",
         commitst'[t] = "end" => state'[t] \in {"begin", "validate"},
         commitst'[t] = "end" /\ state'[t] = "begin" /\ dtable'[t]
           => delayed'[t] /\ num[t] = NULL
  PROVE  NumbersInv' /\ StagesInv' /\ ListInv'
<1>1. NumbersInv'
  <2>1. ASSUME NEW u \in Trx
        PROVE  level'[u] <= maxtrxnum
    <3>1. level[u] <= maxtrxnum /\ level[u] \in Nat /\ maxtrxnum \in Nat
      BY DEF NumbersInv, LevelTypes
    <3> QED
      BY <3>1 DEF NULL
  <2> QED
    BY <2>1 DEF NumbersInv, NumbersUnique
<1>2. StagesInv'
  <2> SUFFICES ASSUME NEW u \in Trx
               PROVE  /\ commitst'[u] \in {"init", "level"} \/ state'[u] = "new"
                           => num[u] = NULL
                      /\ commitst'[u] = "validate" => state'[u] = "validate"
                      /\ commitst'[u] = "end" => state'[u] \in {"begin", "validate"}
                      /\ commitst'[u] = "end" /\ state'[u] = "begin" /\ dtable'[u]
                           => delayed'[u] /\ num[u] = NULL
    BY DEF StagesInv
  <2>1. CASE u = t
    BY <2>1 DEF StagesInv
  <2>2. CASE u # t
    BY <2>2 DEF StagesInv
  <2> QED
    BY <2>1, <2>2
<1>3. ListInv'
  <2>1. ASSUME NEW u \in Trx, state'[u] = "validate"
        PROVE  In(u, validatetrxlist)
    BY <2>1 DEF ListInv
  <2> QED
    BY <2>1 DEF ListInv, ValidatesSorted, In
<1> QED
  BY <1>1, <1>2, <1>3
\* The same for steps of the merge, which only take levels away.
LEMMA QuietMergeStep ==
  ASSUME LevelTypes, NumbersInv, StagesInv, ListInv,
         UNCHANGED <<state, commitst, dtable, delayed, num, committrxnum,
                     maxtrxnum, validatetrxlist>>,
         \A u \in Trx : level'[u] \in {NULL, level[u]}
  PROVE  NumbersInv' /\ StagesInv' /\ ListInv'
<1>1. NumbersInv'
  <2>1. ASSUME NEW u \in Trx
        PROVE  level'[u] <= maxtrxnum
    <3>1. level[u] <= maxtrxnum /\ level[u] \in Nat /\ maxtrxnum \in Nat
      BY DEF NumbersInv, LevelTypes
    <3> QED
      BY <3>1 DEF NULL
  <2> QED
    BY <2>1 DEF NumbersInv, NumbersUnique
<1>2. StagesInv' /\ ListInv'
  BY DEF StagesInv, ListInv, ValidatesSorted, In
<1> QED
  BY <1>1, <1>2

\* A number taken when the commit starts, and the entry in the validate list.
LEMMA CommitNoTableStep ==
  ASSUME LevelsInv, NEW t \in Trx, CommitNoTable(t)
  PROVE  NumbersInv' /\ StagesInv' /\ ListInv'
<1>1. /\ num' = [num EXCEPT ![t] = committrxnum + 1]
      /\ committrxnum' = committrxnum + 1
      /\ commitst' = [commitst EXCEPT ![t] = "end"]
      /\ UNCHANGED <<state, dtable, delayed, level, maxtrxnum, validatetrxlist>>
      /\ state[t] = "begin" /\ commitst[t] = "init" /\ ~dtable[t]
  BY DEF CommitNoTable, Committing, Open, session, lists
<1>2. /\ num \in [Trx -> Nat] /\ level \in [Trx -> Nat]
      /\ commitst \in [Trx -> CommitSts]
      /\ committrxnum \in Nat /\ maxtrxnum \in Nat
      /\ validatetrxlist \in Seq(Trx)
  BY DEF LevelsInv, LevelTypes
<1>3. num[t] = NULL
  BY <1>1 DEF LevelsInv, StagesInv
<1>4. NumbersInv'
  <2>1. /\ maxtrxnum <= committrxnum
        /\ \A u \in Trx : num[u] <= committrxnum
        /\ NumbersUnique
        /\ \A u \in Trx : level[u] <= maxtrxnum
    BY DEF LevelsInv, NumbersInv
  <2>2. NumbersUnique'
    <3> SUFFICES ASSUME NEW u \in Trx, NEW w \in Trx, u # w, num'[u] # NULL
                 PROVE  num'[u] # num'[w]
      BY DEF NumbersUnique
    <3>1. /\ num[u] <= committrxnum /\ num[u] \in Nat
          /\ num[w] <= committrxnum /\ num[w] \in Nat
      BY <1>2, <2>1
    <3>2. num[u] # NULL => num[u] # num[w]
      BY <2>1 DEF NumbersUnique
    <3> QED
      BY <1>1, <1>2, <3>1, <3>2
  <2>3. ASSUME NEW u \in Trx
        PROVE  num'[u] <= committrxnum'
    <3>1. num[u] <= committrxnum /\ num[u] \in Nat
      BY <1>2, <2>1
    <3> QED
      BY <1>1, <1>2, <3>1
  <2> QED
    BY <1>1, <1>2, <2>1, <2>2, <2>3 DEF NumbersInv
<1>5. StagesInv'
  BY <1>1, <1>2 DEF LevelsInv, StagesInv
<1>6. ListInv'
  <2>1. /\ \A i \in DOMAIN validatetrxlist : num[validatetrxlist[i]] > maxtrxnum
        /\ ValidatesSorted
        /\ \A u \in Trx : state[u] = "validate" => In(u, validatetrxlist)
    BY DEF LevelsInv, ListInv
  <2>2. ASSUME NEW i \in DOMAIN validatetrxlist
        PROVE  num'[validatetrxlist[i]] = num[validatetrxlist[i]]
    <3>1. validatetrxlist[i] \in Trx /\ num[validatetrxlist[i]] > maxtrxnum
      BY <1>2, <2>1
    <3>2. validatetrxlist[i] # t
      BY <3>1, <1>2, <1>3 DEF NULL
    <3> QED
      BY <1>1, <1>2, <3>1, <3>2
  <2> QED
    BY <1>1, <2>1, <2>2 DEF ListInv, ValidatesSorted, In
<1> QED
  BY <1>4, <1>5, <1>6

LEMMA CommitValidateStep ==
  ASSUME LevelsInv, NEW t \in Trx, CommitValidate(t)
  PROVE  NumbersInv' /\ StagesInv' /\ ListInv'
<1>1. /\ num' = [num EXCEPT ![t] = committrxnum + 1]
      /\ committrxnum' = committrxnum + 1
      /\ commitst' = [commitst EXCEPT ![t] = "validate"]
      /\ state' = [state EXCEPT ![t] = "validate"]
      /\ validatetrxlist' = Append(validatetrxlist, t)
      /\ UNCHANGED <<dtable, delayed, level, maxtrxnum>>
      /\ state[t] = "begin" /\ commitst[t] = "init"
  BY DEF CommitValidate, Committing, Open, session, lists
<1>2. /\ num \in [Trx -> Nat] /\ level \in [Trx -> Nat]
      /\ commitst \in [Trx -> CommitSts] /\ state \in [Trx -> States]
      /\ committrxnum \in Nat /\ maxtrxnum \in Nat
      /\ validatetrxlist \in Seq(Trx)
  BY DEF LevelsInv, LevelTypes
<1>3. num[t] = NULL
  BY <1>1 DEF LevelsInv, StagesInv
<1>4. /\ maxtrxnum <= committrxnum
      /\ \A u \in Trx : num[u] <= committrxnum
      /\ NumbersUnique
      /\ \A u \in Trx : level[u] <= maxtrxnum
  BY DEF LevelsInv, NumbersInv
<1>5. NumbersInv'
  <2>2. NumbersUnique'
    <3> SUFFICES ASSUME NEW u \in Trx, NEW w \in Trx, u # w, num'[u] # NULL
                 PROVE  num'[u] # num'[w]
      BY DEF NumbersUnique
    <3>1. /\ num[u] <= committrxnum /\ num[u] \in Nat
          /\ num[w] <= committrxnum /\ num[w] \in Nat
      BY <1>2, <1>4
    <3>2. num[u] # NULL => num[u] # num[w]
      BY <1>4 DEF NumbersUnique
    <3> QED
      BY <1>1, <1>2, <3>1, <3>2
  <2>3. ASSUME NEW u \in Trx
        PROVE  num'[u] <= committrxnum'
    <3>1. num[u] <= committrxnum /\ num[u] \in Nat
      BY <1>2, <1>4
    <3> QED
      BY <1>1, <1>2, <3>1
  <2> QED
    BY <1>1, <1>2, <1>4, <2>2, <2>3 DEF NumbersInv
<1>6. StagesInv'
  BY <1>1, <1>2 DEF LevelsInv, StagesInv
<1>7. ListInv'
  <2> DEFINE n == Len(validatetrxlist)
  <2>1. /\ \A i \in DOMAIN validatetrxlist : num[validatetrxlist[i]] > maxtrxnum
        /\ ValidatesSorted
        /\ \A u \in Trx : state[u] = "validate" => In(u, validatetrxlist)
    BY DEF LevelsInv, ListInv
  <2>2. /\ n \in Nat /\ DOMAIN validatetrxlist = 1..n
        /\ DOMAIN validatetrxlist' = 1..(n + 1)
        /\ validatetrxlist'[n + 1] = t
        /\ \A i \in 1..n : validatetrxlist'[i] = validatetrxlist[i]
    BY <1>1, <1>2
  <2>3. num'[t] = committrxnum + 1
    BY <1>1, <1>2
  <2>4. ASSUME NEW i \in 1..n
        PROVE  /\ num'[validatetrxlist'[i]] = num[validatetrxlist[i]]
               /\ num'[validatetrxlist'[i]] \in Nat
               /\ num'[validatetrxlist'[i]] > maxtrxnum
               /\ num'[validatetrxlist'[i]] <= committrxnum
    <3>1. validatetrxlist[i] \in Trx /\ num[validatetrxlist[i]] > maxtrxnum
      BY <1>2, <2>1
    <3>2. validatetrxlist[i] # t
      BY <3>1, <1>2, <1>3 DEF NULL
    <3>3. num[validatetrxlist[i]] \in Nat /\ num[validatetrxlist[i]] <= committrxnum
      BY <3>1, <1>2, <1>4
    <3> QED
      BY <1>1, <1>2, <2>2, <3>1, <3>2, <3>3
  <2>5. ASSUME NEW i \in 1..(n + 1)
        PROVE  num'[validatetrxlist'[i]] > maxtrxnum
    <3>1. CASE i \in 1..n
      BY <3>1, <2>4
    <3>2. CASE i = n + 1
      BY <3>2, <2>2, <2>3, <1>2, <1>4
    <3> QED
      BY <3>1, <3>2, <2>2
  <2>6. ASSUME NEW i \in 1..(n + 1), NEW j \in 1..(n + 1), i < j
        PROVE  num'[validatetrxlist'[i]] < num'[validatetrxlist'[j]]
    <3>1. i \in 1..n
      BY <2>2, <2>6
    <3>2. CASE j \in 1..n
      <4>1. num[validatetrxlist[i]] < num[validatetrxlist[j]]
        BY <3>1, <3>2, <2>1, <2>2, <2>6 DEF ValidatesSorted
      <4> QED
        BY <3>1, <3>2, <4>1, <2>4
    <3>3. CASE j = n + 1
      BY <3>1, <3>3, <2>2, <2>3, <2>4, <1>2
    <3> QED
      BY <3>2, <3>3, <2>2
  <2>7. ASSUME NEW u \in Trx, state'[u] = "validate"
        PROVE  In(u, validatetrxlist')
    <3>1. CASE u = t
      BY <3>1, <2>2 DEF In
    <3>2. CASE u # t
      <4>1. state[u] = "validate"
        BY <3>2, <2>7, <1>1, <1>2
      <4>2. PICK i \in 1..n : validatetrxlist[i] = u
        BY <4>1, <2>1, <2>2 DEF In
      <4> QED
        BY <4>2, <2>2 DEF In
    <3> QED
      BY <3>1, <3>2
  <2>8. ValidatesSorted'
    BY <2>2, <2>6 DEF ValidatesSorted
  <2>9. \A i \in DOMAIN validatetrxlist' : num'[validatetrxlist'[i]] > maxtrxnum'
    BY <2>2, <2>5, <1>1
  <2> QED
    BY <2>7, <2>8, <2>9 DEF ListInv
<1> QED
  BY <1>5, <1>6, <1>7

\* A transaction that ends, however it ends.
LEMMA EndStep ==
  ASSUME LevelsInv, NEW t \in Trx, NEW ok \in BOOLEAN,
         EndTrx(t, ok), EndSession(t, ok),
         commitst'[t] \in {"done", "waitreadlevel"},
         \A u \in Trx \ {t} : commitst'[u] = commitst[u]
  PROVE  NumbersInv' /\ StagesInv' /\ ListInv'
<1>1. NumbersInv' /\ ListInv'
  BY EndTrxNumbers DEF LevelsInv
<1>2. ASSUME NEW u \in Trx \ {t}
      PROVE  /\ state'[u] = state[u] /\ num'[u] = num[u]
             /\ dtable'[u] = dtable[u] /\ delayed'[u] = delayed[u]
  <2>1. /\ state' = [state EXCEPT ![t] = IF ok THEN "commit" ELSE "abort"]
        /\ num' = IF TakesNumber(t, ok) THEN [num EXCEPT ![t] = committrxnum + 1]
                                        ELSE num
    BY DEF EndTrx
  <2>2. /\ dtable' = [dtable EXCEPT ![t] = @ /\ ok]
        /\ delayed' = [delayed EXCEPT ![t] = FALSE]
    BY DEF EndSession
  <2> QED
    BY <2>1, <2>2 DEF LevelsInv, LevelTypes
<1>3. state'[t] \in {"commit", "abort"}
  BY DEF EndTrx, LevelsInv, LevelTypes
<1>4. StagesInv'
  <2> SUFFICES ASSUME NEW u \in Trx
               PROVE  /\ commitst'[u] \in {"init", "level"} \/ state'[u] = "new"
                           => num'[u] = NULL
                      /\ commitst'[u] = "validate" => state'[u] = "validate"
                      /\ commitst'[u] = "end" => state'[u] \in {"begin", "validate"}
                      /\ commitst'[u] = "end" /\ state'[u] = "begin" /\ dtable'[u]
                           => delayed'[u] /\ num'[u] = NULL
    BY DEF StagesInv
  <2>1. CASE u = t
    BY <2>1, <1>3
  <2>2. CASE u # t
    BY <2>2, <1>2 DEF LevelsInv, StagesInv
  <2> QED
    BY <2>1, <2>2
<1> QED
  BY <1>1, <1>4

LEMMA LevelsStep ==
  ASSUME LevelsInv, [Next]_vars
  PROVE  LevelsInv'
<1> USE DEF LevelsInv
<1>1. LevelTypes'
  BY TypesStep
<1>2. ASSUME NEW t \in Trx, Statement(t)
      PROVE  NumbersInv' /\ StagesInv' /\ ListInv'
  <2> DEFINE same(u) == /\ state'[u] = state[u] /\ commitst'[u] = commitst[u]
                        /\ dtable'[u] = dtable[u] /\ delayed'[u] = delayed[u]
  <2>1. UNCHANGED <<num, committrxnum, maxtrxnum, validatetrxlist>>
    BY <1>2 DEF Statement, Begin, BeginReadLevel, BeginAddReadLevel, TouchTable,
          AskStorageTree, MarkWrite, Write, Fail, StmtRollback,
          SetCanRemoveReadLevel, Restart, lists, counters
  <2>2. \A u \in Trx : level'[u] \in {NULL, level[u], maxtrxnum}
    BY <1>2 DEF Statement, Begin, BeginReadLevel, BeginAddReadLevel, TouchTable,
          AskStorageTree, MarkWrite, Write, Fail, StmtRollback,
          SetCanRemoveReadLevel, Restart, LevelTypes
  <2>3. level' \in [Trx -> Nat]
    BY <1>1 DEF LevelTypes
  <2>4. /\ \/ same(t)
           \/ /\ state[t] = "new" /\ state'[t] = "begin"
              /\ commitst'[t] \in {"init", "level"}
           \/ /\ commitst[t] \in {"init", "level"} /\ commitst'[t] = "init"
              /\ state'[t] = state[t]
        /\ \A u \in Trx \ {t} : same(u)
    <3>1. CASE Begin(t)
      BY <3>1 DEF Begin, session, LevelTypes
    <3>2. CASE BeginReadLevel(t) \/ BeginAddReadLevel(t)
      BY <3>2 DEF BeginReadLevel, BeginAddReadLevel, session, LevelTypes
    <3>3. CASE TouchTable(t)
      BY <3>3 DEF TouchTable, Open, LevelTypes
    <3>4. CASE AskStorageTree(t)
      BY <3>4 DEF AskStorageTree
    <3>5. CASE MarkWrite(t) \/ Write(t) \/ Fail(t) \/ StmtRollback(t)
      BY <3>5 DEF MarkWrite, Write, Fail, StmtRollback, Open
    <3>6. CASE SetCanRemoveReadLevel(t) \/ Restart(t)
      BY <3>6 DEF SetCanRemoveReadLevel, Restart, Open, session
    <3> QED
      BY <1>2, <3>1, <3>2, <3>3, <3>4, <3>5, <3>6 DEF Statement
  <2> QED
    BY <2>1, <2>2, <2>3, <2>4, QuietStep DEF StagesInv
<1>3. ASSUME NEW t \in Trx, StartCommit(t)
      PROVE  NumbersInv' /\ StagesInv' /\ ListInv'
  <2>1. CASE CommitNoTable(t)
    BY <2>1, CommitNoTableStep
  <2>2. CASE CommitValidate(t)
    BY <2>2, CommitValidateStep
  <2>3. CASE CommitDelayed(t)
    <3>1. /\ UNCHANGED <<num, committrxnum, maxtrxnum, validatetrxlist, level,
                         state, dtable>>
          /\ delayed' = [delayed EXCEPT ![t] = TRUE]
          /\ commitst' = [commitst EXCEPT ![t] = "end"]
          /\ state[t] = "begin" /\ commitst[t] = "init"
      BY <2>3 DEF CommitDelayed, Committing, Open, lists, counters
    <3>2. num[t] = NULL
      BY <3>1 DEF StagesInv
    <3>3. /\ commitst'[t] = "end" /\ delayed'[t]
          /\ \A u \in Trx \ {t} : commitst'[u] = commitst[u] /\ delayed'[u] = delayed[u]
          /\ level \in [Trx -> Nat]
      BY <3>1 DEF LevelTypes
    <3> QED
      BY <3>1, <3>2, <3>3, QuietStep
  <2> QED
    BY <1>3, <2>1, <2>2, <2>3 DEF StartCommit
<1>4. ASSUME NEW t \in Trx, FinishCommit(t)
      PROVE  NumbersInv' /\ StagesInv' /\ ListInv'
  <2>1. CASE Validate(t)
    <3>1. /\ UNCHANGED <<num, committrxnum, maxtrxnum, validatetrxlist, level,
                         state, dtable, delayed>>
          /\ commitst' = [commitst EXCEPT ![t] = "end"]
          /\ commitst[t] = "validate"
      BY <2>1 DEF Validate, lists, counters
    <3>2. state[t] = "validate"
      BY <3>1 DEF StagesInv
    <3>3. /\ commitst'[t] = "end"
          /\ \A u \in Trx \ {t} : commitst'[u] = commitst[u]
          /\ level \in [Trx -> Nat]
      BY <3>1 DEF LevelTypes
    <3> QED
      BY <3>1, <3>2, <3>3, QuietStep
  <2>2. CASE EndCommit(t)
    <3>1. PICK ok \in BOOLEAN, c \in {"done", "waitreadlevel"} :
            /\ EndTrx(t, ok) /\ EndSession(t, ok)
            /\ commitst' = [commitst EXCEPT ![t] = c]
      BY <2>2 DEF EndCommit
    <3>2. /\ commitst'[t] \in {"done", "waitreadlevel"}
          /\ \A u \in Trx \ {t} : commitst'[u] = commitst[u]
      BY <3>1 DEF LevelTypes
    <3> QED
      BY <3>1, <3>2, EndStep
  <2>3. CASE WaitReadLevel(t)
    <3>1. /\ UNCHANGED <<num, committrxnum, maxtrxnum, validatetrxlist, level,
                         state, dtable, delayed>>
          /\ commitst' = [commitst EXCEPT ![t] = "done"]
          /\ commitst[t] = "waitreadlevel"
      BY <2>3 DEF WaitReadLevel, session, lists, counters
    <3>2. /\ commitst'[t] = "done"
          /\ \A u \in Trx \ {t} : commitst'[u] = commitst[u]
          /\ level \in [Trx -> Nat]
      BY <3>1 DEF LevelTypes
    <3> QED
      BY <3>1, <3>2, QuietStep
  <2> QED
    BY <1>4, <2>1, <2>2, <2>3 DEF FinishCommit
<1>5. ASSUME NEW t \in Trx, EndNow(t)
      PROVE  NumbersInv' /\ StagesInv' /\ ListInv'
  <2>1. PICK ok \in BOOLEAN :
          /\ EndTrx(t, ok) /\ EndSession(t, ok)
          /\ commitst' = [commitst EXCEPT ![t] = "done"]
    BY <1>5 DEF EndNow, CommitReadOnly, Rollback
  <2>2. /\ commitst'[t] = "done"
        /\ \A u \in Trx \ {t} : commitst'[u] = commitst[u]
    BY <2>1 DEF LevelTypes
  <2> QED
    BY <2>1, <2>2, EndStep
<1>6. CASE Merge
  <2>1. UNCHANGED <<state, commitst, dtable, delayed, num, committrxnum,
                    maxtrxnum, validatetrxlist>>
    BY <1>6 DEF Merge, ReleaseReadLevels, MergeStart, MergeDone, session, lists,
          counters
  <2>2. \A u \in Trx : level'[u] \in {NULL, level[u]}
    BY <1>6 DEF Merge, ReleaseReadLevels, MergeStart, MergeDone
  <2> QED
    BY <1>1, <2>1, <2>2, QuietMergeStep
<1>7. CASE UNCHANGED vars
  <2>1. UNCHANGED <<state, commitst, dtable, delayed, num, committrxnum,
                    maxtrxnum, validatetrxlist, level>>
    BY <1>7 DEF vars, session, lists, counters
  <2> QED
    BY <1>1, <2>1, QuietMergeStep
<1> QED
  BY <1>1, <1>2, <1>3, <1>4, <1>5, <1>6, <1>7 DEF Next

LEMMA LevelsInit == Init => LevelsInv
<1> SUFFICES ASSUME Init
             PROVE  LevelsInv
  OBVIOUS
<1>1. LevelTypes
  BY DEF Init, LevelTypes, States, CommitSts, NULL, FirstTrxNum
<1>2. NumbersInv /\ StagesInv
  BY DEF Init, NumbersInv, NumbersUnique, StagesInv, NULL, FirstTrxNum
<1>3. ListInv
  BY DEF Init, ListInv, ValidatesSorted, In
<1> QED
  BY <1>1, <1>2, <1>3 DEF LevelsInv

-----------------------------------------------------------------------------
(***************************************************************************)
(* What is visible at a level                                              *)
(***************************************************************************)

\* The commit of t is above every level that was handed out before.
LEMMA CommitAbove ==
  ASSUME LevelsInv, NEW t \in Trx, NEW ok \in BOOLEAN, EndTrx(t, ok),
         EndSession(t, ok),
         \/ ~ok
         \/ ~writes[t]
         \/ commitst[t] = "end"
  PROVE  state'[t] = "commit" /\ writes'[t] /\ dtable'[t] => num'[t] > maxtrxnum
<1> SUFFICES ASSUME state'[t] = "commit", writes'[t], dtable'[t]
             PROVE  num'[t] > maxtrxnum
  OBVIOUS
<1>1. /\ state \in [Trx -> States] /\ num \in [Trx -> Nat]
      /\ writes \in [Trx -> BOOLEAN] /\ dtable \in [Trx -> BOOLEAN]
      /\ committrxnum \in Nat /\ maxtrxnum \in Nat
      /\ validatetrxlist \in Seq(Trx)
  BY DEF LevelsInv, LevelTypes
<1>2. ok
  BY <1>1 DEF EndTrx
<1>3. writes[t] /\ dtable[t]
  BY <1>1, <1>2 DEF EndSession
<1>4. commitst[t] = "end"
  BY <1>2, <1>3
<1>5. num' = IF TakesNumber(t, ok) THEN [num EXCEPT ![t] = committrxnum + 1]
                                   ELSE num
  BY DEF EndTrx
<1>6. CASE state[t] = "begin"
  <2>1. delayed[t] /\ num[t] = NULL
    BY <1>3, <1>4, <1>6 DEF LevelsInv, StagesInv
  <2>2. num'[t] = committrxnum + 1
    BY <2>1, <1>1, <1>5 DEF TakesNumber
  <2>3. maxtrxnum <= committrxnum
    BY DEF LevelsInv, NumbersInv
  <2> QED
    BY <2>2, <2>3, <1>1
<1>7. CASE state[t] = "validate"
  <2>1. PICK i \in DOMAIN validatetrxlist : validatetrxlist[i] = t
    BY <1>7 DEF LevelsInv, ListInv, In
  <2>2. num[t] > maxtrxnum
    BY <2>1 DEF LevelsInv, ListInv
  <2>3. ~TakesNumber(t, ok)
    BY <2>2, <1>1 DEF TakesNumber, NULL
  <2> QED
    BY <2>2, <2>3, <1>5
<1> QED
  BY <1>4, <1>6, <1>7 DEF LevelsInv, StagesInv

\* The end of t changes nothing of what is seen at a level in use.
LEMMA EndSees ==
  ASSUME LevelsInv, NEW t \in Trx, NEW ok \in BOOLEAN, EndTrx(t, ok),
         EndSession(t, ok), state[t] # "commit",
         \/ ~ok
         \/ ~writes[t]
         \/ commitst[t] = "end",
         NEW L \in Nat, L <= maxtrxnum, NEW u \in Trx
  PROVE  state'[u] = "commit" /\ writes'[u] /\ dtable'[u] /\ num'[u] <= L
           <=> state[u] = "commit" /\ writes[u] /\ dtable[u] /\ num[u] <= L
<1>1. CASE u = t
  <2>1. state'[t] = "commit" /\ writes'[t] /\ dtable'[t] => num'[t] > maxtrxnum
    BY CommitAbove
  <2>2. num'[t] \in Nat /\ maxtrxnum \in Nat
    BY EndTrxTypes DEF LevelsInv, LevelTypes
  <2>3. num'[t] > maxtrxnum => ~(num'[t] <= L)
    BY <2>2
  <2> QED
    BY <1>1, <2>1, <2>3
<1>2. CASE u # t
  <2>1. /\ state' = [state EXCEPT ![t] = IF ok THEN "commit" ELSE "abort"]
        /\ num' = IF TakesNumber(t, ok) THEN [num EXCEPT ![t] = committrxnum + 1]
                                        ELSE num
    BY DEF EndTrx
  <2>2. /\ dtable' = [dtable EXCEPT ![t] = @ /\ ok]
        /\ writes' = [writes EXCEPT ![t] = @ /\ ok]
    BY DEF EndSession
  <2>3. /\ state'[u] = state[u] /\ num'[u] = num[u]
        /\ dtable'[u] = dtable[u] /\ writes'[u] = writes[u]
    BY <1>2, <2>1, <2>2 DEF LevelsInv, LevelTypes
  <2> QED
    BY <2>3
<1> QED
  BY <1>1, <1>2

\* No step changes what is seen at a level in use.
LEMMA VisibleStep ==
  ASSUME LevelsInv, [Next]_vars, NEW L \in Nat, L <= maxtrxnum, NEW u \in Trx
  PROVE  state'[u] = "commit" /\ writes'[u] /\ dtable'[u] /\ num'[u] <= L
           <=> state[u] = "commit" /\ writes[u] /\ dtable[u] /\ num[u] <= L
<1> DEFINE same == /\ state'[u] = state[u] /\ writes'[u] = writes[u]
                   /\ dtable'[u] = dtable[u] /\ num'[u] = num[u]
           unseen == state[u] # "commit" /\ state'[u] # "commit"
<1>1. /\ state \in [Trx -> States] /\ num \in [Trx -> Nat]
      /\ writes \in [Trx -> BOOLEAN] /\ dtable \in [Trx -> BOOLEAN]
  BY DEF LevelsInv, LevelTypes
<1>2. ASSUME NEW t \in Trx, Statement(t)
      PROVE  same \/ unseen
  <2>1. CASE Begin(t)
    BY <1>1, <2>1 DEF Begin, session
  <2>2. CASE TouchTable(t)
    BY <1>1, <2>2 DEF TouchTable, Open
  <2>3. CASE MarkWrite(t)
    BY <1>1, <2>3 DEF MarkWrite, Open
  <2>4. CASE BeginReadLevel(t) \/ BeginAddReadLevel(t) \/ AskStorageTree(t)
    BY <2>4 DEF BeginReadLevel, BeginAddReadLevel, AskStorageTree, session
  <2>5. CASE Write(t) \/ Fail(t) \/ StmtRollback(t)
    BY <2>5 DEF Write, Fail, StmtRollback
  <2>6. CASE SetCanRemoveReadLevel(t) \/ Restart(t)
    BY <2>6 DEF SetCanRemoveReadLevel, Restart, session
  <2> QED
    BY <1>2, <2>1, <2>2, <2>3, <2>4, <2>5, <2>6 DEF Statement
<1>3. ASSUME NEW t \in Trx, StartCommit(t)
      PROVE  same \/ unseen
  <2>1. CASE CommitNoTable(t)
    BY <1>1, <2>1 DEF CommitNoTable, Committing, Open, session
  <2>2. CASE CommitValidate(t)
    BY <1>1, <2>2 DEF CommitValidate, Committing, Open, session
  <2>3. CASE CommitDelayed(t)
    BY <2>3 DEF CommitDelayed
  <2> QED
    BY <1>3, <2>1, <2>2, <2>3 DEF StartCommit
<1>4. ASSUME NEW t \in Trx, Validate(t) \/ WaitReadLevel(t)
      PROVE  same
  BY <1>4 DEF Validate, WaitReadLevel, session
<1>5. ASSUME NEW t \in Trx, EndCommit(t)
      PROVE  state'[u] = "commit" /\ writes'[u] /\ dtable'[u] /\ num'[u] <= L
               <=> state[u] = "commit" /\ writes[u] /\ dtable[u] /\ num[u] <= L
  <2>1. PICK ok \in BOOLEAN : EndTrx(t, ok) /\ EndSession(t, ok)
    BY <1>5 DEF EndCommit
  <2>2. commitst[t] = "end"
    BY <1>5 DEF EndCommit
  <2>3. state[t] # "commit"
    BY <2>2 DEF LevelsInv, StagesInv
  <2> QED
    BY <2>1, <2>2, <2>3, EndSees
<1>6. ASSUME NEW t \in Trx, EndNow(t)
      PROVE  state'[u] = "commit" /\ writes'[u] /\ dtable'[u] /\ num'[u] <= L
               <=> state[u] = "commit" /\ writes[u] /\ dtable[u] /\ num[u] <= L
  <2>1. PICK ok \in BOOLEAN :
          EndTrx(t, ok) /\ EndSession(t, ok) /\ (~ok \/ ~writes[t])
    BY <1>6 DEF EndNow, CommitReadOnly, Rollback
  <2>2. state[t] # "commit"
    BY <1>6 DEF EndNow, CommitReadOnly, Rollback, Open
  <2> QED
    BY <2>1, <2>2, EndSees
<1>7. CASE Merge
  BY <1>7 DEF Merge, ReleaseReadLevels, MergeStart, MergeDone, session
<1>8. CASE UNCHANGED vars
  BY <1>8 DEF vars, session
<1> QED
  BY <1>2, <1>3, <1>4, <1>5, <1>6, <1>7, <1>8 DEF Next, FinishCommit

-----------------------------------------------------------------------------
(***************************************************************************)
(* The merge level                                                         *)
(***************************************************************************)

\* A list of read levels without repetition, oldest first and out of reach of
\* the merge.
Ordered(s) ==
  /\ s \in Seq(Trx)
  /\ \A i, j \in DOMAIN s : i < j => s[i] # s[j] /\ level[s[i]] <= level[s[j]]
  /\ \A i \in DOMAIN s : level[s[i]] # NULL /\ mergetrxnum <= level[s[i]]

\* The merge stays below every reader, and what it moved was visible at its
\* level.  (Levels are entered in the gate section that reads them.)
MergeInv ==
  /\ FirstTrxNum <= maxtrxnum
  /\ mergetrxnum <= maxtrxnum
  /\ activemergetrxnum <= mergetrxnum
  /\ instorage \subseteq Visible(mergetrxnum)
  /\ Ordered(readlevellist)
  /\ RelaxedReadLevel => \A t \in Trx : commitst[t] # "level"

\* Removing an entry keeps the order, and the entry is gone.
LEMMA OrderedRemove ==
  ASSUME NEW s, Ordered(s), NEW i \in 1..Len(s), level \in [Trx -> Nat],
         mergetrxnum \in Nat
  PROVE  /\ Ordered(Remove(s, i))
         /\ \A j \in DOMAIN Remove(s, i) :
              /\ Remove(s, i)[j] # s[i]
              /\ \E k \in DOMAIN s : Remove(s, i)[j] = s[k]
<1> DEFINE r == Remove(s, i)
           at(j) == IF j < i THEN j ELSE j + 1
<1>1. s \in Seq(Trx) /\ Len(s) \in Nat /\ DOMAIN s = 1..Len(s)
  BY DEF Ordered
<1>2. r \in Seq(Trx) /\ DOMAIN r = 1..(Len(s) - 1)
  BY <1>1, RemoveProperties
<1>3. ASSUME NEW j \in DOMAIN r
      PROVE  r[j] = s[at(j)] /\ at(j) \in DOMAIN s /\ at(j) # i
  BY <1>1, <1>2 DEF Remove
<1>4. ASSUME NEW j \in DOMAIN r, NEW k \in DOMAIN r, j < k
      PROVE  r[j] # r[k] /\ level[r[j]] <= level[r[k]]
  <2>1. at(j) < at(k)
    BY <1>2, <1>4
  <2> QED
    BY <1>3, <2>1 DEF Ordered
<1>5. ASSUME NEW j \in DOMAIN r
      PROVE  r[j] # s[i]
  <2>1. at(j) < i \/ i < at(j)
    BY <1>1, <1>3
  <2> QED
    BY <1>1, <1>3, <2>1 DEF Ordered
<1>6. \A j \in DOMAIN r : level[r[j]] # NULL /\ mergetrxnum <= level[r[j]]
  BY <1>3 DEF Ordered
<1>7. Ordered(r)
  BY <1>2, <1>4, <1>6 DEF Ordered
<1> QED
  BY <1>3, <1>5, <1>7

\* Dropping entries from the head keeps the order, and the entries are gone.
LEMMA OrderedDrop ==
  ASSUME NEW s, Ordered(s), NEW n \in 0..Len(s)
  PROVE  /\ Ordered(Drop(s, n))
         /\ \A j \in DOMAIN Drop(s, n) :
              /\ \A k \in 1..n : Drop(s, n)[j] # s[k]
              /\ \E k \in DOMAIN s : Drop(s, n)[j] = s[k]
<1> DEFINE r == Drop(s, n)
<1>1. s \in Seq(Trx) /\ Len(s) \in Nat /\ DOMAIN s = 1..Len(s)
  BY DEF Ordered
<1>2. r \in Seq(Trx) /\ DOMAIN r = 1..(Len(s) - n)
  BY <1>1, DropProperties
<1>3. ASSUME NEW j \in DOMAIN r
      PROVE  r[j] = s[j + n] /\ j + n \in DOMAIN s /\ j + n > n
  <2>1. j \in 1..(Len(s) - n)
    BY <1>2
  <2>2. r[j] = s[j + n]
    BY <1>1, <2>1, DropProperties
  <2> QED
    BY <1>1, <2>1, <2>2
<1>4. ASSUME NEW j \in DOMAIN r, NEW k \in DOMAIN r, j < k
      PROVE  r[j] # r[k] /\ level[r[j]] <= level[r[k]]
  <2>1. j + n < k + n
    BY <1>2, <1>4
  <2> QED
    BY <1>3, <2>1 DEF Ordered
<1>5. ASSUME NEW j \in DOMAIN r, NEW k \in 1..n
      PROVE  r[j] # s[k]
  <2>1. k \in DOMAIN s /\ k < j + n
    BY <1>1, <1>2
  <2> QED
    BY <1>3, <2>1 DEF Ordered
<1>6. \A j \in DOMAIN r : level[r[j]] # NULL /\ mergetrxnum <= level[r[j]]
  BY <1>3 DEF Ordered
<1>7. Ordered(r)
  BY <1>2, <1>4, <1>6 DEF Ordered
<1> QED
  BY <1>3, <1>5, <1>7

\* What was moved stays visible at the merge level, which only grows.
LEMMA StorageStep ==
  ASSUME LevelsInv, LevelsInv', MergeInv, [Next]_vars,
         mergetrxnum <= mergetrxnum',
         instorage' \subseteq instorage \cup Visible(mergetrxnum)
  PROVE  instorage' \subseteq Visible(mergetrxnum)'
<1> SUFFICES ASSUME NEW u \in instorage'
             PROVE  u \in Visible(mergetrxnum)'
  OBVIOUS
<1>1. u \in Visible(mergetrxnum) /\ u \in Trx
  BY DEF MergeInv, Visible
<1>2. mergetrxnum \in Nat /\ mergetrxnum' \in Nat /\ num'[u] \in Nat
  BY <1>1 DEF LevelsInv, LevelTypes
<1>3. state'[u] = "commit" /\ writes'[u] /\ dtable'[u] /\ num'[u] <= mergetrxnum
  BY <1>1, <1>2, VisibleStep DEF Visible, MergeInv
<1>4. num'[u] <= mergetrxnum'
  BY <1>2, <1>3
<1> QED
  BY <1>1, <1>3, <1>4 DEF Visible

\* Steps that leave the merge, the counters and the list of levels alone.
LEMMA MergeQuietStep ==
  ASSUME LevelsInv, LevelsInv', MergeInv, [Next]_vars,
         UNCHANGED <<maxtrxnum, mergetrxnum, activemergetrxnum, instorage,
                     readlevellist>>,
         \A t \in Trx : level[t] # NULL => level'[t] = level[t],
         RelaxedReadLevel => \A t \in Trx : commitst'[t] # "level"
  PROVE  MergeInv'
<1>1. mergetrxnum \in Nat /\ readlevellist \in Seq(Trx)
  BY DEF LevelsInv, LevelTypes
<1>2. instorage' \subseteq Visible(mergetrxnum)'
  BY <1>1, StorageStep
<1>3. \A i \in DOMAIN readlevellist : level'[readlevellist[i]] = level[readlevellist[i]]
  BY <1>1 DEF MergeInv, Ordered
<1>4. Ordered(readlevellist)'
  BY <1>1, <1>3 DEF MergeInv, Ordered
<1> QED
  BY <1>2, <1>4 DEF MergeInv

\* A new level is the highest visible number and goes to the end of the list.
LEMMA TouchTableStep ==
  ASSUME LevelsInv, LevelsInv', MergeInv, [Next]_vars, NEW t \in Trx,
         TouchTable(t)
  PROVE  MergeInv'
<1> DEFINE s == readlevellist
<1>1. /\ UNCHANGED <<maxtrxnum, mergetrxnum, activemergetrxnum, instorage, commitst>>
  BY DEF TouchTable, counters, storage
<1>2. CASE level[t] # NULL \/ failed[t]
  <2>1. readlevellist' = readlevellist
    BY <1>2 DEF TouchTable, AddReadLevel
  <2>2. \A u \in Trx : level[u] # NULL => level'[u] = level[u]
    BY DEF TouchTable, LevelsInv, LevelTypes
  <2> QED
    BY <1>1, <2>1, <2>2, MergeQuietStep DEF MergeInv
<1>3. CASE level[t] = NULL /\ ~failed[t]
  <2>1. /\ level' = [level EXCEPT ![t] = maxtrxnum]
        /\ readlevellist' = Append(s, t)
    BY <1>3 DEF TouchTable, AddReadLevel
  <2>2. /\ level \in [Trx -> Nat] /\ s \in Seq(Trx) /\ maxtrxnum \in Nat
        /\ mergetrxnum \in Nat
    BY DEF LevelsInv, LevelTypes
  <2>3. /\ Len(s) \in Nat /\ DOMAIN s = 1..Len(s)
        /\ readlevellist' \in Seq(Trx)
        /\ DOMAIN readlevellist' = 1..(Len(s) + 1)
        /\ readlevellist'[Len(s) + 1] = t
        /\ \A i \in 1..Len(s) : readlevellist'[i] = s[i]
    BY <2>1, <2>2
  <2>4. Ordered(s) /\ mergetrxnum <= maxtrxnum /\ FirstTrxNum <= maxtrxnum
    BY DEF MergeInv
  <2>5. level'[t] = maxtrxnum
    BY <2>1, <2>2
  <2>6. ASSUME NEW i \in 1..Len(s)
        PROVE  /\ readlevellist'[i] = s[i] /\ s[i] # t
               /\ level'[s[i]] = level[s[i]] /\ level[s[i]] # NULL
               /\ mergetrxnum <= level[s[i]] /\ level[s[i]] <= maxtrxnum
    <3>1. s[i] \in Trx
      BY <2>2
    <3>2. level[s[i]] # NULL /\ mergetrxnum <= level[s[i]]
      BY <2>3, <2>4 DEF Ordered
    <3>3. level[s[i]] <= maxtrxnum
      BY <3>1 DEF LevelsInv, NumbersInv
    <3> QED
      BY <1>3, <2>1, <2>2, <2>3, <3>1, <3>2, <3>3
  <2>7. ASSUME NEW i \in 1..(Len(s) + 1), NEW j \in 1..(Len(s) + 1), i < j
        PROVE  /\ readlevellist'[i] # readlevellist'[j]
               /\ level'[readlevellist'[i]] <= level'[readlevellist'[j]]
    <3>1. i \in 1..Len(s)
      BY <2>3, <2>7
    <3>2. CASE j \in 1..Len(s)
      <4>1. s[i] # s[j] /\ level[s[i]] <= level[s[j]]
        BY <3>1, <3>2, <2>3, <2>4, <2>7 DEF Ordered
      <4> QED
        BY <3>1, <3>2, <4>1, <2>6
    <3>3. CASE j = Len(s) + 1
      BY <3>1, <3>3, <2>3, <2>5, <2>6
    <3> QED
      BY <3>2, <3>3, <2>3
  <2>8. ASSUME NEW i \in 1..(Len(s) + 1)
        PROVE  /\ level'[readlevellist'[i]] # NULL
               /\ mergetrxnum <= level'[readlevellist'[i]]
    <3>1. CASE i \in 1..Len(s)
      BY <3>1, <2>6
    <3>2. CASE i = Len(s) + 1
      BY <3>2, <2>2, <2>3, <2>4, <2>5 DEF NULL, FirstTrxNum
    <3> QED
      BY <3>1, <3>2, <2>3
  <2>9. Ordered(readlevellist)'
    BY <1>1, <2>3, <2>7, <2>8 DEF Ordered
  <2>10. instorage' \subseteq Visible(mergetrxnum)'
    BY <1>1, <2>2, StorageStep
  <2> QED
    BY <1>1, <2>9, <2>10 DEF MergeInv
<1> QED
  BY <1>2, <1>3

\* The end of a transaction raises the merge level to the oldest level left.
LEMMA EndMergeStep ==
  ASSUME LevelsInv, LevelsInv', MergeInv, [Next]_vars, NEW t \in Trx,
         NEW ok \in BOOLEAN, EndTrx(t, ok),
         RelaxedReadLevel => \A u \in Trx : commitst'[u] # "level"
  PROVE  MergeInv'
<1> DEFINE s == LevelsWithout(t)
           r == readlevellist'
<1>1. /\ level \in [Trx -> Nat] /\ readlevellist \in Seq(Trx) /\ maxtrxnum \in Nat
      /\ mergetrxnum \in Nat /\ maxtrxnum' \in Nat /\ mergetrxnum' \in Nat
      /\ activemergetrxnum \in Nat
  BY DEF LevelsInv, LevelTypes
<1>2. /\ maxtrxnum <= maxtrxnum' /\ FirstTrxNum <= maxtrxnum
      /\ mergetrxnum <= maxtrxnum /\ Ordered(readlevellist)
  BY EndTrxNumbers DEF LevelsInv, MergeInv
<1>3. Ordered(s) /\ \A j \in DOMAIN s : s[j] # t
  <2>1. CASE In(t, readlevellist)
    <3> DEFINE i == CHOOSE j \in DOMAIN readlevellist : readlevellist[j] = t
    <3>1. i \in 1..Len(readlevellist) /\ readlevellist[i] = t
      BY <1>1, <2>1 DEF In
    <3>2. s = Remove(readlevellist, i)
      BY <2>1 DEF LevelsWithout
    <3> HIDE DEF i
    <3> QED
      BY <1>1, <1>2, <3>1, <3>2, OrderedRemove
  <2>2. CASE ~In(t, readlevellist)
    BY <1>2, <2>2 DEF LevelsWithout, In
  <2> QED
    BY <2>1, <2>2
<1>4. s \in Seq(Trx)
  BY <1>3 DEF Ordered
<1>5. PICK m \in 0..Len(s) :
        /\ r = Drop(s, m)
        /\ level' = [u \in Trx |->
                       IF \/ u = t /\ In(t, readlevellist)
                          \/ \E i \in 1..m : s[i] = u
                         THEN NULL ELSE level[u]]
  BY <1>4, EndTrxReadLevels
<1>6. /\ Ordered(r)
      /\ \A j \in DOMAIN r : /\ \A k \in 1..m : r[j] # s[k]
                             /\ \E k \in DOMAIN s : r[j] = s[k]
  BY <1>3, <1>5, OrderedDrop
<1>7. ASSUME NEW j \in DOMAIN r
      PROVE  r[j] \in Trx /\ level'[r[j]] = level[r[j]]
  <2>1. r[j] \in Trx
    BY <1>6 DEF Ordered
  <2>2. r[j] # t /\ \A k \in 1..m : r[j] # s[k]
    BY <1>3, <1>6
  <2> QED
    BY <1>5, <2>1, <2>2
<1>8. mergetrxnum' = Raise(mergetrxnum, IF r = << >> THEN maxtrxnum' ELSE level[r[1]])
  BY DEF EndTrx, MergeLevel
<1>9. r # << >> => r[1] \in Trx /\ 1 \in DOMAIN r
  BY <1>6 DEF Ordered
<1>10. mergetrxnum <= mergetrxnum' /\ mergetrxnum' <= maxtrxnum'
  <2>1. r # << >> => level[r[1]] \in Nat /\ level[r[1]] <= maxtrxnum
    BY <1>1, <1>9 DEF LevelsInv, NumbersInv
  <2> QED
    BY <1>1, <1>2, <1>8, <2>1 DEF Raise
<1>11. ASSUME NEW j \in DOMAIN r
       PROVE  mergetrxnum' <= level[r[j]]
  <2>1. r # << >> /\ r[1] \in Trx /\ r[j] \in Trx /\ 1 \in DOMAIN r
    BY <1>6, <1>7, <1>9 DEF Ordered
  <2>2. level[r[1]] <= level[r[j]]
    <3>1. j = 1 \/ 1 < j
      BY <1>6 DEF Ordered
    <3> QED
      BY <1>1, <1>6, <2>1, <3>1 DEF Ordered
  <2>3. mergetrxnum <= level[r[j]]
    BY <1>6 DEF Ordered
  <2> QED
    BY <1>1, <1>8, <2>1, <2>2, <2>3 DEF Raise
<1>12. Ordered(readlevellist)'
  BY <1>6, <1>7, <1>11 DEF Ordered
<1>13. UNCHANGED <<activemergetrxnum, instorage>>
  BY DEF EndTrx, storage
<1>14. instorage' \subseteq Visible(mergetrxnum)'
  BY <1>10, <1>13, StorageStep
<1>15. FirstTrxNum <= maxtrxnum' /\ activemergetrxnum <= mergetrxnum'
  BY <1>1, <1>2, <1>10 DEF MergeInv, FirstTrxNum
<1> QED
  BY <1>10, <1>12, <1>13, <1>14, <1>15 DEF MergeInv

LEMMA MergeInvStep ==
  ASSUME RelaxedReadLevel, LevelsInv, LevelsInv', MergeInv, [Next]_vars
  PROVE  MergeInv'
<1>1. /\ \A t \in Trx : commitst[t] # "level"
      /\ commitst \in [Trx -> CommitSts]
      /\ mergetrxnum \in Nat /\ activemergetrxnum \in Nat /\ maxtrxnum \in Nat
  BY DEF MergeInv, LevelsInv, LevelTypes
<1>2. \A t \in Trx : commitst'[t] # "level"
  <2>1. ASSUME NEW t \in Trx, Statement(t)
        PROVE  commitst' \in {commitst, [commitst EXCEPT ![t] = "init"]}
    BY <1>1, <2>1 DEF Statement, Begin, BeginReadLevel, BeginAddReadLevel, TouchTable,
          AskStorageTree, MarkWrite, Write, Fail, StmtRollback,
          SetCanRemoveReadLevel, Restart
  <2>2. ASSUME NEW t \in Trx, StartCommit(t) \/ FinishCommit(t) \/ EndNow(t)
        PROVE  \E c \in {"validate", "end", "waitreadlevel", "done"} :
                 commitst' = [commitst EXCEPT ![t] = c]
    BY <2>2 DEF StartCommit, CommitNoTable, CommitValidate, CommitDelayed,
          FinishCommit, Validate, EndCommit, WaitReadLevel, EndNow,
          CommitReadOnly, Rollback
  <2>3. CASE Merge \/ UNCHANGED vars
    BY <1>1, <2>3 DEF Merge, ReleaseReadLevels, MergeStart, MergeDone, vars
  <2>4. ASSUME NEW t \in Trx, Statement(t)
        PROVE  \A u \in Trx : commitst'[u] # "level"
    BY <1>1, <2>1, <2>4
  <2>5. ASSUME NEW t \in Trx, StartCommit(t) \/ FinishCommit(t) \/ EndNow(t)
        PROVE  \A u \in Trx : commitst'[u] # "level"
    BY <1>1, <2>2, <2>5
  <2> QED
    BY <2>3, <2>4, <2>5 DEF Next
<1>3. ASSUME NEW t \in Trx, Statement(t)
      PROVE  MergeInv'
  <2>1. CASE TouchTable(t)
    BY <2>1, TouchTableStep
  <2>2. CASE BeginReadLevel(t) \/ BeginAddReadLevel(t)
    BY <1>1, <2>2 DEF BeginReadLevel, BeginAddReadLevel
  <2>3. CASE Begin(t) \/ AskStorageTree(t) \/ MarkWrite(t) \/ Write(t) \/ Fail(t)
             \/ StmtRollback(t) \/ SetCanRemoveReadLevel(t) \/ Restart(t)
    <3>1. UNCHANGED <<maxtrxnum, mergetrxnum, activemergetrxnum, instorage,
                      readlevellist, level>>
      BY <2>3 DEF Begin, AskStorageTree, MarkWrite, Write, Fail, StmtRollback,
            SetCanRemoveReadLevel, Restart, lists, counters, storage
    <3> QED
      BY <1>2, <3>1, MergeQuietStep
  <2> QED
    BY <1>3, <2>1, <2>2, <2>3 DEF Statement
<1>4. ASSUME NEW t \in Trx,
             StartCommit(t) \/ Validate(t) \/ WaitReadLevel(t)
      PROVE  MergeInv'
  <2>1. UNCHANGED <<maxtrxnum, mergetrxnum, activemergetrxnum, instorage,
                    readlevellist, level>>
    BY <1>4 DEF StartCommit, CommitNoTable, CommitValidate, CommitDelayed,
          Validate, WaitReadLevel, lists, counters, storage
  <2> QED
    BY <1>2, <2>1, MergeQuietStep
<1>5. ASSUME NEW t \in Trx, EndCommit(t) \/ EndNow(t)
      PROVE  MergeInv'
  <2>1. PICK ok \in BOOLEAN : EndTrx(t, ok)
    BY <1>5 DEF EndCommit, EndNow, CommitReadOnly, Rollback
  <2> QED
    BY <1>2, <2>1, EndMergeStep
<1>6. CASE ReleaseReadLevels
  <2>1. PICK n \in 0..Len(readlevellist) :
          /\ readlevellist' = Drop(readlevellist, n)
          /\ level' = [u \in Trx |-> IF \E i \in 1..n : readlevellist[i] = u
                                       THEN NULL ELSE level[u]]
    BY <1>6 DEF ReleaseReadLevels, ReleaseCounts
  <2>2. UNCHANGED <<maxtrxnum, mergetrxnum, activemergetrxnum, instorage>>
    BY <1>6 DEF ReleaseReadLevels, counters, storage
  <2>3. /\ Ordered(readlevellist')
        /\ \A j \in DOMAIN readlevellist' :
             \A k \in 1..n : readlevellist'[j] # readlevellist[k]
    BY <2>1, OrderedDrop DEF MergeInv
  <2>4. ASSUME NEW j \in DOMAIN readlevellist'
        PROVE  level'[readlevellist'[j]] = level[readlevellist'[j]]
    <3>1. readlevellist'[j] \in Trx
      BY <2>3 DEF Ordered
    <3> QED
      BY <2>1, <2>3, <3>1
  <2>5. Ordered(readlevellist)'
    BY <2>2, <2>3, <2>4 DEF Ordered
  <2>6. instorage' \subseteq Visible(mergetrxnum)'
    BY <1>1, <2>2, StorageStep
  <2> QED
    BY <1>2, <2>2, <2>5, <2>6 DEF MergeInv
<1>7. CASE MergeStart \/ MergeDone
  <2>1. UNCHANGED <<maxtrxnum, mergetrxnum, readlevellist, level>>
    BY <1>7 DEF MergeStart, MergeDone, lists
  <2>2. activemergetrxnum' \in {NULL, mergetrxnum}
    BY <1>7 DEF MergeStart, MergeDone
  <2>3. Visible(activemergetrxnum) \subseteq Visible(mergetrxnum)
    <3>1. \A u \in Trx : num[u] \in Nat
      BY DEF LevelsInv, LevelTypes
    <3>2. activemergetrxnum <= mergetrxnum
      BY DEF MergeInv
    <3>3. \A u \in Trx : num[u] <= activemergetrxnum => num[u] <= mergetrxnum
      BY <1>1, <3>1, <3>2
    <3> QED
      BY <3>3 DEF Visible
  <2>4. instorage' \subseteq instorage \cup Visible(activemergetrxnum)
    BY <1>7 DEF MergeStart, MergeDone, storage
  <2>5. instorage' \subseteq Visible(mergetrxnum)'
    BY <1>1, <2>1, <2>3, <2>4, StorageStep
  <2>6. Ordered(readlevellist)'
    BY <2>1 DEF MergeInv, Ordered
  <2> QED
    BY <1>1, <1>2, <2>1, <2>2, <2>5, <2>6 DEF MergeInv, NULL
<1>8. CASE UNCHANGED vars
  <2>1. UNCHANGED <<maxtrxnum, mergetrxnum, activemergetrxnum, instorage,
                    readlevellist, level>>
    BY <1>8 DEF vars, lists, counters, storage
  <2> QED
    BY <1>2, <2>1, MergeQuietStep
<1> QED
  BY <1>3, <1>4, <1>5, <1>6, <1>7, <1>8 DEF Next, FinishCommit, Merge

LEMMA MergeInit ==
  ASSUME RelaxedReadLevel, Init
  PROVE  MergeInv
  BY DEF Init, MergeInv, Ordered, Visible, NULL, FirstTrxNum

-----------------------------------------------------------------------------
(***************************************************************************)
(* The refinement of module Snapshot                                       *)
(***************************************************************************)

\* The view of t, in terms of the levels.
View(t) == IF level[t] = NULL THEN {} ELSE {Visible(level[t])}

\* Visible sets at levels in use do not change, and the published set grows.
LEMMA ViewsStep ==
  ASSUME LevelsInv, LevelsInv', [Next]_vars, maxtrxnum <= maxtrxnum'
  PROVE  /\ Visible(maxtrxnum) \subseteq Visible(maxtrxnum)'
         /\ maxtrxnum' = maxtrxnum => Visible(maxtrxnum)' = Visible(maxtrxnum)
         /\ \A t \in Trx : level'[t] = level[t] => View(t)' = View(t)
         /\ \A t \in Trx : level'[t] = NULL => View(t)' = {}
<1>1. /\ maxtrxnum \in Nat /\ maxtrxnum' \in Nat /\ level \in [Trx -> Nat]
      /\ \A u \in Trx : num'[u] \in Nat
  BY DEF LevelsInv, LevelTypes
<1>2. ASSUME NEW u \in Visible(maxtrxnum)
      PROVE  u \in Visible(maxtrxnum)'
  <2>1. u \in Trx
    BY DEF Visible
  <2>2. state'[u] = "commit" /\ writes'[u] /\ dtable'[u] /\ num'[u] <= maxtrxnum
    BY <1>1, <2>1, VisibleStep DEF Visible
  <2>3. num'[u] <= maxtrxnum'
    BY <1>1, <2>1, <2>2
  <2> QED
    BY <2>1, <2>2, <2>3 DEF Visible
<1>3. ASSUME maxtrxnum' = maxtrxnum
      PROVE  Visible(maxtrxnum)' = Visible(maxtrxnum)
  <2>1. \A u \in Trx :
          state'[u] = "commit" /\ writes'[u] /\ dtable'[u] /\ num'[u] <= maxtrxnum'
            <=> state[u] = "commit" /\ writes[u] /\ dtable[u] /\ num[u] <= maxtrxnum
    BY <1>1, <1>3, VisibleStep
  <2> QED
    BY <2>1 DEF Visible
<1>4. ASSUME NEW t \in Trx, level'[t] = level[t]
      PROVE  View(t)' = View(t)
  <2>1. level[t] \in Nat /\ level[t] <= maxtrxnum
    BY <1>1 DEF LevelsInv, NumbersInv
  <2>2. \A u \in Trx :
          state'[u] = "commit" /\ writes'[u] /\ dtable'[u] /\ num'[u] <= level'[t]
            <=> state[u] = "commit" /\ writes[u] /\ dtable[u] /\ num[u] <= level[t]
    BY <1>4, <2>1, VisibleStep
  <2>3. Visible(level[t])' = Visible(level[t])
    BY <2>2 DEF Visible
  <2> QED
    BY <1>4, <2>3 DEF View
<1>5. ASSUME NEW t \in Trx, level'[t] = NULL
      PROVE  View(t)' = {}
  BY <1>5 DEF View
<1> QED
  BY <1>2, <1>3, <1>4, <1>5

\* Steps that hand out no level publish some commits and end some views.
LEMMA PublishStep ==
  ASSUME LevelsInv, LevelsInv', [Next]_vars, maxtrxnum <= maxtrxnum',
         \A t \in Trx : level'[t] \in {NULL, level[t]}
  PROVE  Abstract!Next
<1> DEFINE C == Visible(maxtrxnum)' \ Visible(maxtrxnum)
           D == {t \in Trx : level'[t] = NULL}
<1>1. Visible(maxtrxnum)' = Visible(maxtrxnum) \cup C
  BY ViewsStep
<1>2. \A t \in Trx : View(t)' = IF t \in D THEN {} ELSE View(t)
  BY ViewsStep
<1>3. [t \in Trx |-> View(t)'] = [t \in Trx |-> IF t \in D THEN {} ELSE [u \in Trx |-> View(u)][t]]
  BY <1>2
<1>4. C \in SUBSET Trx /\ D \in SUBSET Trx
  BY DEF Visible
<1> HIDE DEF C, D
<1> QED
  BY <1>1, <1>3, <1>4 DEF Abstract!Next, Abstract!Publish, View

\* A level that is handed out is a view of what is published.
LEMMA TakeStep ==
  ASSUME LevelsInv, LevelsInv', [Next]_vars, NEW t \in Trx, level[t] = NULL,
         maxtrxnum' = maxtrxnum, level' = [level EXCEPT ![t] = maxtrxnum]
  PROVE  Abstract!Next
<1>1. /\ maxtrxnum \in Nat /\ level \in [Trx -> Nat]
      /\ \A u \in Trx \ {t} : level'[u] = level[u]
      /\ level'[t] = maxtrxnum
  BY DEF LevelsInv, LevelTypes
<1>2. /\ Visible(maxtrxnum)' = Visible(maxtrxnum)
      /\ \A u \in Trx \ {t} : View(u)' = View(u)
  BY <1>1, ViewsStep
<1>3. CASE maxtrxnum = NULL
  BY <1>1, <1>3, PublishStep
<1>4. CASE maxtrxnum # NULL
  <2>1. View(t) = {}
    BY DEF View
  <2>2. View(t)' = {Visible(maxtrxnum)}
    BY <1>1, <1>2, <1>4 DEF View, Visible
  <2>3. [u \in Trx |-> View(u)'] =
          [[u \in Trx |-> View(u)] EXCEPT ![t] = {Visible(maxtrxnum)}]
    BY <1>2, <2>2
  <2>4. Abstract!Take(t)
    BY <1>2, <2>1, <2>3 DEF Abstract!Take, View
  <2> QED
    BY <2>4 DEF Abstract!Next
<1> QED
  BY <1>3, <1>4

\* Every step is one of the snapshots or leaves them alone.
LEMMA RefinementStep ==
  ASSUME LevelsInv, LevelsInv', [Next]_vars
  PROVE  Abstract!Next
<1>1. maxtrxnum \in Nat /\ level \in [Trx -> Nat]
  BY DEF LevelsInv, LevelTypes
<1>2. ASSUME NEW t \in Trx, Statement(t)
      PROVE  Abstract!Next
  <2>1. CASE BeginReadLevel(t)
    BY <2>1, TakeStep DEF BeginReadLevel, counters
  <2>2. CASE TouchTable(t) /\ level[t] = NULL
    <3>1. level' = [level EXCEPT ![t] = maxtrxnum] /\ maxtrxnum' = maxtrxnum
      BY <2>2 DEF TouchTable, counters
    <3> QED
      BY <2>2, <3>1, TakeStep
  <2>3. CASE TouchTable(t) /\ level[t] # NULL
    <3>1. level' = level /\ maxtrxnum' = maxtrxnum
      BY <2>3 DEF TouchTable, counters
    <3> QED
      BY <1>1, <3>1, PublishStep
  <2>4. CASE Begin(t) \/ BeginAddReadLevel(t) \/ AskStorageTree(t) \/ MarkWrite(t)
             \/ Write(t) \/ Fail(t) \/ StmtRollback(t)
             \/ SetCanRemoveReadLevel(t) \/ Restart(t)
    <3>1. level' = level /\ maxtrxnum' = maxtrxnum
      BY <2>4 DEF Begin, BeginAddReadLevel, AskStorageTree, MarkWrite, Write,
            Fail, StmtRollback, SetCanRemoveReadLevel, Restart, counters
    <3> QED
      BY <1>1, <3>1, PublishStep
  <2> QED
    BY <1>2, <2>1, <2>2, <2>3, <2>4 DEF Statement
<1>3. ASSUME NEW t \in Trx, StartCommit(t) \/ Validate(t) \/ WaitReadLevel(t)
      PROVE  Abstract!Next
  <2>1. level' = level /\ maxtrxnum' = maxtrxnum
    BY <1>3 DEF StartCommit, CommitNoTable, CommitValidate, CommitDelayed,
          Validate, WaitReadLevel, counters
  <2> QED
    BY <1>1, <2>1, PublishStep
<1>4. ASSUME NEW t \in Trx, EndCommit(t) \/ EndNow(t)
      PROVE  Abstract!Next
  <2>1. PICK ok \in BOOLEAN : EndTrx(t, ok)
    BY <1>4 DEF EndCommit, EndNow, CommitReadOnly, Rollback
  <2>2. maxtrxnum <= maxtrxnum'
    BY <2>1, EndTrxNumbers DEF LevelsInv
  <2>3. LevelsWithout(t) \in Seq(Trx)
    BY LevelsWithoutType DEF LevelsInv, LevelTypes
  <2>4. \A u \in Trx : level'[u] \in {NULL, level[u]}
    BY <2>1, <2>3, EndTrxReadLevels
  <2> QED
    BY <2>2, <2>4, PublishStep
<1>5. CASE Merge \/ UNCHANGED vars
  <2>1. maxtrxnum' = maxtrxnum /\ \A u \in Trx : level'[u] \in {NULL, level[u]}
    BY <1>5 DEF Merge, ReleaseReadLevels, MergeStart, MergeDone, vars, counters
  <2> QED
    BY <1>1, <2>1, PublishStep
<1> QED
  BY <1>2, <1>3, <1>4, <1>5 DEF Next, FinishCommit

-----------------------------------------------------------------------------
(***************************************************************************)
(* Readers of the storage tree alone                                       *)
(***************************************************************************)

\* What the counters say the storage tree has, it has.
StorageHas ==
  /\ storagetrxnum <= maxtrxnum /\ activemergetrxnum <= maxtrxnum
  /\ mergetrxnum <= maxtrxnum
  /\ Visible(storagetrxnum) \subseteq instorage

\* Who reads the storage tree alone has a level it has reached, and no writes of
\* its own.  Nobody is told so while it writes or before it has its level.
ReaderOK(t) ==
  /\ writes[t] => storageonly[t] = "no"
  /\ state[t] = "new" \/ commitst[t] = "level" => storageonly[t] = "no" /\ ~writes[t]
  /\ state[t] = "new" => commitst[t] = "init"
  /\ storageonly[t] = "yes" => level[t] <= storagetrxnum

StorageInv == StorageHas /\ \A t \in Trx : ReaderOK(t)

\* The commits a level shows stay the same ones.
LEMMA SameVisible ==
  ASSUME LevelsInv, [Next]_vars, NEW L \in Nat, L <= maxtrxnum
  PROVE  Visible(L)' = Visible(L)
  BY VisibleStep DEF Visible

\* An end of a transaction raises the merge level to a visible number at most.
LEMMA EndBelow ==
  ASSUME LevelsInv, LevelsInv', StorageHas, NEW t \in Trx, NEW ok \in BOOLEAN,
         EndTrx(t, ok)
  PROVE  maxtrxnum <= maxtrxnum' /\ mergetrxnum' <= maxtrxnum'
<1>1. maxtrxnum <= maxtrxnum'
  BY EndTrxNumbers DEF LevelsInv
<1>2. /\ level' \in [Trx -> Nat] /\ readlevellist' \in Seq(Trx)
      /\ maxtrxnum \in Nat /\ maxtrxnum' \in Nat /\ mergetrxnum \in Nat
      /\ \A u \in Trx : level'[u] <= maxtrxnum'
  BY DEF LevelsInv, LevelTypes, NumbersInv
<1>3. PICK k : k = MergeLevel(readlevellist', maxtrxnum')
  OBVIOUS
<1>4. mergetrxnum' = Raise(mergetrxnum, MergeLevel(readlevellist', maxtrxnum'))
  BY DEF EndTrx
<1>5. k = maxtrxnum' \/ \E u \in Trx : k = level[u] \/ k = level'[u]
  <2>1. CASE readlevellist' = << >>
    BY <1>3, <2>1 DEF MergeLevel
  <2>2. CASE readlevellist' # << >>
    <3>1. readlevellist'[1] \in Trx
      BY <1>2, <2>2
    <3> QED
      BY <1>3, <2>2, <3>1 DEF MergeLevel
  <2> QED
    BY <2>1, <2>2
<1>6. /\ level \in [Trx -> Nat]
      /\ \A u \in Trx : level[u] <= maxtrxnum
  BY DEF LevelsInv, LevelTypes, NumbersInv
<1>7. k \in Nat /\ k <= maxtrxnum'
  BY <1>1, <1>2, <1>5, <1>6
<1>8. mergetrxnum' = Raise(mergetrxnum, k)
  BY <1>3, <1>4
<1>9. mergetrxnum <= maxtrxnum
  BY DEF StorageHas
<1> QED
  BY <1>1, <1>2, <1>7, <1>8, <1>9 DEF Raise

\* The counters keep their order, and the storage tree what they say of it.
LEMMA StorageHasStep ==
  ASSUME LevelsInv, LevelsInv', StorageHas, [Next]_vars
  PROVE  StorageHas'
<1>1. /\ maxtrxnum \in Nat /\ maxtrxnum' \in Nat /\ mergetrxnum \in Nat
      /\ activemergetrxnum \in Nat /\ storagetrxnum \in Nat
  BY DEF LevelsInv, LevelTypes
<1>2. ASSUME UNCHANGED <<maxtrxnum, mergetrxnum, activemergetrxnum, storage>>
      PROVE  StorageHas'
  <2>1. Visible(storagetrxnum)' = Visible(storagetrxnum)
    BY <1>1, <1>2, SameVisible DEF StorageHas, storage
  <2> QED
    BY <1>2, <2>1 DEF StorageHas, storage
<1>3. ASSUME NEW t \in Trx, EndCommit(t) \/ EndNow(t)
      PROVE  StorageHas'
  <2>1. PICK ok \in BOOLEAN : EndTrx(t, ok)
    BY <1>3 DEF EndCommit, EndNow, CommitReadOnly, Rollback
  <2>2. UNCHANGED <<activemergetrxnum, storage>>
    BY <2>1 DEF EndTrx
  <2>3. maxtrxnum <= maxtrxnum' /\ mergetrxnum' <= maxtrxnum'
    BY <2>1, EndBelow
  <2>4. Visible(storagetrxnum)' = Visible(storagetrxnum)
    BY <1>1, <2>2, SameVisible DEF StorageHas, storage
  <2> QED
    BY <1>1, <2>2, <2>3, <2>4 DEF StorageHas, storage
<1>4. CASE MergeStart
  <2>1. UNCHANGED <<maxtrxnum, mergetrxnum, storage>> /\ activemergetrxnum' = mergetrxnum
    BY <1>4 DEF MergeStart
  <2>2. Visible(storagetrxnum)' = Visible(storagetrxnum)
    BY <1>1, <2>1, SameVisible DEF StorageHas, storage
  <2> QED
    BY <2>1, <2>2 DEF StorageHas, storage
<1>5. CASE MergeDone
  <2>1. /\ UNCHANGED <<maxtrxnum, mergetrxnum>> /\ activemergetrxnum' = NULL
        /\ instorage \subseteq instorage'
        /\ \/ storagetrxnum' = storagetrxnum
           \/ /\ storagetrxnum' = Raise(storagetrxnum, activemergetrxnum)
              /\ Visible(activemergetrxnum) \subseteq instorage'
    BY <1>5 DEF MergeDone
  <2>2. storagetrxnum' <= maxtrxnum
    BY <1>1, <2>1 DEF StorageHas, Raise
  <2>3. Visible(storagetrxnum)' \subseteq instorage'
    <3>1. \A u \in Trx : num[u] \in Nat /\ num'[u] = num[u]
      BY <1>5 DEF MergeDone, LevelsInv, LevelTypes
    <3>2. UNCHANGED <<state, writes, dtable>>
      BY <1>5 DEF MergeDone, session
    <3>3. storagetrxnum' \in {storagetrxnum, activemergetrxnum}
      BY <2>1 DEF Raise
    <3>4. CASE storagetrxnum' = storagetrxnum
      BY <2>1, <3>1, <3>2, <3>4 DEF StorageHas, Visible
    <3>5. CASE storagetrxnum' # storagetrxnum
      BY <2>1, <3>1, <3>2, <3>3, <3>5 DEF Visible
    <3> QED
      BY <3>4, <3>5
  <2> QED
    BY <1>1, <2>1, <2>2, <2>3 DEF StorageHas, NULL
<1>6. ASSUME NEW t \in Trx,
             Statement(t) \/ StartCommit(t) \/ Validate(t) \/ WaitReadLevel(t)
      PROVE  StorageHas'
  <2>1. CASE Statement(t)
    BY <1>2, <2>1 DEF Statement, Begin, BeginReadLevel, BeginAddReadLevel,
          TouchTable, AskStorageTree, MarkWrite, Write, Fail, StmtRollback,
          SetCanRemoveReadLevel, Restart, counters
  <2>2. CASE StartCommit(t) \/ Validate(t) \/ WaitReadLevel(t)
    BY <1>2, <2>2 DEF StartCommit, CommitNoTable, CommitValidate, CommitDelayed,
          Validate, WaitReadLevel, counters
  <2> QED
    BY <1>6, <2>1, <2>2
<1>7. CASE ReleaseReadLevels \/ UNCHANGED vars
  BY <1>2, <1>7 DEF ReleaseReadLevels, vars, counters
<1> QED
  BY <1>3, <1>4, <1>5, <1>6, <1>7 DEF Next, FinishCommit, Merge

\* A transaction nothing happens to, except that its level may go.
LEMMA ReaderKept ==
  ASSUME LevelsInv, NEW t \in Trx, ReaderOK(t),
         UNCHANGED <<writes[t], storageonly[t], state[t], commitst[t]>>,
         level'[t] \in {NULL, level[t]}, storagetrxnum <= storagetrxnum',
         storagetrxnum' \in Nat
  PROVE  ReaderOK(t)'
<1>1. level[t] \in Nat /\ storagetrxnum \in Nat
  BY DEF LevelsInv, LevelTypes
<1>2. level[t] <= storagetrxnum => level'[t] <= storagetrxnum'
  BY <1>1 DEF NULL
<1> QED
  BY <1>2 DEF ReaderOK

\* A step of a transaction before its end: only asking makes a reader of the
\* storage tree, and it looks at the counter after the level was taken.
LEMMA StatementReader ==
  ASSUME LevelsInv, LevelsInv', NEW t \in Trx, ReaderOK(t), Statement(t)
  PROVE  ReaderOK(t)'
<1>1. /\ state \in [Trx -> States] /\ commitst \in [Trx -> CommitSts]
      /\ level \in [Trx -> Nat] /\ storagetrxnum \in Nat
      /\ writes \in [Trx -> BOOLEAN]
      /\ storageonly \in [Trx -> {"no", "asking", "yes"}]
  BY DEF LevelsInv, LevelTypes
<1>2. storagetrxnum' = storagetrxnum
  BY DEF Statement, Begin, BeginReadLevel, BeginAddReadLevel, TouchTable,
     AskStorageTree, MarkWrite, Write, Fail, StmtRollback, SetCanRemoveReadLevel,
     Restart, counters, storage
<1>3. CASE Begin(t)
  BY <1>1, <1>2, <1>3 DEF Begin, ReaderOK, session
<1>4. CASE BeginReadLevel(t)
  BY <1>1, <1>2, <1>4 DEF BeginReadLevel, ReaderOK, session
<1>5. CASE BeginAddReadLevel(t)
  BY <1>1, <1>2, <1>5 DEF BeginAddReadLevel, ReaderOK
<1>6. CASE TouchTable(t)
  <2>1. UNCHANGED <<state, commitst, writes>> /\ Open(t)
    BY <1>6 DEF TouchTable
  <2>2. CASE level[t] = NULL /\ ~writes[t]
    <3>1. storageonly'[t] = "asking"
      BY <1>1, <1>6, <2>2 DEF TouchTable
    <3> QED
      BY <2>1, <2>2, <3>1 DEF ReaderOK, Open
  <2>3. CASE level[t] # NULL
    BY <1>2, <1>6, <2>1, <2>3 DEF TouchTable, ReaderOK
  <2>4. CASE level[t] = NULL /\ writes[t]
    <3>1. storageonly'[t] = storageonly[t]
      BY <1>1, <1>6, <2>4 DEF TouchTable
    <3> QED
      BY <2>1, <2>4, <3>1 DEF ReaderOK, Open
  <2> QED
    BY <2>2, <2>3, <2>4
<1>7. CASE AskStorageTree(t)
  <2>1. UNCHANGED <<state, commitst, writes, level>>
    BY <1>7 DEF AskStorageTree
  <2>2. storageonly[t] = "asking"
        /\ storageonly'[t] = IF storagetrxnum >= level[t] THEN "yes" ELSE "no"
    BY <1>1, <1>7 DEF AskStorageTree
  <2>3. storagetrxnum >= level[t] <=> level[t] <= storagetrxnum
    BY <1>1
  <2> QED
    BY <1>2, <2>1, <2>2, <2>3 DEF ReaderOK
<1>8. CASE MarkWrite(t)
  BY <1>1, <1>2, <1>8 DEF MarkWrite, ReaderOK, Open
<1>9. CASE Write(t) \/ Fail(t) \/ StmtRollback(t) \/ SetCanRemoveReadLevel(t) \/ Restart(t)
  BY <1>2, <1>9 DEF Write, Fail, StmtRollback, SetCanRemoveReadLevel, Restart,
     ReaderOK, session
<1> QED
  BY <1>3, <1>4, <1>5, <1>6, <1>7, <1>8, <1>9 DEF Statement

\* Every reader of the storage tree alone stays one that may be.
LEMMA ReadersStep ==
  ASSUME LevelsInv, LevelsInv', StorageInv, [Next]_vars
  PROVE  \A u \in Trx : ReaderOK(u)'
<1>1. /\ storagetrxnum \in Nat /\ storagetrxnum' \in Nat /\ level \in [Trx -> Nat]
      /\ activemergetrxnum \in Nat /\ readlevellist \in Seq(Trx)
  BY DEF LevelsInv, LevelTypes
<1>2. ASSUME NEW t \in Trx, Statement(t)
      PROVE  \A u \in Trx : ReaderOK(u)'
  <2>1. \A u \in Trx \ {t} :
          UNCHANGED <<writes[u], storageonly[u], state[u], commitst[u], level[u]>>
    <3>1. CASE Begin(t) \/ BeginReadLevel(t) \/ BeginAddReadLevel(t)
      BY <3>1 DEF Begin, BeginReadLevel, BeginAddReadLevel, session, LevelsInv, LevelTypes
    <3>2. CASE TouchTable(t) \/ AskStorageTree(t) \/ MarkWrite(t)
      <4>1. /\ UNCHANGED <<state, commitst>>
            /\ \A u \in Trx \ {t} : writes'[u] = writes[u]
            /\ level' = level \/ level' = [level EXCEPT ![t] = maxtrxnum]
        BY <3>2 DEF TouchTable, AskStorageTree, MarkWrite, LevelsInv, LevelTypes
      <4>2. \A u \in Trx \ {t} : storageonly'[u] = storageonly[u]
        BY <3>2 DEF TouchTable, AskStorageTree, MarkWrite, LevelsInv, LevelTypes
      <4> QED
        BY <1>1, <4>1, <4>2
    <3>3. CASE Write(t) \/ Fail(t) \/ StmtRollback(t) \/ SetCanRemoveReadLevel(t)
               \/ Restart(t)
      BY <3>3 DEF Write, Fail, StmtRollback, SetCanRemoveReadLevel, Restart, session
    <3> QED
      BY <1>2, <3>1, <3>2, <3>3 DEF Statement
  <2>2. storagetrxnum' = storagetrxnum
    BY <1>2 DEF Statement, Begin, BeginReadLevel, BeginAddReadLevel, TouchTable,
       AskStorageTree, MarkWrite, Write, Fail, StmtRollback,
       SetCanRemoveReadLevel, Restart, counters, storage
  <2>3. \A u \in Trx \ {t} : ReaderOK(u)'
    BY <1>1, <2>1, <2>2, ReaderKept DEF StorageInv
  <2>4. ReaderOK(t)'
    BY <1>2, StatementReader DEF StorageInv
  <2> QED
    BY <2>3, <2>4
<1>3. ASSUME NEW t \in Trx, StartCommit(t) \/ Validate(t) \/ WaitReadLevel(t)
      PROVE  \A u \in Trx : ReaderOK(u)'
  <2>1. UNCHANGED <<writes, storageonly, level, storagetrxnum>>
    BY <1>3 DEF StartCommit, CommitNoTable, CommitValidate, CommitDelayed,
       Validate, WaitReadLevel, session, counters, storage
  <2>2. \A u \in Trx \ {t} : UNCHANGED <<state[u], commitst[u]>>
    BY <1>3 DEF StartCommit, CommitNoTable, CommitValidate, CommitDelayed,
       Validate, WaitReadLevel, LevelsInv, LevelTypes
  <2>3. state[t] # "new"
    BY <1>3 DEF StartCommit, CommitNoTable, CommitValidate, CommitDelayed, Committing,
       Open, Validate, WaitReadLevel, StorageInv, ReaderOK
  <2>4. state'[t] # "new" /\ commitst'[t] # "level"
    BY <1>3, <2>3 DEF StartCommit, CommitNoTable, CommitValidate, CommitDelayed,
       Validate, WaitReadLevel, LevelsInv, LevelTypes
  <2> QED
    BY <2>1, <2>2, <2>4 DEF StorageInv, ReaderOK
<1>4. ASSUME NEW t \in Trx, EndCommit(t) \/ EndNow(t)
      PROVE  \A u \in Trx : ReaderOK(u)'
  <2>1. PICK ok \in BOOLEAN : EndTrx(t, ok) /\ EndSession(t, ok)
    BY <1>4 DEF EndCommit, EndNow, CommitReadOnly, Rollback
  <2>2. storagetrxnum' = storagetrxnum
    BY <2>1 DEF EndTrx, storage
  <2>3. /\ state' = [state EXCEPT ![t] = IF ok THEN "commit" ELSE "abort"]
        /\ \E c \in {"done", "waitreadlevel"} : commitst' = [commitst EXCEPT ![t] = c]
        /\ \A u \in Trx \ {t} : UNCHANGED <<writes[u], storageonly[u]>>
        /\ storageonly'[t] = "no"
    <3>1. state' = [state EXCEPT ![t] = IF ok THEN "commit" ELSE "abort"]
      BY <2>1 DEF EndTrx
    <3>2. \E c \in {"done", "waitreadlevel"} : commitst' = [commitst EXCEPT ![t] = c]
      BY <1>4 DEF EndCommit, EndNow, CommitReadOnly, Rollback
    <3>3. /\ \A u \in Trx \ {t} : UNCHANGED <<writes[u], storageonly[u]>>
          /\ storageonly'[t] = "no"
      BY <2>1 DEF EndSession, LevelsInv, LevelTypes
    <3> QED
      BY <3>1, <3>2, <3>3
  <2>4. \A u \in Trx : level'[u] \in {NULL, level[u]}
    BY <1>1, <2>1, EndTrxReadLevels, LevelsWithoutType
  <2>5. ASSUME NEW u \in Trx \ {t}
        PROVE  ReaderOK(u)'
    <3>1. UNCHANGED <<writes[u], storageonly[u], state[u], commitst[u]>>
      BY <2>3 DEF LevelsInv, LevelTypes
    <3> QED
      BY <1>1, <2>2, <2>4, <3>1, ReaderKept DEF StorageInv
  <2>6. /\ storageonly'[t] = "no" /\ state'[t] \in {"commit", "abort"}
        /\ commitst'[t] \in {"done", "waitreadlevel"}
    BY <2>3 DEF LevelsInv, LevelTypes
  <2>7. ReaderOK(t)'
    BY <2>6 DEF ReaderOK
  <2> QED
    BY <2>5, <2>7
<1>5. CASE Merge \/ UNCHANGED vars
  <2>1. UNCHANGED <<writes, storageonly, state, commitst>>
    BY <1>5 DEF Merge, ReleaseReadLevels, MergeStart, MergeDone, vars, session
  <2>2. \A u \in Trx : level'[u] \in {NULL, level[u]}
    BY <1>1, <1>5 DEF Merge, ReleaseReadLevels, MergeStart, MergeDone, vars
  <2>3. storagetrxnum <= storagetrxnum'
    BY <1>1, <1>5 DEF Merge, ReleaseReadLevels, MergeStart, MergeDone, vars,
       counters, storage, Raise
  <2> QED
    BY <1>1, <2>1, <2>2, <2>3, ReaderKept DEF StorageInv
<1> QED
  BY <1>2, <1>3, <1>4, <1>5 DEF Next, FinishCommit

-----------------------------------------------------------------------------
(***************************************************************************)
(* The writes that wait for the merge                                      *)
(***************************************************************************)

\* The members of a list.
Members(s) == {s[i] : i \in DOMAIN s}

\* A list without repetitions.
Once(s) == \A i, j \in DOMAIN s : s[i] = s[j] => i = j

\* A transaction that may have a level in the list.
Registered(t) == level[t] # NULL /\ commitst[t] # "level" /\ state[t] # "new"

\* The writes that wait, each with one level of the list.
WaitInv ==
  /\ maxtrxnum # 0
  /\ Once(readlevellist)
  /\ \A t \in Trx : commitst[t] = "level" => state[t] # "new"
  /\ \A t \in Members(readlevellist) : Registered(t)
  /\ atmergewrites \in [Trx -> Nat]
  /\ \A t \in Trx : t \notin Members(readlevellist) => atmergewrites[t] = 0
  /\ pendingmergewrites = Total(atmergewrites, Members(readlevellist))

\* The members of a list.
LEMMA MembersOf ==
  ASSUME NEW S, NEW s \in Seq(S)
  PROVE  /\ IsFiniteSet(Members(s)) /\ Members(s) \subseteq S
         /\ \A t : t \in Members(s) <=> In(t, s)
<1>1. DOMAIN s = 1..Len(s) /\ Len(s) \in Nat /\ \A i \in DOMAIN s : s[i] \in S
  OBVIOUS
<1>2. IsFiniteSet(DOMAIN s)
  BY <1>1, FS_Interval
<1>3. s \in Surjection(DOMAIN s, Members(s))
  BY <1>1 DEF Surjection, Members
<1>4. IsFiniteSet(Members(s))
  BY <1>2, <1>3, FS_Surjection
<1> QED
  BY <1>1, <1>4 DEF Members, In

\* What is left when the first n entries go.
LEMMA DropMembers ==
  ASSUME NEW S, NEW s \in Seq(S), Once(s), NEW n \in 0..Len(s)
  PROVE  /\ Once(Drop(s, n))
         /\ Members(s) = {s[i] : i \in 1..n} \cup Members(Drop(s, n))
         /\ {s[i] : i \in 1..n} \cap Members(Drop(s, n)) = {}
         /\ n < Len(s) => s[n + 1] \in Members(Drop(s, n))
<1>1. Len(s) \in Nat /\ DOMAIN s = 1..Len(s)
  OBVIOUS
<1>2. PICK d : d = Drop(s, n)
  OBVIOUS
<1>3. /\ d \in Seq(S) /\ Len(d) = Len(s) - n
      /\ \A i \in 1..(Len(s) - n) : d[i] = s[i + n]
      /\ \A i \in (n + 1)..Len(s) : s[i] = d[i - n]
  BY <1>2, DropProperties
<1>4. DOMAIN d = 1..(Len(s) - n)
  BY <1>3
<1>5. Once(d)
  <2> SUFFICES ASSUME NEW i \in DOMAIN d, NEW j \in DOMAIN d, d[i] = d[j]
               PROVE  i = j
    BY DEF Once
  <2>1. i + n \in DOMAIN s /\ j + n \in DOMAIN s
    BY <1>1, <1>4
  <2>2. s[i + n] = s[j + n]
    BY <1>3, <1>4
  <2>3. i + n = j + n
    BY <2>1, <2>2 DEF Once
  <2> QED
    BY <1>1, <1>4, <2>3
<1>6. ASSUME NEW t \in Members(s)
      PROVE  t \in {s[i] : i \in 1..n} \cup Members(d)
  <2>1. PICK i \in 1..Len(s) : s[i] = t
    BY <1>1 DEF Members
  <2>2. CASE i > n
    <3>1. i - n \in 1..(Len(s) - n) /\ s[i] = d[i - n]
      BY <1>1, <1>3, <2>2
    <3> QED
      BY <1>4, <2>1, <3>1 DEF Members
  <2>3. CASE ~(i > n)
    BY <1>1, <2>1, <2>3
  <2> QED
    BY <2>2, <2>3
<1>7. ASSUME NEW t \in Members(d)
      PROVE  \E i \in 1..Len(s) : i > n /\ s[i] = t
  <2>1. PICK i \in 1..(Len(s) - n) : d[i] = t
    BY <1>4 DEF Members
  <2>2. i + n \in 1..Len(s) /\ i + n > n /\ s[i + n] = t
    BY <1>1, <1>3, <2>1
  <2> QED
    BY <2>2
<1>8. Members(d) \subseteq Members(s) /\ {s[i] : i \in 1..n} \subseteq Members(s)
  BY <1>1, <1>7 DEF Members
<1>9. {s[i] : i \in 1..n} \cap Members(d) = {}
  BY <1>1, <1>7 DEF Once
<1>10. ASSUME n < Len(s)
       PROVE  s[n + 1] \in Members(d)
  <2>1. n + 1 \in (n + 1)..Len(s) /\ 1 \in DOMAIN d
    BY <1>1, <1>4, <1>10
  <2>2. s[n + 1] = d[1]
    BY <1>3, <2>1
  <2> QED
    BY <2>1, <2>2 DEF Members
<1> QED
  BY <1>2, <1>5, <1>6, <1>8, <1>9, <1>10

\* What is left when the entry of one transaction goes.
LEMMA WithoutMembers ==
  ASSUME readlevellist \in Seq(Trx), Once(readlevellist), NEW t
  PROVE  /\ Once(LevelsWithout(t))
         /\ Members(LevelsWithout(t)) = Members(readlevellist) \ {t}
<1>1. CASE In(t, readlevellist)
  <2>1. PICK s : s = readlevellist
    OBVIOUS
  <2>2. PICK i : i = CHOOSE j \in DOMAIN readlevellist : readlevellist[j] = t
    OBVIOUS
  <2>3. Len(s) \in Nat /\ DOMAIN s = 1..Len(s) /\ i \in 1..Len(s) /\ s[i] = t
    BY <1>1, <2>1, <2>2 DEF In
  <2>4. PICK r : r = Remove(s, i)
    OBVIOUS
  <2>5. LevelsWithout(t) = r
    BY <1>1, <2>1, <2>2, <2>4 DEF LevelsWithout
  <2>6. /\ DOMAIN r = 1..(Len(s) - 1)
        /\ \A j \in 1..(Len(s) - 1) : r[j] = IF j < i THEN s[j] ELSE s[j + 1]
    BY <2>4 DEF Remove
  <2>7. Once(r)
    BY <2>1, <2>3, <2>6 DEF Once
  <2>8. ASSUME NEW u \in Members(r)
        PROVE  u \in Members(s) \ {t}
    <3>1. PICK j \in 1..(Len(s) - 1) : u = r[j]
      BY <2>6 DEF Members
    <3>2. \E k \in 1..Len(s) : k # i /\ u = s[k]
      BY <2>3, <2>6, <3>1
    <3> QED
      BY <2>1, <2>3, <3>2 DEF Members, Once
  <2>9. ASSUME NEW u \in Members(s), u # t
        PROVE  u \in Members(r)
    <3>1. PICK k \in 1..Len(s) : u = s[k] /\ k # i
      BY <2>3, <2>9 DEF Members
    <3>2. CASE k < i
      <4>1. k \in 1..(Len(s) - 1) /\ r[k] = u
        BY <2>3, <2>6, <3>1, <3>2
      <4> QED
        BY <2>6, <4>1 DEF Members
    <3>3. CASE ~(k < i)
      <4>1. k - 1 \in 1..(Len(s) - 1) /\ r[k - 1] = u
        BY <2>3, <2>6, <3>1, <3>3
      <4> QED
        BY <2>6, <4>1 DEF Members
    <3> QED
      BY <3>2, <3>3
  <2> QED
    BY <2>1, <2>5, <2>7, <2>8, <2>9
<1>2. CASE ~In(t, readlevellist)
  BY <1>2, MembersOf DEF LevelsWithout
<1> QED
  BY <1>1, <1>2

\* Releasing the first n levels: each waiting write goes with its level to the
\* merge, or to the next level when that is the same.
LEMMA ReleaseKept ==
  ASSUME NEW s \in Seq(Trx), Once(s), NEW at \in [Trx -> Nat], NEW n \in 0..Len(s),
         \A t \in Trx : t \notin Members(s) => at[t] = 0,
         NEW r, r = ReleaseWrites(s, at, n)
  PROVE  /\ r.at \in [Trx -> Nat] /\ r.handed \in Nat
         /\ \A t \in Trx : t \notin Members(Drop(s, n)) => r.at[t] = 0
         /\ Total(at, Members(s)) = r.handed + Total(r.at, Members(Drop(s, n)))
<1>0. n \in Int /\ 1 \in Int
  OBVIOUS
<1>1. /\ Len(s) \in Nat /\ DOMAIN s = 1..Len(s) /\ n \in Nat
      /\ \A i \in 1..Len(s) : s[i] \in Trx /\ at[s[i]] \in Nat
      /\ 1..n \subseteq 1..Len(s) /\ IsFiniteSet(1..n)
  <2>1. IsFiniteSet(1..n)
    BY <1>0, FS_Interval
  <2> QED
    BY <2>1
<1>2. PICK M : M = {i \in 1..n : n < Len(s) /\ level[s[i]] = level[s[n + 1]]}
  OBVIOUS
<1>3. PICK mv : mv = MapThenSumSet(LAMBDA i : at[s[i]], M)
  OBVIOUS
<1>n. PICK N : N = (1..n) \ M
  OBVIOUS
<1>4. PICK hd : hd = MapThenSumSet(LAMBDA i : at[s[i]], N)
  OBVIOUS
<1>5. r = [at |-> [t \in Trx |->
                     IF \E i \in 1..n : s[i] = t THEN 0
                     ELSE IF n < Len(s) /\ t = s[n + 1] THEN at[t] + mv
                     ELSE at[t]],
           handed |-> hd]
  BY <1>2, <1>n, <1>3, <1>4 DEF ReleaseWrites
<1>6. PICK A : A = {s[i] : i \in M}
  OBVIOUS
<1>7. PICK C : C = {s[i] : i \in N}
  OBVIOUS
<1>8. PICK D : D = Members(Drop(s, n))
  OBVIOUS
<1>9. /\ Members(s) = (A \cup C) \cup D /\ (A \cup C) \cap D = {} /\ A \cap C = {}
      /\ A \cup C = {s[i] : i \in 1..n}
      /\ n < Len(s) => s[n + 1] \in D
  <2>1. A \cup C = {s[i] : i \in 1..n}
    BY <1>2, <1>n, <1>6, <1>7
  <2>2. A \cap C = {}
    BY <1>1, <1>2, <1>n, <1>6, <1>7 DEF Once
  <2> QED
    BY <1>8, <2>1, <2>2, DropMembers
<1>10. IsFiniteSet(A) /\ mv = Total(at, A)
  <2>1. M \subseteq 1..n /\ IsFiniteSet(M)
    BY <1>1, <1>2, FS_Subset
  <2>2. \A i, j \in M : s[i] = s[j] => i = j
    BY <1>1, <2>1 DEF Once
  <2>3. \A i \in M : at[s[i]] \in Nat
    BY <1>1, <2>1
  <2> QED
    BY <1>3, <1>6, <2>1, <2>2, <2>3, TotalImage
<1>11. IsFiniteSet(C) /\ hd = Total(at, C)
  <2>2. N \subseteq 1..n /\ IsFiniteSet(N)
    BY <1>1, <1>n, FS_Subset
  <2>3. \A i, j \in N : s[i] = s[j] => i = j
    BY <1>1, <2>2 DEF Once
  <2>4. \A i \in N : at[s[i]] \in Nat
    BY <1>1, <2>2
  <2> QED
    BY <1>4, <1>7, <2>2, <2>3, <2>4, TotalImage
<1>12. /\ IsFiniteSet(D) /\ A \subseteq Trx /\ C \subseteq Trx /\ D \subseteq Trx
       /\ IsFiniteSet(A \cup C)
  <2>1. Members(s) \subseteq Trx /\ IsFiniteSet(Members(s))
    BY MembersOf
  <2>2. D \subseteq Members(s) /\ A \cup C \subseteq Members(s)
    BY <1>9
  <2> QED
    BY <2>1, <2>2, FS_Subset
<1>13. mv \in Nat /\ hd \in Nat /\ Total(at, D) \in Nat
  BY <1>10, <1>11, <1>12, TotalFinite
<1>14. Total(at, Members(s)) = (mv + hd) + Total(at, D)
  <2>1. Total(at, A \cup C) = mv + hd
    BY <1>9, <1>10, <1>11, <1>12, TotalUnion
  <2>2. Total(at, (A \cup C) \cup D) = Total(at, A \cup C) + Total(at, D)
    <3>1. PICK E : E = A \cup C
      OBVIOUS
    <3>2. E \cap D = {} /\ IsFiniteSet(E) /\ \A x \in E \cup D : at[x] \in Nat
      BY <1>9, <1>12, <3>1
    <3> QED
      BY <1>12, <3>1, <3>2, TotalUnion
  <2> QED
    BY <1>9, <2>1, <2>2
<1>15. Total(r.at, D) = mv + Total(at, D)
  <2>1. CASE n < Len(s)
    <3>1. PICK k : k = s[n + 1]
      OBVIOUS
    <3>2. PICK E : E = D \ {k}
      OBVIOUS
    <3>3. k \in D /\ k \in Trx
      BY <1>9, <1>12, <2>1, <3>1
    <3>4. r.at[k] = at[k] + mv /\ at[k] \in Nat /\ r.at[k] \in Nat
      BY <1>5, <1>9, <1>13, <2>1, <3>1, <3>3
    <3>5. \A t \in E : r.at[t] = at[t]
      BY <1>5, <1>9, <1>12, <3>1, <3>2
    <3>6. Total(r.at, E) = Total(at, E)
      BY <3>5, TotalSame
    <3>7. \A x \in D : at[x] \in Nat /\ r.at[x] \in Nat
      BY <1>5, <1>12, <1>13
    <3>8. Total(at, D) = at[k] + Total(at, E) /\ Total(r.at, D) = r.at[k] + Total(r.at, E)
      BY <1>12, <3>2, <3>3, <3>7, TotalRemove
    <3>9. Total(at, E) \in Nat
      <4>1. IsFiniteSet(E) /\ \A x \in E : at[x] \in Nat
        BY <1>12, <3>2, <3>7, FS_Subset
      <4> QED
        BY <4>1, TotalFinite
    <3> QED
      BY <1>13, <3>4, <3>6, <3>8, <3>9
  <2>2. CASE ~(n < Len(s))
    <3>1. \A t \in D : r.at[t] = at[t]
      BY <1>5, <1>9, <1>12, <2>2
    <3>2. A = {}
      BY <1>2, <1>6, <2>2
    <3>3. mv = 0
      BY <1>10, <3>2, TotalEmpty
    <3> QED
      BY <1>13, <3>1, <3>3, TotalSame
  <2> QED
    BY <2>1, <2>2
<1>16. r.at \in [Trx -> Nat] /\ r.handed = hd
  BY <1>5, <1>13
<1>17. ASSUME NEW t \in Trx, t \notin D
       PROVE  r.at[t] = 0
  <2>1. n < Len(s) => t # s[n + 1]
    BY <1>9, <1>17
  <2>2. t \notin {s[i] : i \in 1..n} => at[t] = 0
    BY <1>9, <1>17
  <2> QED
    BY <1>5, <2>1, <2>2
<1>18. Total(at, Members(s)) = hd + Total(r.at, D)
  BY <1>13, <1>14, <1>15
<1> QED
  BY <1>8, <1>13, <1>16, <1>17, <1>18

\* Where the writes of t go when its level leaves the list.
LEMMA HeirMembers ==
  ASSUME readlevellist \in Seq(Trx), Once(readlevellist), NEW t, In(t, readlevellist)
  PROVE  \/ Heir(t) = {}
         \/ \E h \in Members(readlevellist) \ {t} : Heir(t) = {h}
<1>1. PICK s : s = readlevellist
  OBVIOUS
<1>2. PICK i : i = CHOOSE j \in DOMAIN s : s[j] = t
  OBVIOUS
<1>3. Len(s) \in Nat /\ DOMAIN s = 1..Len(s) /\ i \in 1..Len(s) /\ s[i] = t
  BY <1>1, <1>2 DEF In
<1>4. Heir(t) = IF i > 1 THEN {s[i - 1]}
                ELSE IF Len(s) > 1 /\ level[s[2]] <= level[t] THEN {s[2]}
                ELSE {}
  BY <1>1, <1>2 DEF Heir
<1>5. ASSUME NEW j \in 1..Len(s), j # i
      PROVE  s[j] \in Members(readlevellist) \ {t}
  BY <1>1, <1>3, <1>5 DEF Members, Once
<1>6. CASE i > 1
  BY <1>3, <1>4, <1>5, <1>6
<1>7. CASE ~(i > 1) /\ Len(s) > 1
  <2>1. 2 \in 1..Len(s) /\ 2 # i
    BY <1>3, <1>7
  <2> QED
    BY <1>4, <1>5, <1>7, <2>1
<1>8. CASE ~(i > 1) /\ ~(Len(s) > 1)
  BY <1>4, <1>8
<1> QED
  BY <1>6, <1>7, <1>8

\* t leaves the list: its writes wait with its heir or go to the merge.
LEMMA LeaveKept ==
  ASSUME LevelTypes, WaitInv, NEW t \in Trx, NEW c \in BOOLEAN,
         NEW l, l = LeaveWrites(t, c)
  PROVE  /\ l.at \in [Trx -> Nat] /\ l.handed \in Nat
         /\ \A u \in Trx : u \notin Members(LevelsWithout(t)) => l.at[u] = 0
         /\ pendingmergewrites + mergewrites[t]
               = l.handed + Total(l.at, Members(LevelsWithout(t)))
<1>1. PICK at : at = atmergewrites
  OBVIOUS
<1>2. PICK own : own = IF c THEN mergewrites[t] ELSE 0
  OBVIOUS
<1>3. PICK M : M = Members(readlevellist)
  OBVIOUS
<1>4. PICK W : W = Members(LevelsWithout(t))
  OBVIOUS
<1>5. PICK p : p = pendingmergewrites
  OBVIOUS
<1>6. PICK mw : mw = mergewrites[t]
  OBVIOUS
<1>7. /\ readlevellist \in Seq(Trx) /\ Once(readlevellist) /\ at \in [Trx -> Nat]
      /\ \A u \in Trx : u \notin M => at[u] = 0
      /\ p = Total(at, M) /\ mw \in Nat /\ own \in Nat /\ own <= mw
      /\ c => own = mw
  BY <1>1, <1>2, <1>3, <1>5, <1>6 DEF LevelTypes, WaitInv
<1>8. W = M \ {t} /\ IsFiniteSet(M) /\ M \subseteq Trx /\ (In(t, readlevellist) <=> t \in M)
  BY <1>3, <1>4, <1>7, WithoutMembers, MembersOf
<1>9. IsFiniteSet(W) /\ W \subseteq Trx /\ \A u \in W : at[u] \in Nat
  BY <1>7, <1>8, FS_Subset
<1>10. Total(at, W) \in Nat
  BY <1>9, TotalFinite
<1>11. CASE t \notin M
  <2>1. l.at = at /\ l.handed = mw
    BY <1>1, <1>6, <1>8, <1>11 DEF LeaveWrites
  <2>2. W = M
    BY <1>8, <1>11
  <2> QED
    BY <1>4, <1>5, <1>6, <1>7, <1>10, <2>1, <2>2
<1>12. CASE t \in M
  <2>1. /\ l.at = [u \in Trx |->
                IF u = t THEN 0
                ELSE IF u \in Heir(t) THEN at[u] + at[t] + own
                ELSE at[u]]
        /\ l.handed = IF Heir(t) = {} THEN mw + at[t] ELSE mw - own
    BY <1>1, <1>2, <1>6, <1>8, <1>12 DEF LeaveWrites
  <2>2. p = at[t] + Total(at, W) /\ at[t] \in Nat
    <3>1. \A x \in M : at[x] \in Nat
      BY <1>7, <1>8
    <3> QED
      BY <1>7, <1>8, <1>12, <3>1, TotalRemove
  <2>3. CASE Heir(t) = {}
    <3>1. \A u \in W : l.at[u] = at[u]
      BY <1>8, <1>9, <2>1, <2>3
    <3>2. Total(l.at, W) = Total(at, W)
      BY <3>1, TotalSame
    <3>3. l.at \in [Trx -> Nat] /\ \A u \in Trx : u \notin W => l.at[u] = 0
      BY <1>7, <1>8, <2>1, <2>3
    <3> QED
      BY <1>4, <1>5, <1>6, <1>7, <1>10, <2>1, <2>2, <2>3, <3>2, <3>3
  <2>4. CASE \E h \in M \ {t} : Heir(t) = {h}
    <3>1. PICK h \in W : Heir(t) = {h}
      BY <1>8, <2>4
    <3>2. PICK V : V = W \ {h}
      OBVIOUS
    <3>3. l.at \in [Trx -> Nat] /\ \A u \in Trx : u \notin W => l.at[u] = 0
      BY <1>7, <1>8, <2>1, <2>2, <3>1
    <3>4. \A u \in V : l.at[u] = at[u]
      BY <1>8, <1>9, <2>1, <3>1, <3>2
    <3>5. l.at[h] = at[h] + at[t] + own /\ at[h] \in Nat
      BY <1>7, <1>8, <1>9, <2>1, <3>1
    <3>6. Total(l.at, V) = Total(at, V)
      BY <3>4, TotalSame
    <3>7. \A x \in W : l.at[x] \in Nat
      BY <1>9, <3>3
    <3>8. Total(at, W) = at[h] + Total(at, V) /\ Total(l.at, W) = l.at[h] + Total(l.at, V)
      BY <1>9, <3>1, <3>2, <3>7, TotalRemove
    <3>9. Total(at, V) \in Nat
      <4>1. IsFiniteSet(V) /\ \A x \in V : at[x] \in Nat
        BY <1>9, <3>2, FS_Subset
      <4> QED
        BY <4>1, TotalFinite
    <3>10. l.handed = mw - own
      BY <2>1, <3>1
    <3>11. l.handed \in Nat /\ p + mw = l.handed + Total(l.at, W)
      BY <1>7, <2>2, <3>5, <3>6, <3>8, <3>9, <3>10
    <3> QED
      BY <1>4, <1>5, <1>6, <3>3, <3>11
  <2> QED
    BY <1>3, <1>7, <1>8, <1>12, <2>3, <2>4, HeirMembers
<1> QED
  BY <1>11, <1>12

\* Steps that leave the list and what waits alone.
LEMMA QuietWait ==
  ASSUME WaitInv, UNCHANGED <<readlevellist, merging>>, maxtrxnum' = maxtrxnum,
         \A u \in Members(readlevellist) : Registered(u)',
         \A u \in Trx : commitst'[u] = "level" => state'[u] # "new"
  PROVE  WaitInv'
<1>1. UNCHANGED <<readlevellist, atmergewrites, pendingmergewrites>>
  BY DEF merging
<1> QED
  BY <1>1 DEF WaitInv

\* A level enters the list: no write waits with it yet.
LEMMA EnterWait ==
  ASSUME LevelTypes, WaitInv, UNCHANGED merging, maxtrxnum' = maxtrxnum, NEW t \in Trx,
         AddReadLevel(t), ~Registered(t), Registered(t)',
         \A u \in Trx \ {t} : level'[u] = level[u] /\ commitst'[u] = commitst[u],
         state' = state,
         \A u \in Trx : commitst'[u] = "level" => state'[u] # "new"
  PROVE  WaitInv'
<1>1. PICK s : s = readlevellist
  OBVIOUS
<1>2. PICK r : r = readlevellist'
  OBVIOUS
<1>3. PICK M : M = Members(s)
  OBVIOUS
<1>4. s \in Seq(Trx) /\ Once(s) /\ t \notin M /\ M \subseteq Trx /\ IsFiniteSet(M)
  <2>1. s \in Seq(Trx) /\ Once(s) /\ t \notin M
    BY <1>1, <1>3 DEF LevelTypes, WaitInv
  <2> QED
    BY <1>3, <2>1, MembersOf
<1>5. Len(s) \in Nat /\ DOMAIN s = 1..Len(s) /\ \A i \in 1..Len(s) : s[i] \in M
  BY <1>3, <1>4 DEF Members
<1>6. UNCHANGED <<atmergewrites, pendingmergewrites>>
  BY DEF merging
<1>7. \A u \in M : Registered(u)'
  BY <1>1, <1>3, <1>4 DEF WaitInv, Registered
<1>8. CASE failed[t]
  <2>1. r = s
    BY <1>1, <1>2, <1>8 DEF AddReadLevel
  <2> QED
    BY <1>1, <1>2, <1>3, <1>6, <1>7, <2>1 DEF WaitInv
<1>9. CASE ~failed[t]
  <2>1. r = Append(s, t)
    BY <1>1, <1>2, <1>9 DEF AddReadLevel
  <2>2. /\ DOMAIN r = 1..(Len(s) + 1) /\ r[Len(s) + 1] = t
        /\ \A i \in 1..Len(s) : r[i] = s[i]
    BY <1>4, <1>5, <2>1
  <2>3. PICK N : N = Members(r)
    OBVIOUS
  <2>4. N = M \cup {t}
    <3>1. ASSUME NEW i \in DOMAIN r
          PROVE  r[i] \in M \cup {t}
      BY <1>5, <2>2
    <3>2. ASSUME NEW u \in M
          PROVE  u \in N
      <4>1. PICK i \in 1..Len(s) : s[i] = u
        BY <1>3, <1>5 DEF Members
      <4>2. i \in DOMAIN r /\ r[i] = u
        BY <1>5, <2>2, <4>1
      <4> QED
        BY <2>3, <4>2 DEF Members
    <3>3. t \in N
      <4>1. Len(s) + 1 \in DOMAIN r
        BY <1>5, <2>2
      <4> QED
        BY <2>2, <2>3, <4>1 DEF Members
    <3> QED
      BY <2>3, <3>1, <3>2, <3>3 DEF Members
  <2>5. Once(r)
    <3> SUFFICES ASSUME NEW i \in DOMAIN r, NEW j \in DOMAIN r, r[i] = r[j]
                 PROVE  i = j
      BY DEF Once
    <3>1. CASE i \in 1..Len(s) /\ j \in 1..Len(s)
      BY <1>4, <1>5, <2>2, <3>1 DEF Once
    <3>2. CASE i = Len(s) + 1 /\ j = Len(s) + 1
      BY <3>2
    <3>3. CASE i \in 1..Len(s) /\ j = Len(s) + 1
      BY <1>4, <1>5, <2>2, <3>3
    <3>4. CASE i = Len(s) + 1 /\ j \in 1..Len(s)
      BY <1>4, <1>5, <2>2, <3>4
    <3> QED
      BY <1>5, <2>2, <3>1, <3>2, <3>3, <3>4
  <2>6. PICK at : at = atmergewrites
    OBVIOUS
  <2>7. at \in [Trx -> Nat] /\ at[t] = 0
    BY <1>1, <1>3, <1>4, <2>6 DEF WaitInv
  <2>8. Total(at, N) = Total(at, M)
    <3>1. \A u \in M : at[u] \in Nat
      BY <1>4, <2>7
    <3>2. IsFiniteSet(Tokens(at, M)) /\ Total(at, M) \in Nat
      BY <1>4, <3>1, TotalFinite
    <3>3. Total(at, N) = Total(at, M) + at[t]
      BY <1>4, <2>4, <2>7, <3>2, TotalAdd
    <3> QED
      BY <2>7, <3>2, <3>3
  <2>9. \A u \in N : Registered(u)'
    BY <1>7, <2>4
  <2>10. \A u \in Trx : u \notin N => at[u] = 0
    BY <1>1, <1>3, <2>4, <2>6 DEF WaitInv
  <2>11. pendingmergewrites = Total(at, N) /\ maxtrxnum # 0
    BY <1>1, <1>3, <2>6, <2>8 DEF WaitInv
  <2> QED
    BY <1>2, <1>6, <2>3, <2>5, <2>6, <2>7, <2>9, <2>10, <2>11 DEF WaitInv
<1> QED
  BY <1>8, <1>9

\* dbe_gtrs_endtrx: first t leaves, then the removable levels at the head.
LEMMA EndWait ==
  ASSUME LevelTypes, NumbersInv, StagesInv, ListInv, WaitInv, NEW t \in Trx, NEW ok \in BOOLEAN,
         EndTrx(t, ok), maxtrxnum <= maxtrxnum', maxtrxnum' \in Nat,
         NEW c \in {"done", "waitreadlevel"},
         commitst' = [commitst EXCEPT ![t] = c]
  PROVE  WaitInv'
<1>1. PICK s : s = LevelsWithout(t)
  OBVIOUS
<1>2. PICK l : l = LeaveWrites(t, ok)
  OBVIOUS
<1>3. readlevellist \in Seq(Trx) /\ Once(readlevellist) /\ mergewrites[t] \in Nat
  BY DEF LevelTypes, WaitInv
<1>4. s \in Seq(Trx) /\ Once(s) /\ Members(s) = Members(readlevellist) \ {t}
  BY <1>1, <1>3, LevelsWithoutType, WithoutMembers
<1>e. PICK n \in IF ok /\ writes[t] THEN ReleaseCounts(LevelsWithout(t)) ELSE {0} :
        /\ readlevellist' = Drop(LevelsWithout(t), n)
        /\ level' = [u \in Trx |->
                       IF \/ u = t /\ In(t, readlevellist)
                          \/ \E i \in 1..n : LevelsWithout(t)[i] = u
                         THEN NULL ELSE level[u]]
        /\ EndWrites(t, ok, n)
  BY Zenon DEF EndTrx
<1>5. /\ readlevellist' = Drop(s, n)
      /\ level' = [u \in Trx |->
                     IF \/ u = t /\ In(t, readlevellist)
                        \/ \E i \in 1..n : s[i] = u
                       THEN NULL ELSE level[u]]
      /\ EndWrites(t, ok, n)
  BY <1>1, <1>e
<1>6. n \in 0..Len(s)
  BY <1>1, <1>4, <1>e DEF ReleaseCounts
<1>7. PICK r : r = ReleaseWrites(s, l.at, n)
  OBVIOUS
<1>8. /\ atmergewrites' = r.at
      /\ pendingmergewrites' = (pendingmergewrites + mergewrites[t]) - (l.handed + r.handed)
  BY <1>1, <1>2, <1>5, <1>7 DEF EndWrites
<1>9. PICK D : D = Members(Drop(s, n))
  OBVIOUS
<1>10. /\ l.at \in [Trx -> Nat] /\ l.handed \in Nat
       /\ \A u \in Trx : u \notin Members(s) => l.at[u] = 0
       /\ pendingmergewrites + mergewrites[t] = l.handed + Total(l.at, Members(s))
  BY <1>1, <1>2, LeaveKept
<1>11. /\ r.at \in [Trx -> Nat] /\ r.handed \in Nat
       /\ \A u \in Trx : u \notin D => r.at[u] = 0
       /\ Total(l.at, Members(s)) = r.handed + Total(r.at, D)
  <2>1. PICK at : at = l.at
    OBVIOUS
  <2>2. at \in [Trx -> Nat] /\ \A u \in Trx : u \notin Members(s) => at[u] = 0
    BY <1>10, <2>1
  <2>3. r = ReleaseWrites(s, at, n)
    BY <1>7, <2>1
  <2>4. /\ r.at \in [Trx -> Nat] /\ r.handed \in Nat
        /\ \A u \in Trx : u \notin Members(Drop(s, n)) => r.at[u] = 0
        /\ Total(at, Members(s)) = r.handed + Total(r.at, Members(Drop(s, n)))
    <3>1. s \in Seq(Trx) /\ Once(s)
      BY <1>4
    <3> QED
      BY ONLY <3>1, <1>6, <2>2, <2>3, ReleaseKept
  <2> QED
    BY <1>9, <2>1, <2>4
<1>12. /\ Once(Drop(s, n)) /\ D \subseteq Members(s)
       /\ {s[i] : i \in 1..n} \cap D = {}
  BY <1>4, <1>6, <1>9, DropMembers
<1>13. D \subseteq Trx /\ IsFiniteSet(D)
  <2>1. Drop(s, n) \in Seq(Trx)
    BY <1>4, <1>6, DropProperties
  <2> QED
    BY <1>9, <2>1, MembersOf
<1>14. Total(r.at, D) \in Nat
  <2>1. \A u \in D : r.at[u] \in Nat
    BY <1>11, <1>13
  <2> QED
    BY <1>13, <2>1, TotalFinite
<1>15. pendingmergewrites' = Total(r.at, D)
  <2>1. PICK h, k, x, y : h = l.handed /\ k = r.handed /\ x = Total(r.at, D)
                          /\ y = pendingmergewrites + mergewrites[t]
    OBVIOUS
  <2>2. h \in Nat /\ k \in Nat /\ x \in Nat /\ y = h + (k + x)
    BY <1>10, <1>11, <1>14, <2>1
  <2>3. pendingmergewrites' = y - (h + k)
    BY <1>8, <2>1
  <2> QED
    BY <2>1, <2>2, <2>3
<1>16. ASSUME NEW u \in D
       PROVE  Registered(u)'
  <2>1. u \in Trx /\ u # t /\ u \in Members(readlevellist)
        /\ u \notin {s[i] : i \in 1..n}
    BY <1>4, <1>12, <1>13
  <2>2. Registered(u)
    BY <2>1 DEF WaitInv
  <2>3. level'[u] = level[u]
    BY <1>5, <2>1
  <2>4. state'[u] = state[u]
    BY <2>1 DEF EndTrx, LevelTypes
  <2>5. commitst'[u] = commitst[u]
    BY <2>1 DEF LevelTypes
  <2> QED
    BY <2>2, <2>3, <2>4, <2>5 DEF Registered
<1>17. maxtrxnum' # 0
  BY DEF LevelTypes, WaitInv
<1>18. ASSUME NEW u \in Trx, commitst'[u] = "level"
       PROVE  state'[u] # "new"
  <2>1. u # t /\ commitst[u] = "level"
    BY <1>18 DEF LevelTypes
  <2>2. state'[u] = state[u]
    BY <2>1 DEF EndTrx, LevelTypes
  <2> QED
    BY <2>1, <2>2 DEF WaitInv
<1> QED
  BY <1>5, <1>8, <1>9, <1>11, <1>12, <1>15, <1>16, <1>17, <1>18 DEF WaitInv

\* dbe_gtrs_releasereadlevels, asked for by the merge.
LEMMA ReleaseWait ==
  ASSUME LevelTypes, WaitInv, ReleaseReadLevels
  PROVE  WaitInv'
<1>1. PICK s : s = readlevellist
  OBVIOUS
<1>2. PICK at : at = atmergewrites
  OBVIOUS
<1>3. /\ s \in Seq(Trx) /\ Once(s) /\ at \in [Trx -> Nat]
      /\ \A u \in Trx : u \notin Members(s) => at[u] = 0
      /\ pendingmergewrites = Total(at, Members(s))
  BY <1>1, <1>2 DEF LevelTypes, WaitInv
<1>e. PICK n \in 0..Len(readlevellist) :
        /\ readlevellist' = Drop(readlevellist, n)
        /\ atmergewrites' = ReleaseWrites(readlevellist, atmergewrites, n).at
        /\ pendingmergewrites'
             = pendingmergewrites - ReleaseWrites(readlevellist, atmergewrites, n).handed
        /\ level' = [u \in Trx |-> IF \E i \in 1..n : readlevellist[i] = u
                                     THEN NULL ELSE level[u]]
  BY Zenon DEF ReleaseReadLevels, ReleaseCounts
<1>4. PICK r : r = ReleaseWrites(s, at, n)
  OBVIOUS
<1>5. /\ readlevellist' = Drop(s, n) /\ atmergewrites' = r.at
      /\ pendingmergewrites' = pendingmergewrites - r.handed
      /\ level' = [u \in Trx |-> IF \E i \in 1..n : s[i] = u THEN NULL ELSE level[u]]
  BY <1>1, <1>2, <1>e, <1>4
<1>6. n \in 0..Len(s)
  BY <1>1, <1>e
<1>7. PICK D : D = Members(Drop(s, n))
  OBVIOUS
<1>8. /\ r.at \in [Trx -> Nat] /\ r.handed \in Nat
      /\ \A u \in Trx : u \notin D => r.at[u] = 0
      /\ Total(at, Members(s)) = r.handed + Total(r.at, D)
  BY <1>3, <1>4, <1>6, <1>7, ReleaseKept
<1>9. /\ Once(Drop(s, n)) /\ D \subseteq Members(s)
      /\ {s[i] : i \in 1..n} \cap D = {}
  BY <1>3, <1>6, <1>7, DropMembers
<1>10. D \subseteq Trx /\ IsFiniteSet(D)
  <2>1. Drop(s, n) \in Seq(Trx)
    BY <1>3, <1>6, DropProperties
  <2> QED
    BY <1>7, <2>1, MembersOf
<1>11. Total(r.at, D) \in Nat
  <2>1. \A u \in D : r.at[u] \in Nat
    BY <1>8, <1>10
  <2> QED
    BY <1>10, <2>1, TotalFinite
<1>12. pendingmergewrites' = Total(r.at, D)
  BY <1>3, <1>5, <1>8, <1>11
<1>13. UNCHANGED <<state, commitst, maxtrxnum>>
  BY DEF ReleaseReadLevels, counters
<1>14. ASSUME NEW u \in D
       PROVE  Registered(u)'
  <2>1. u \in Trx /\ u \in Members(readlevellist) /\ u \notin {s[i] : i \in 1..n}
    BY <1>1, <1>9, <1>10
  <2>2. Registered(u)
    BY <2>1 DEF WaitInv
  <2>3. level'[u] = level[u]
    BY <1>5, <2>1
  <2> QED
    BY <1>13, <2>2, <2>3 DEF Registered
<1> QED
  BY <1>5, <1>7, <1>8, <1>9, <1>12, <1>13, <1>14 DEF WaitInv

\* Every step keeps the waiting writes.
LEMMA WaitStep ==
  ASSUME LevelsInv, LevelsInv', WaitInv, [Next]_vars
  PROVE  WaitInv'
<1>1. /\ LevelTypes /\ NumbersInv /\ StagesInv /\ ListInv
      /\ state \in [Trx -> States] /\ commitst \in [Trx -> CommitSts]
      /\ level \in [Trx -> Nat]
      /\ maxtrxnum \in Nat /\ maxtrxnum' \in Nat /\ maxtrxnum # 0
  BY DEF LevelsInv, LevelTypes, WaitInv
<1>2. /\ \A u \in Trx : commitst[u] = "level" => state[u] # "new"
      /\ \A u \in Members(readlevellist) : Registered(u)
      /\ Members(readlevellist) \subseteq Trx
  <2>1. readlevellist \in Seq(Trx)
    BY DEF LevelsInv, LevelTypes
  <2> QED
    BY <2>1, MembersOf DEF WaitInv
<1>3. ASSUME NEW t \in Trx, Statement(t)
      PROVE  WaitInv'
  <2>1. CASE Begin(t)
    <3>1. /\ state[t] = "new"
          /\ state' = [state EXCEPT ![t] = "begin"]
          /\ \A u \in Trx \ {t} : commitst'[u] = commitst[u]
          /\ UNCHANGED <<readlevellist, merging, level, maxtrxnum>>
      BY <1>1, <2>1 DEF Begin, lists, counters
    <3>2. t \notin Members(readlevellist)
      BY <1>2, <3>1 DEF Registered
    <3>3. \A u \in Members(readlevellist) : Registered(u)'
      BY <1>1, <1>2, <3>1, <3>2 DEF Registered
    <3>4. \A u \in Trx : commitst'[u] = "level" => state'[u] # "new"
      BY <1>1, <1>2, <3>1
    <3> QED
      BY <3>1, <3>3, <3>4, QuietWait
  <2>2. CASE BeginReadLevel(t)
    <3>1. /\ level' = [level EXCEPT ![t] = maxtrxnum]
          /\ UNCHANGED <<state, commitst, readlevellist, merging, maxtrxnum>>
      BY <2>2 DEF BeginReadLevel, lists, counters
    <3>2. \A u \in Members(readlevellist) : Registered(u)'
      BY <1>1, <1>2, <3>1 DEF Registered, NULL
    <3> QED
      BY <1>2, <3>1, <3>2, QuietWait
  <2>3. CASE BeginAddReadLevel(t)
    <3>1. /\ AddReadLevel(t) /\ commitst[t] = "level" /\ level[t] # NULL
          /\ commitst' = [commitst EXCEPT ![t] = "init"]
          /\ UNCHANGED <<state, level, merging, maxtrxnum>>
      BY <2>3 DEF BeginAddReadLevel, counters
    <3>2. ~Registered(t) /\ Registered(t)'
      BY <1>1, <1>2, <3>1 DEF Registered
    <3>3. \A u \in Trx \ {t} : level'[u] = level[u] /\ commitst'[u] = commitst[u]
      BY <1>1, <3>1
    <3>4. \A u \in Trx : commitst'[u] = "level" => state'[u] # "new"
      BY <1>1, <1>2, <3>1
    <3> QED
      BY <1>1, <3>1, <3>2, <3>3, <3>4, EnterWait
  <2>4. CASE TouchTable(t)
    <3>1. UNCHANGED <<state, commitst, merging, maxtrxnum>> /\ Open(t)
      BY <2>4 DEF TouchTable, counters
    <3>2. CASE level[t] = NULL
      <4>1. AddReadLevel(t) /\ level' = [level EXCEPT ![t] = maxtrxnum]
        BY <2>4, <3>2 DEF TouchTable
      <4>2. ~Registered(t) /\ Registered(t)'
        BY <1>1, <3>1, <3>2, <4>1 DEF Registered, NULL, Open
      <4>3. \A u \in Trx \ {t} : level'[u] = level[u] /\ commitst'[u] = commitst[u]
        BY <1>1, <3>1, <4>1
      <4> QED
        BY <1>1, <1>2, <3>1, <4>1, <4>2, <4>3, EnterWait
    <3>3. CASE level[t] # NULL
      <4>1. UNCHANGED <<level, readlevellist>>
        BY <2>4, <3>3 DEF TouchTable
      <4>2. \A u \in Members(readlevellist) : Registered(u)'
        BY <1>2, <3>1, <4>1 DEF Registered
      <4> QED
        BY <1>2, <3>1, <4>1, <4>2, QuietWait
    <3> QED
      BY <3>2, <3>3
  <2>5. CASE \/ AskStorageTree(t) \/ MarkWrite(t) \/ Write(t) \/ Fail(t)
             \/ StmtRollback(t) \/ SetCanRemoveReadLevel(t) \/ Restart(t)
    <3>1. UNCHANGED <<state, commitst, level, readlevellist, merging, maxtrxnum>>
      BY <2>5 DEF AskStorageTree, MarkWrite, Write, Fail, StmtRollback,
            SetCanRemoveReadLevel, Restart, lists, counters
    <3>2. \A u \in Members(readlevellist) : Registered(u)'
      BY <1>2, <3>1 DEF Registered
    <3> QED
      BY <1>2, <3>1, <3>2, QuietWait
  <2> QED
    BY <1>3, <2>1, <2>2, <2>3, <2>4, <2>5 DEF Statement
<1>4. ASSUME NEW t \in Trx, StartCommit(t) \/ Validate(t) \/ WaitReadLevel(t)
      PROVE  WaitInv'
  <2>1. /\ UNCHANGED <<level, readlevellist, merging, maxtrxnum>>
        /\ state' \in {state, [state EXCEPT ![t] = "validate"]}
        /\ \E c \in {"validate", "end", "done"} : commitst' = [commitst EXCEPT ![t] = c]
    BY <1>4 DEF StartCommit, CommitNoTable, CommitValidate, CommitDelayed,
          Validate, WaitReadLevel, lists, counters
  <2>2. \A u \in Members(readlevellist) : Registered(u)'
    BY <1>1, <1>2, <2>1 DEF Registered
  <2>3. \A u \in Trx : commitst'[u] = "level" => state'[u] # "new"
    BY <1>1, <1>2, <2>1
  <2> QED
    BY <2>1, <2>2, <2>3, QuietWait
<1>5. ASSUME NEW t \in Trx, EndCommit(t) \/ EndNow(t)
      PROVE  WaitInv'
  <2>1. PICK ok \in BOOLEAN, c \in {"done", "waitreadlevel"} :
          EndTrx(t, ok) /\ commitst' = [commitst EXCEPT ![t] = c]
    BY <1>5 DEF EndCommit, EndNow, CommitReadOnly, Rollback
  <2>2. maxtrxnum <= maxtrxnum'
    BY <1>1, <2>1, EndTrxNumbers
  <2> QED
    BY <1>1, <2>1, <2>2, EndWait
<1>6. CASE Merge
  <2>1. CASE ReleaseReadLevels
    BY <1>1, <2>1, ReleaseWait
  <2>2. CASE MergeStart \/ MergeDone
    <3>1. UNCHANGED <<state, commitst, level, readlevellist, merging, maxtrxnum>>
      BY <2>2 DEF MergeStart, MergeDone, lists
    <3>2. \A u \in Members(readlevellist) : Registered(u)'
      BY <1>2, <3>1 DEF Registered
    <3> QED
      BY <1>2, <3>1, <3>2, QuietWait
  <2> QED
    BY <1>6, <2>1, <2>2 DEF Merge
<1>7. CASE UNCHANGED vars
  <2>1. UNCHANGED <<state, commitst, level, readlevellist, merging, maxtrxnum>>
    BY <1>7 DEF vars, lists, counters
  <2>2. \A u \in Members(readlevellist) : Registered(u)'
    BY <1>2, <2>1 DEF Registered
  <2> QED
    BY <1>2, <2>1, <2>2, QuietWait
<1> QED
  BY <1>3, <1>4, <1>5, <1>6, <1>7 DEF Next, FinishCommit

LEMMA WaitInit == Init => WaitInv
<1> SUFFICES ASSUME Init
             PROVE  WaitInv
  OBVIOUS
<1>1. Members(readlevellist) = {}
  BY DEF Init, Members
<1>2. Total(atmergewrites, {}) = 0
  BY TotalEmpty
<1>3. Once(readlevellist)
  BY DEF Init, Once
<1>4. /\ maxtrxnum # 0 /\ pendingmergewrites = 0
      /\ atmergewrites \in [Trx -> Nat] /\ \A t \in Trx : atmergewrites[t] = 0
      /\ \A t \in Trx : commitst[t] # "level"
  BY DEF Init, FirstTrxNum
<1> QED
  BY <1>1, <1>2, <1>3, <1>4 DEF WaitInv

\* The sum of MergeWritesKept, over all transactions, is that over the list.
LEMMA WaitingSum ==
  ASSUME IsFiniteSet(Trx), LevelTypes, WaitInv
  PROVE  MapThenSumSet(LAMBDA t : IF In(t, readlevellist) THEN atmergewrites[t] ELSE 0, Trx)
           = Total(atmergewrites, Members(readlevellist))
<1>1. PICK M : M = Members(readlevellist)
  OBVIOUS
<1>2. M \subseteq Trx /\ \A t \in Trx : In(t, readlevellist) <=> t \in M
  BY <1>1, MembersOf DEF LevelTypes
<1>3. PICK f : f = [t \in Trx |-> IF t \in M THEN atmergewrites[t] ELSE 0]
  OBVIOUS
<1>4. \A t \in Trx : /\ f[t] = IF t \in M THEN atmergewrites[t] ELSE 0
                     /\ f[t] \in Nat
  BY <1>3 DEF WaitInv
<1>5. Total(f, Trx) = Total(atmergewrites, M)
  <2>1. \A t \in M : atmergewrites[t] \in Nat
    BY <1>2 DEF WaitInv
  <2> QED
    BY <1>2, <1>4, <2>1, TotalWhere
<1>6. MapThenSumSet(LAMBDA t : IF In(t, readlevellist) THEN atmergewrites[t] ELSE 0, Trx)
        = Total(f, Trx)
  <2> DEFINE E(F) == [T \in SUBSET Trx |->
                       IF T = {} THEN 0
                       ELSE (IF In(CHOOSE t \in T : TRUE, readlevellist)
                               THEN atmergewrites[CHOOSE t \in T : TRUE] ELSE 0)
                            + F[T \ {CHOOSE t \in T : TRUE}]]
             H == CHOOSE F : F = E(F)
  <2>1. MapThenSumSet(LAMBDA t : IF In(t, readlevellist) THEN atmergewrites[t] ELSE 0, Trx)
          = H[Trx]
    BY DEF MapThenSumSet, MapThenFoldSet
  <2>2. \A F : F = E(F) <=> Solves(F, f, Trx)
    <3>1. ASSUME NEW T \in SUBSET Trx, T # {}
          PROVE  f[CHOOSE t \in T : TRUE]
                   = IF In(CHOOSE t \in T : TRUE, readlevellist)
                       THEN atmergewrites[CHOOSE t \in T : TRUE] ELSE 0
      <4>1. PICK u : u = CHOOSE t \in T : TRUE
        OBVIOUS
      <4>2. u \in Trx
        BY <3>1, <4>1
      <4>3. f[u] = IF In(u, readlevellist) THEN atmergewrites[u] ELSE 0
        BY <1>2, <1>4, <4>2
      <4> QED
        BY <4>1, <4>3
    <3> QED
      BY <3>1 DEF Solves
  <2>3. PICK G : G = [T \in SUBSET Trx |-> Total(f, T)]
    OBVIOUS
  <2>4. Solves(G, f, Trx)
    BY <1>4, <2>3, TotalSolves
  <2>5. G = E(G)
    BY <2>2, <2>4
  <2>6. H = E(H)
    BY <2>5
  <2>7. PICK F : F = H
    OBVIOUS
  <2>8. Solves(F, f, Trx)
    BY <2>2, <2>6, <2>7
  <2>9. F[Trx] = Total(f, Trx)
    BY <1>4, <2>8, OnlyTotal
  <2> QED
    BY <2>1, <2>7, <2>9
<1> QED
  BY <1>1, <1>5, <1>6

-----------------------------------------------------------------------------
(***************************************************************************)
(* Theorems                                                                *)
(***************************************************************************)

\* The invariant of the read levels and the commit pipeline.
THEOREM LevelsInvariant == Spec => []LevelsInv
<1>1. LevelsInv /\ [Next]_vars => LevelsInv'
  BY LevelsStep
<1> QED
  BY LevelsInit, <1>1, PTL DEF Spec

\* The writes that wait for the merge: nonnegative, only with levels in the
\* list, and together what pendingmergewrites counts.
THEOREM WaitInvariant == Spec => []WaitInv
<1>1. LevelsInv /\ LevelsInv' /\ WaitInv /\ [Next]_vars => WaitInv'
  BY WaitStep
<1> QED
  BY WaitInit, <1>1, LevelsInvariant, PTL DEF Spec

\* The complete type invariant: no count of waiting writes ever gets negative,
\* whatever leaves the list, commits or is released (TypeOK).
THEOREM TypeCorrect == Spec => []TypeOK
<1>1. LevelsInv /\ WaitInv => TypeOK
  <2> SUFFICES ASSUME LevelsInv, WaitInv
               PROVE  pendingmergewrites \in Nat
    BY DEF LevelsInv, WaitInv, TypeOK, WriteTypes
  <2>1. /\ IsFiniteSet(Members(readlevellist)) /\ Members(readlevellist) \subseteq Trx
    <3>1. readlevellist \in Seq(Trx)
      BY DEF LevelsInv, LevelTypes
    <3> QED
      BY <3>1, MembersOf
  <2>2. \A u \in Members(readlevellist) : atmergewrites[u] \in Nat
    BY <2>1 DEF WaitInv
  <2> QED
    BY <2>1, <2>2, TotalFinite DEF WaitInv
<1> QED
  BY <1>1, LevelsInvariant, WaitInvariant, PTL

\* getmaxtrxnum of a new reader never reaches a transaction still to commit.
THEOREM SnapshotClosedCorrect == Spec => []SnapshotClosed
<1>1. LevelsInv => SnapshotClosed
  BY DEF LevelsInv, ListInv, SnapshotClosed, In
<1> QED
  BY LevelsInvariant, <1>1, PTL

\* The validate list keeps the order of the commit numbers (the assertion of
\* dbe_gtrs_begintrxvalidate), however the gate sections interleave.
THEOREM ValidatesSortedCorrect == Spec => []ValidatesSorted
<1>1. LevelsInv => ValidatesSorted
  BY DEF LevelsInv, ListInv
<1> QED
  BY LevelsInvariant, <1>1, PTL

\* No two transactions ever have the same commit number, those taken without
\* the gate (dbe_trx_commit without tables) included.
THEOREM NumbersUniqueCorrect == Spec => []NumbersUnique
<1>1. LevelsInv => NumbersUnique
  BY DEF LevelsInv, NumbersInv
<1> QED
  BY LevelsInvariant, <1>1, PTL

\* What a transaction reads at its level stays as it is, for as long as it has
\* the level, whatever commits, aborts or merges beside it.
THEOREM SnapshotStableCorrect == Spec => SnapshotStable
<1> DEFINE Stable == \A t \in Trx :
                       level[t] # NULL /\ level'[t] = level[t]
                         => Visible(level[t])' = Visible(level[t])
<1>1. LevelsInv /\ [Next]_vars => Stable
  <2> SUFFICES ASSUME LevelsInv, [Next]_vars, NEW t \in Trx,
                      level'[t] = level[t]
               PROVE  Visible(level[t])' = Visible(level[t])
    OBVIOUS
  <2>1. level[t] \in Nat /\ level[t] <= maxtrxnum
    BY DEF LevelsInv, LevelTypes, NumbersInv
  <2>2. \A u \in Trx :
          state'[u] = "commit" /\ writes'[u] /\ dtable'[u] /\ num'[u] <= level'[t]
            <=> state[u] = "commit" /\ writes[u] /\ dtable[u] /\ num[u] <= level[t]
    BY <2>1, VisibleStep
  <2> QED
    BY <2>2 DEF Visible
<1> QED
  BY <1>1, LevelsInvariant, PTL DEF Spec, SnapshotStable

\* With the default UseRelaxedReadLevel=yes, what the merge may move, moves or
\* has moved into the storage tree is visible to every registered reader.
THEOREM MergeBelowReadersCorrect ==
  ASSUME RelaxedReadLevel
  PROVE  Spec => []MergeBelowReaders
<1>1. Init => MergeInv
  BY MergeInit
<1>2. LevelsInv /\ LevelsInv' /\ MergeInv /\ [Next]_vars => MergeInv'
  BY MergeInvStep
<1>3. LevelsInv /\ MergeInv => MergeBelowReaders
  <2> SUFFICES ASSUME LevelsInv, MergeInv, NEW i \in DOMAIN readlevellist
               PROVE  LET L == level[readlevellist[i]]
                      IN  /\ mergetrxnum <= L /\ activemergetrxnum <= L
                          /\ instorage \subseteq Visible(L)
    BY DEF MergeBelowReaders
  <2> DEFINE L == level[readlevellist[i]]
  <2>1. L \in Nat /\ mergetrxnum \in Nat /\ activemergetrxnum \in Nat
    BY DEF LevelsInv, LevelTypes
  <2>2. mergetrxnum <= L /\ activemergetrxnum <= mergetrxnum
    BY DEF MergeInv, Ordered
  <2>3. \A u \in Trx : num[u] \in Nat
    BY DEF LevelsInv, LevelTypes
  <2>4. Visible(mergetrxnum) \subseteq Visible(L)
    BY <2>1, <2>2, <2>3 DEF Visible
  <2> QED
    BY <2>1, <2>2, <2>4 DEF MergeInv
<1> QED
  BY <1>1, <1>2, <1>3, LevelsInvariant, PTL DEF Spec

\* Under the same setting readlevellist is ordered, oldest level first.
THEOREM ReadLevelsSortedCorrect ==
  ASSUME RelaxedReadLevel
  PROVE  Spec => []ReadLevelsSorted
<1>1. Init => MergeInv
  BY MergeInit
<1>2. LevelsInv /\ LevelsInv' /\ MergeInv /\ [Next]_vars => MergeInv'
  BY MergeInvStep
<1>3. MergeInv => ReadLevelsSorted
  BY DEF MergeInv, Ordered, ReadLevelsSorted
<1> QED
  BY <1>1, <1>2, <1>3, LevelsInvariant, PTL DEF Spec

\* Read levels implement snapshots: dbe_gtrs_endtrx publishes commits for good,
\* and the level a transaction took is one instant of that history.
THEOREM ImplementsSnapshotCorrect == Spec => ImplementsSnapshot
<1>1. Init => Abstract!Init
  BY DEF Init, Abstract!Init, Visible, NULL
<1>2. LevelsInv /\ LevelsInv' /\ [Next]_vars => Abstract!Next
  BY RefinementStep
<1> QED
  BY <1>1, <1>2, LevelsInvariant, PTL DEF Spec, ImplementsSnapshot, Abstract!Spec

\* A reader that was told to look into the storage tree alone misses nothing
\* (the check of storagetrxnum after the gate, StorageOnlyComplete): the merge
\* advertises a level only after all it shows has been moved.
THEOREM StorageOnlyCorrect == Spec => []StorageOnlyComplete
<1>1. Init => StorageInv
  BY DEF Init, StorageInv, StorageHas, ReaderOK, Visible, NULL, FirstTrxNum
<1>2. LevelsInv /\ LevelsInv' /\ StorageInv /\ [Next]_vars => StorageInv'
  BY StorageHasStep, ReadersStep DEF StorageInv
<1>3. LevelsInv /\ StorageInv => StorageOnlyComplete
  <2> SUFFICES ASSUME LevelsInv, StorageInv, NEW t \in Trx, storageonly[t] = "yes"
               PROVE  Visible(level[t]) \subseteq instorage
    BY DEF StorageOnlyComplete
  <2>1. level[t] <= storagetrxnum
    BY DEF StorageInv, ReaderOK
  <2>2. level[t] \in Nat /\ storagetrxnum \in Nat /\ \A u \in Trx : num[u] \in Nat
    BY DEF LevelsInv, LevelTypes
  <2>3. \A u \in Trx : num[u] <= level[t] => num[u] <= storagetrxnum
    BY <2>1, <2>2
  <2>4. Visible(level[t]) \subseteq Visible(storagetrxnum)
    BY <2>3 DEF Visible
  <2> QED
    BY <2>4 DEF StorageInv, StorageHas
<1> QED
  BY <1>1, <1>2, <1>3, LevelsInvariant, PTL DEF Spec

\* Writes wait with exactly one level: the assertion of dbe_gtrs_endtrx, for
\* every finite set of transactions (MergeWritesKept).
THEOREM MergeWritesKeptCorrect ==
  ASSUME IsFiniteSet(Trx)
  PROVE  Spec => []MergeWritesKept
<1>1. LevelsInv /\ WaitInv => MergeWritesKept
  BY WaitingSum DEF LevelsInv, WaitInv, MergeWritesKept
<1> QED
  BY <1>1, LevelsInvariant, WaitInvariant, PTL
=============================================================================
