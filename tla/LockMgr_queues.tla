--------------------------- MODULE LockMgr_queues ---------------------------
(***************************************************************************)
(* The inductive invariant of LockMgr without conversions, and what the    *)
(* calls of the lock manager do to one queue.                              *)
(*                                                                         *)
(* Each transaction then has at most one request in a queue, and a queue   *)
(* is its granted requests followed by its waiting ones.  The invariant    *)
(* has a part for one queue (QueueInv) and a part for one transaction and  *)
(* one name (ClientInv), which ties the request in the queue to what the   *)
(* client waits for, releases and was told.                                *)
(***************************************************************************)
EXTENDS LockMgr, NatLemmas, FiniteSetTheorems, TLAPS

RowMode == {LOCK_S, LOCK_U, LOCK_X}

\* A request between two calls: instant classes and denials do not last.
LastingType ==
  [tran : Tran, status : {"granted", "waiting"}, mode : RowMode,
   class : {LOCK_LONG, LOCK_VERY_LONG}, count : 0..MaxCount]

LockType == [queue : Seq(LastingType), granted : {LOCK_FREE} \cup RowMode,
             waiting : BOOLEAN]

ToldType  == [mode : {LOCK_FREE} \cup RowMode,
              class : {LOCK_INSTANT, LOCK_LONG, LOCK_VERY_LONG}]
ClaimType == Seq(ToldType)

ReleaseType == {Idle} \cup [class : {LOCK_LONG, LOCK_VERY_LONG}, names : SUBSET Name]

Types ==
  /\ lock \in [Name -> LockType]
  /\ ltWait \in [Tran -> Name \cup {None}]
  /\ asleep \in [Tran -> BOOLEAN]
  /\ mes \in [Tran -> BOOLEAN]
  /\ failed \in [Tran -> BOOLEAN]
  /\ releasing \in [Tran -> ReleaseType]
  /\ claim \in [Tran -> [Name -> ClaimType]]

\* One request of each transaction.
OneEach(q) == \A i, j \in 1..Len(q) : q[i].tran = q[j].tran => i = j

\* The first g requests are granted, and each could join those before it.
GrantedFirst(q, g) ==
  /\ \A i \in 1..Len(q) : q[i].status = IF i <= g THEN "granted" ELSE "waiting"
  /\ \A i, j \in 1..g : i < j => lock_compat(q[j].mode, q[i].mode)

\* The header agrees with the queue, and the first waiter has to wait.
HeaderInv(lk, g) ==
  /\ lk.granted = GroupMode(lk.queue, 1..g)
  /\ lk.waiting <=> g < Len(lk.queue)
  /\ lk.queue # << >> => g > 0
  /\ g < Len(lk.queue) => ~lock_compat(lk.queue[g + 1].mode, lk.granted)

QueueInv(lk) ==
  /\ OneEach(lk.queue)
  /\ \E g \in 0..Len(lk.queue) : GrantedFirst(lk.queue, g) /\ HeaderInv(lk, g)

Has(q, t) == FirstOf(q, t) # 0
Own(q, t) == q[FirstOf(q, t)]

\* A client with wait w and release rel waits, and has not yet released what it
\* waits for.
Awaits(w, rel, n) == w = n /\ (rel.names = {} \/ n \in rel.names)

\* What t waits for, and what it has released of that.  q is the queue of n, c
\* the claim of t to it.
WaitPart(q, t, n, w, rel, c) ==
  /\ Awaits(w, rel, n) =>
       /\ Has(q, t)
       /\ Own(q, t).count = 1
       /\ c = NoClaim
       /\ rel.names # {} => Own(q, t).class <= rel.class
  /\ w = n /\ ~Awaits(w, rel, n) => ~Has(q, t)
  /\ Has(q, t) /\ Own(q, t).status = "waiting" => w = n

\* What t was told, and the request that stands for it.
ClaimPart(q, t, n, w, c) ==
  /\ c # NoClaim => Has(q, t) /\ Own(q, t).status = "granted" /\ Len(c) <= Own(q, t).count
  /\ \A i \in 1..Len(c) : c[i].mode <= Own(q, t).mode /\ c[i].class <= Own(q, t).class
  /\ Has(q, t) /\ w # n /\ Own(q, t).class # LOCK_VERY_LONG =>
       /\ c # NoClaim /\ Len(c) = Own(q, t).count
       /\ \A i \in 1..Len(c) : c[i].mode # LOCK_FREE

ClientOK(q, t, n, w, rel, c) == WaitPart(q, t, n, w, rel, c) /\ ClaimPart(q, t, n, w, c)

ClientInv(t, n) == ClientOK(lock[n].queue, t, n, ltWait[t], releasing[t], claim[t][n])

LockInv ==
  /\ Types
  /\ \A n \in Name : QueueInv(lock[n])
  /\ \A t \in Tran, n \in Name : ClientInv(t, n)
-----------------------------------------------------------------------------

(***************************************************************************)
(* Modes and groups                                                        *)
(***************************************************************************)

\* The modes of rows form a chain under lock_max: it is the greater number.
LEMMA ModesAreAChain ==
  \A a, b \in {LOCK_FREE} \cup RowMode :
    lock_max(a, b) = IF a <= b THEN b ELSE a
<1> SUFFICES ASSUME NEW a \in {0, 3, 5, 6}, NEW b \in {0, 3, 5, 6}
             PROVE  lock_max(a, b) = IF a <= b THEN b ELSE a
  BY DEF RowMode, LOCK_FREE, LOCK_S, LOCK_U, LOCK_X
<1>0. CASE a = 0
  BY <1>0 DEF lock_max
<1>3. CASE a = 3
  BY <1>3 DEF lock_max
<1>5. CASE a = 5
  BY <1>5 DEF lock_max
<1>6. CASE a = 6
  BY <1>6 DEF lock_max
<1> QED
  BY <1>0, <1>3, <1>5, <1>6

\* Who joins S may be S or U, who joins U or X nobody.
LEMMA RowCompat ==
  \A m \in RowMode, g \in {LOCK_FREE} \cup RowMode :
    lock_compat(m, g) <=> g = LOCK_FREE \/ (g = LOCK_S /\ m # LOCK_X)
<1> SUFFICES ASSUME NEW m \in {3, 5, 6}, NEW g \in {0, 3, 5, 6}
             PROVE  lock_compat(m, g) <=> g = 0 \/ (g = 3 /\ m # 6)
  BY DEF RowMode, LOCK_FREE, LOCK_S, LOCK_U, LOCK_X
<1> USE DEF LOCK_FREE, LOCK_IS, LOCK_IX, LOCK_S, LOCK_SIX
<1>3. CASE m = 3
  BY <1>3 DEF lock_compat
<1>5. CASE m = 5
  BY <1>5 DEF lock_compat
<1>6. CASE m = 6
  BY <1>6 DEF lock_compat
<1> QED
  BY <1>3, <1>5, <1>6

\* The mode of a group is the strongest in it.
LEMMA GroupProperties ==
  ASSUME NEW q, NEW I, \A i \in I : q[i].mode \in RowMode
  PROVE  /\ GroupMode(q, I) \in {LOCK_FREE} \cup RowMode
         /\ GroupMode(q, I) = LOCK_FREE <=> I = {}
         /\ \A i \in I : q[i].mode <= GroupMode(q, I)
         /\ I # {} => \E i \in I : q[i].mode = GroupMode(q, I)
<1> DEFINE M == {q[i].mode : i \in I}
<1>1. CASE I = {}
  BY <1>1 DEF GroupMode
<1>2. CASE I # {}
  <2>0. M \subseteq {3, 5, 6} /\ M # {}
    BY <1>2 DEF RowMode, LOCK_S, LOCK_U, LOCK_X
  <2>1. \E m \in M : \A k \in M : k <= m
    <3> HIDE DEF M
    <3>6. CASE 6 \in M
      BY <3>6, <2>0
    <3>5. CASE 6 \notin M /\ 5 \in M
      BY <3>5, <2>0
    <3>3. CASE 6 \notin M /\ 5 \notin M
      <4>1. M = {3}
        BY <3>3, <2>0
      <4> QED
        BY <4>1
    <3> QED
      BY <3>3, <3>5, <3>6
  <2>2. \A k, m \in M : lock_max(k, m) = m <=> k <= m
    <3> SUFFICES ASSUME NEW k \in M, NEW m \in M
                 PROVE  lock_max(k, m) = m <=> k <= m
      OBVIOUS
    <3>1. k \in RowMode /\ m \in RowMode
      OBVIOUS
    <3>2. lock_max(k, m) = IF k <= m THEN m ELSE k
      BY <3>1, ModesAreAChain
    <3>3. k \in Nat /\ m \in Nat
      BY <3>1 DEF RowMode, LOCK_S, LOCK_U, LOCK_X
    <3> QED
      BY <3>2, <3>3
  <2>3. PICK m \in M : \A k \in M : k <= m
    BY <2>1
  <2>4. \E g \in M : \A i \in I : lock_max(q[i].mode, g) = g
    <3>1. \A i \in I : lock_max(q[i].mode, m) = m
      BY <2>2, <2>3
    <3> QED
      BY <3>1
  <2>5. /\ GroupMode(q, I) \in M
        /\ \A i \in I : lock_max(q[i].mode, GroupMode(q, I)) = GroupMode(q, I)
    BY <2>4, <1>2 DEF GroupMode
  <2>6. \A i \in I : q[i].mode <= GroupMode(q, I)
    BY <2>2, <2>5
  <2>7. GroupMode(q, I) \in RowMode /\ GroupMode(q, I) # LOCK_FREE
    BY <2>5, <2>0 DEF RowMode, LOCK_FREE, LOCK_S, LOCK_U, LOCK_X
  <2> QED
    BY <1>2, <2>5, <2>6, <2>7
<1> QED
  BY <1>1, <1>2

\* These facts determine it.
LEMMA GroupUnique ==
  ASSUME NEW q, NEW I, \A i \in I : q[i].mode \in RowMode,
         NEW i \in I, \A j \in I : q[j].mode <= q[i].mode
  PROVE  GroupMode(q, I) = q[i].mode
<1>1. GroupMode(q, I) \in RowMode /\ q[i].mode <= GroupMode(q, I)
  BY GroupProperties
<1>2. PICK j \in I : q[j].mode = GroupMode(q, I)
  BY GroupProperties
<1>3. GroupMode(q, I) <= q[i].mode
  BY <1>2
<1> QED
  BY <1>1, <1>3 DEF RowMode, LOCK_S, LOCK_U, LOCK_X

\* Only the modes in the group count.
LEMMA GroupSame ==
  ASSUME NEW q, NEW p, NEW I, \A i \in I : q[i].mode \in RowMode,
         \A i \in I : p[i].mode = q[i].mode
  PROVE  GroupMode(p, I) = GroupMode(q, I)
<1>1. CASE I = {}
  BY <1>1 DEF GroupMode
<1>2. CASE I # {}
  <2>1. PICK i \in I : q[i].mode = GroupMode(q, I)
    BY <1>2, GroupProperties
  <2>2. \A j \in I : p[j].mode <= p[i].mode
    BY <2>1, GroupProperties
  <2>3. GroupMode(p, I) = p[i].mode
    BY <2>2, GroupUnique
  <2> QED
    BY <2>1, <2>3
<1> QED
  BY <1>1, <1>2

\* A request fits a group when it fits each of its members.
LEMMA GroupCompat ==
  ASSUME NEW q, NEW I, \A i \in I : q[i].mode \in RowMode, NEW m \in RowMode
  PROVE  lock_compat(m, GroupMode(q, I)) <=> \A i \in I : lock_compat(m, q[i].mode)
<1> USE DEF RowMode, LOCK_FREE, LOCK_S, LOCK_U, LOCK_X
<1>1. CASE I = {}
  BY <1>1, RowCompat, GroupProperties
<1>2. CASE I # {}
  <2>1. PICK i \in I : q[i].mode = GroupMode(q, I)
    BY <1>2, GroupProperties
  <2>2. \A j \in I : q[j].mode \in {3, 5, 6} /\ q[j].mode <= q[i].mode
    BY <2>1, GroupProperties
  <2>3. lock_compat(m, q[i].mode) <=> (q[i].mode = 3 /\ m # 6)
    BY <2>2, RowCompat
  <2>4. \A j \in I : lock_compat(m, q[j].mode) <=> (q[j].mode = 3 /\ m # 6)
    BY <2>2, RowCompat
  <2>5. q[i].mode = 3 => \A j \in I : q[j].mode = 3
    BY <2>2
  <2> QED
    BY <2>1, <2>3, <2>4, <2>5
<1> QED
  BY <1>1, <1>2

(***************************************************************************)
(* Queues                                                                  *)
(***************************************************************************)

\* The search for a transaction's first request.
LEMMA FirstOfProperties ==
  ASSUME NEW q, Len(q) \in Nat, NEW t
  PROVE  /\ FirstOf(q, t) \in 0..Len(q)
         /\ FirstOf(q, t) = 0 <=> \A i \in 1..Len(q) : q[i].tran # t
         /\ FirstOf(q, t) # 0 => q[FirstOf(q, t)].tran = t
<1> DEFINE I == {i \in 1..Len(q) : q[i].tran = t}
<1>1. FirstOf(q, t) = IF I # {} THEN Min(I) ELSE 0
  BY DEF FirstOf, SelectInSeq
<1>2. CASE I = {}
  BY <1>1, <1>2
<1>3. CASE I # {}
  <2>1. \E i \in I : \A j \in I : i <= j
    <3>1. I \subseteq Nat
      OBVIOUS
    <3> HIDE DEF I
    <3> QED BY <1>3, <3>1, SmallestNat
  <2>2. Min(I) \in I
    BY <2>1 DEF Min
  <2> QED
    BY <1>1, <1>3, <2>2
<1> QED
  BY <1>2, <1>3

\* With one request of each transaction, the first is the last and the only one.
LEMMA OnlyRequest ==
  ASSUME NEW q, Len(q) \in Nat, OneEach(q), NEW i \in 1..Len(q)
  PROVE  FirstOf(q, q[i].tran) = i /\ LastOf(q, q[i].tran) = i
<1> DEFINE t == q[i].tran
<1>1. FirstOf(q, t) = i
  <2>1. FirstOf(q, t) \in 1..Len(q) /\ q[FirstOf(q, t)].tran = t
    BY FirstOfProperties
  <2> QED
    BY <2>1 DEF OneEach
<1>2. {j \in 1..Len(q) : q[j].tran = t} = {i}
  BY DEF OneEach
<1>3. LastOf(q, t) = Max({i})
  BY <1>2 DEF LastOf, SelectLastInSeq
<1>4. Max({i}) = i
  BY DEF Max
<1> QED
  BY <1>1, <1>3, <1>4

\* One request taken out.
LEMMA RemoveAtProperties ==
  ASSUME NEW S, NEW q \in Seq(S), NEW i \in 1..Len(q)
  PROVE  /\ RemoveAt(q, i) \in Seq(S)
         /\ Len(RemoveAt(q, i)) = Len(q) - 1
         /\ \A j \in 1..(Len(q) - 1) : RemoveAt(q, i)[j] = q[IF j < i THEN j ELSE j + 1]
<1> DEFINE a == SubSeq(q, 1, i - 1)
           b == SubSeq(q, i + 1, Len(q))
<1>1. Len(q) \in Nat /\ a \in Seq(S) /\ b \in Seq(S)
  OBVIOUS
<1>2. Len(a) = i - 1 /\ Len(b) = Len(q) - i
  OBVIOUS
<1>3. \A j \in 1..(i - 1) : a[j] = q[j]
  OBVIOUS
<1>4. \A j \in 1..(Len(q) - i) : b[j] = q[j + i]
  OBVIOUS
<1>5. RemoveAt(q, i) = a \o b
  BY DEF RemoveAt
<1> HIDE DEF a, b
<1>6. a \o b \in Seq(S) /\ Len(a \o b) = Len(a) + Len(b)
  BY <1>1
<1>7. Len(a \o b) = Len(q) - 1
  BY <1>1, <1>2, <1>6
<1>8. ASSUME NEW j \in 1..(Len(q) - 1)
      PROVE  (a \o b)[j] = q[IF j < i THEN j ELSE j + 1]
  <2>0. (a \o b)[j] = IF j <= Len(a) THEN a[j] ELSE b[j - Len(a)]
    BY <1>1, <1>2
  <2>1. CASE j < i
    BY <1>1, <1>2, <1>3, <2>0, <2>1
  <2>2. CASE ~(j < i)
    <3>1. j - Len(a) \in 1..(Len(q) - i) /\ j - Len(a) + i = j + 1
      BY <1>1, <1>2, <2>2
    <3>2. (a \o b)[j] = b[j - Len(a)]
      BY <2>0, <1>2, <2>2
    <3> QED
      BY <1>4, <3>1, <3>2, <2>2
  <2> QED
    BY <2>1, <2>2
<1> QED
  BY <1>5, <1>6, <1>7, <1>8

\* What the removed request was does not matter.
LEMMA RemoveChanged ==
  ASSUME NEW S, NEW q \in Seq(S), NEW i \in 1..Len(q),
         NEW U, NEW p \in Seq(U), Len(p) = Len(q),
         \A j \in 1..Len(q) : j # i => p[j] = q[j]
  PROVE  RemoveAt(p, i) = RemoveAt(q, i)
<1>1. SubSeq(p, 1, i - 1) = SubSeq(q, 1, i - 1)
  OBVIOUS
<1>2. SubSeq(p, i + 1, Len(p)) = SubSeq(q, i + 1, Len(q))
  OBVIOUS
<1> QED
  BY <1>1, <1>2 DEF RemoveAt

\* A request taken out again right after it was appended.
LEMMA RemoveAppended ==
  ASSUME NEW S, NEW q \in Seq(S), NEW r
  PROVE  RemoveAt(Append(q, r), Len(q) + 1) = q
<1> DEFINE p == Append(q, r)
<1>1. Len(p) = Len(q) + 1 /\ \A j \in 1..Len(q) : p[j] = q[j]
  OBVIOUS
<1>2. SubSeq(p, 1, Len(q)) = q
  BY <1>1
<1>3. SubSeq(p, Len(q) + 2, Len(q) + 1) = << >>
  OBVIOUS
<1>4. RemoveAt(p, Len(q) + 1) = q \o << >>
  BY <1>1, <1>2, <1>3 DEF RemoveAt
<1> QED
  BY <1>4

\* Where the walk of lmgr_unlock stops.
LEMMA StopProperties ==
  ASSUME NEW q, Len(q) \in Nat, DOMAIN q = 1..Len(q)
  PROVE  /\ Stop(q) \in 1..(Len(q) + 1)
         /\ \A i \in 1..(Stop(q) - 1) : ~Blocks(q, i)
         /\ Stop(q) <= Len(q) => Blocks(q, Stop(q))
         /\ Stop(q) <= Len(q) <=> Blocked(q) # {}
<1>1. Blocked(q) \subseteq 1..Len(q) /\ \A i \in 1..Len(q) : Blocks(q, i) <=> i \in Blocked(q)
  BY DEF Blocked
<1>2. CASE Blocked(q) = {}
  BY <1>1, <1>2 DEF Stop
<1>3. CASE Blocked(q) # {}
  <2>1. \E i \in Blocked(q) : \A j \in Blocked(q) : i <= j
    BY <1>1, <1>3, SmallestNat
  <2>2. Stop(q) \in Blocked(q) /\ \A j \in Blocked(q) : Stop(q) <= j
    BY <1>3, <2>1 DEF Stop, Min
  <2> QED
    BY <1>1, <1>3, <2>2
<1> QED
  BY <1>2, <1>3

\* A request of a queue without denials and conversions.
LEMMA LastingFields ==
  ASSUME NEW r \in LastingType
  PROVE  /\ r.tran \in Tran /\ r.status \in {"granted", "waiting"} /\ r.mode \in RowMode
         /\ r.class \in {LOCK_LONG, LOCK_VERY_LONG} /\ r.count \in 0..MaxCount
         /\ [r EXCEPT !.status = "granted"] \in LastingType
         /\ r.status = "granted" => [r EXCEPT !.status = "granted"] = r
BY DEF LastingType

\* A lock from its parts.
LEMMA LockTyped ==
  ASSUME NEW lk, NEW p \in Seq(LastingType), NEW g \in {LOCK_FREE} \cup RowMode,
         NEW w \in BOOLEAN, lk = [queue |-> p, granted |-> g, waiting |-> w]
  PROVE  lk \in LockType
BY DEF LockType

\* The walk after a request has left: the header is right again, and the queue
\* is what it was but for waiters that were granted.
LEMMA WakeProperties ==
  ASSUME NEW q \in Seq(LastingType), q # << >>, OneEach(q),
         NEW g \in 0..Len(q), GrantedFirst(q, g)
  PROVE  LET lk == Wake(q).lock
         IN  /\ lk \in LockType /\ QueueInv(lk) /\ Len(lk.queue) = Len(q)
             /\ \A i \in 1..Len(q) :
                  lk.queue[i] \in {q[i], [q[i] EXCEPT !.status = "granted"]}
<1> DEFINE lk == Wake(q).lock
           p  == lk.queue
           s  == Stop(q) - 1
<1>0. /\ Len(q) \in Nat /\ Len(q) > 0 /\ DOMAIN q = 1..Len(q)
      /\ \A i \in 1..Len(q) : q[i] \in LastingType
  OBVIOUS
<1>m. \A i \in 1..Len(q) : q[i].mode \in RowMode
  BY <1>0, LastingFields
<1>1. /\ s \in 0..Len(q)
      /\ \A i \in 1..s : ~Blocks(q, i)
      /\ s < Len(q) => Blocks(q, s + 1)
      /\ s < Len(q) <=> Blocked(q) # {}
      /\ Stop(q) = s + 1
  BY <1>0, StopProperties
<1>2. \A i \in 1..Len(q) : /\ i <= g => q[i].status = "granted"
                           /\ i > g  => q[i].status = "waiting"
  BY <1>0 DEF GrantedFirst
<1>3. g <= s
  <2>1. s < Len(q) => q[s + 1].status \in Pending
    BY <1>1 DEF Blocks
  <2> QED
    BY <1>0, <1>1, <1>2, <2>1 DEF Pending
<1>4. s > 0
  <2>1. OnlyOwner(q, 1)
    BY DEF OnlyOwner
  <2>2. ~Blocks(q, 1)
    BY <2>1 DEF Blocks
  <2> QED
    BY <1>0, <1>1, <2>2
<1>5. ASSUME NEW i \in (g + 1)..(Len(q) + 1)
      PROVE  GroupAt(q, i) = 1..(i - 1)
  <2>1. ASSUME NEW j \in 1..(i - 1)
        PROVE  q[j].status \in Pending \/ \A k \in 1..j : q[k].status = "granted"
    <3>1. CASE j <= g
      BY <3>1, <1>0, <1>2
    <3>2. CASE j > g
      BY <3>2, <1>0, <1>2 DEF Pending
    <3> QED
      BY <3>1, <3>2
  <2> QED
    BY <2>1 DEF GroupAt
<1>6. ASSUME NEW i \in 1..Len(q), i > g, i > 1
      PROVE  Blocks(q, i) <=> ~lock_compat(q[i].mode, GroupMode(q, 1..(i - 1)))
  <2>1. q[i].status = "waiting"
    BY <1>2, <1>6
  <2>2. q[1].tran # q[i].tran
    BY <1>0, <1>6 DEF OneEach
  <2>3. ~OnlyOwner(q, i)
    BY <2>2, <1>6 DEF OnlyOwner
  <2>4. GroupAt(q, i) = 1..(i - 1)
    BY <1>5, <1>6
  <2> QED
    BY <2>1, <2>3, <2>4 DEF Blocks, Pending
<1>7. /\ p = GrantLucky(q)
      /\ lk.granted = GroupMode(q, 1..s)
      /\ lk.waiting = (s < Len(q))
      /\ lk = [queue |-> p, granted |-> lk.granted, waiting |-> lk.waiting]
  <2>1. GroupAt(q, Stop(q)) = 1..s
    BY <1>1, <1>3, <1>5
  <2> QED
    BY <1>1, <2>1 DEF Wake
<1>8. /\ DOMAIN p = 1..Len(q)
      /\ \A i \in 1..Len(q) :
           p[i] = IF i <= s THEN [q[i] EXCEPT !.status = "granted"] ELSE q[i]
  <2>1. \A i \in 1..Len(q) : i \in Lucky(q) <=> g < i /\ i <= s
    BY <1>0, <1>1, <1>2 DEF Lucky, Pending
  <2>2. \A i \in 1..Len(q) : i <= g => [q[i] EXCEPT !.status = "granted"] = q[i]
    BY <1>0, <1>2, LastingFields
  <2> QED
    BY <1>0, <1>3, <1>7, <2>1, <2>2 DEF GrantLucky
<1> HIDE DEF lk, p, s
<1>9. /\ p \in Seq(LastingType) /\ Len(p) = Len(q)
      /\ \A i \in 1..Len(q) :
           /\ p[i].tran = q[i].tran /\ p[i].mode = q[i].mode
           /\ p[i].status = IF i <= s THEN "granted" ELSE "waiting"
  <2>1. \A i \in 1..Len(q) : p[i] \in LastingType
    BY <1>0, <1>8, LastingFields
  <2>2. \A i \in 1..Len(q) : p[i].tran = q[i].tran /\ p[i].mode = q[i].mode
    BY <1>0, <1>8 DEF LastingType
  <2>3. \A i \in 1..Len(q) : p[i].status = IF i <= s THEN "granted" ELSE "waiting"
    <3>1. ASSUME NEW i \in 1..Len(q), i <= s
          PROVE  p[i].status = "granted"
      <4>1. p[i] = [q[i] EXCEPT !.status = "granted"] /\ q[i] \in LastingType
        BY <3>1, <1>0, <1>8
      <4> QED
        BY <4>1 DEF LastingType
    <3>2. ASSUME NEW i \in 1..Len(q), ~(i <= s)
          PROVE  p[i].status = "waiting"
      <4>1. i > g
        BY <3>2, <1>0, <1>1, <1>3
      <4> QED
        BY <3>2, <4>1, <1>2, <1>8
    <3> QED
      BY <3>1, <3>2
  <2>4. p = [i \in 1..Len(q) |-> p[i]]
    <3>1. p = GrantLucky(q)
      BY <1>7
    <3> QED
      BY <3>1, <1>0 DEF GrantLucky
  <2> QED
    BY <1>0, <2>1, <2>2, <2>3, <2>4
<1>10. OneEach(p)
  BY <1>9 DEF OneEach
<1>11. GrantedFirst(p, s)
  <2>1. ASSUME NEW i \in 1..s, NEW j \in 1..s, i < j
        PROVE  lock_compat(q[j].mode, q[i].mode)
    <3>1. CASE j <= g
      BY <3>1, <2>1, <1>1 DEF GrantedFirst
    <3>2. CASE j > g
      <4>1. lock_compat(q[j].mode, GroupMode(q, 1..(j - 1)))
        BY <3>2, <2>1, <1>1, <1>6
      <4>2. i \in 1..(j - 1) /\ j \in 1..Len(q)
        BY <2>1, <1>0, <1>1
      <4>3. \A k \in 1..(j - 1) : q[k].mode \in RowMode
        BY <4>2, <1>0, <1>m
      <4> QED
        BY <4>1, <4>2, <4>3, <1>m, GroupCompat
    <3> QED
      BY <3>1, <3>2, <1>1
  <2> QED
    BY <2>1, <1>1, <1>9 DEF GrantedFirst
<1>12. lk.granted = GroupMode(p, 1..s) /\ lk.granted \in {LOCK_FREE} \cup RowMode
  <2>1. \A i \in 1..s : q[i].mode \in RowMode /\ p[i].mode = q[i].mode
    BY <1>0, <1>1, <1>9, <1>m
  <2>2. GroupMode(p, 1..s) = GroupMode(q, 1..s)
    BY <2>1, GroupSame, Zenon
  <2>3. GroupMode(q, 1..s) \in {LOCK_FREE} \cup RowMode
    BY <2>1, GroupProperties, Zenon
  <2> QED
    BY <2>2, <2>3, <1>7
<1>13. HeaderInv(lk, s)
  <2>1. ASSUME s < Len(q)
        PROVE  ~lock_compat(p[s + 1].mode, lk.granted)
    <3>1. ~lock_compat(q[s + 1].mode, GroupMode(q, 1..s))
      BY <2>1, <1>0, <1>1, <1>3, <1>4, <1>6
    <3>2. p[s + 1].mode = q[s + 1].mode
      BY <2>1, <1>1, <1>9
    <3> QED
      BY <3>1, <3>2, <1>7
  <2>2. p = lk.queue
    BY DEF p
  <2> QED
    BY <2>1, <2>2, <1>4, <1>7, <1>9, <1>12 DEF HeaderInv
<1>14. lk \in LockType
  <2>1. lk.waiting \in BOOLEAN
    BY <1>7
  <2> QED
    BY <2>1, <1>7, <1>9, <1>12, LockTyped
<1>15. QueueInv(lk)
  <2>1. p = lk.queue
    BY DEF p
  <2> QED
    BY <2>1, <1>1, <1>9, <1>10, <1>11, <1>13 DEF QueueInv
<1>16. \A i \in 1..Len(q) : p[i] \in {q[i], [q[i] EXCEPT !.status = "granted"]}
  BY <1>8
<1> QED
  BY <1>9, <1>14, <1>15, <1>16 DEF lk, p

\* What a call of t leaves of the requests of the others: all of them, some
\* granted that were waiting.
OthersKept(q, p, t) ==
  \A u \in Tran \ {t} :
    /\ Has(p, u) <=> Has(q, u)
    /\ Has(q, u) => Own(p, u) \in {Own(q, u), [Own(q, u) EXCEPT !.status = "granted"]}

\* The request of a transaction, found by its place.
LEMMA OwnAt ==
  ASSUME NEW q \in Seq(LastingType), OneEach(q), NEW i \in 1..Len(q)
  PROVE  Has(q, q[i].tran) /\ Own(q, q[i].tran) = q[i]
<1>1. Len(q) \in Nat
  OBVIOUS
<1>2. FirstOf(q, q[i].tran) = i
  BY <1>1, OnlyRequest
<1> QED
  BY <1>2 DEF Has, Own

\* Whether a transaction has a request, and which.
LEMMA HasAt ==
  ASSUME NEW q \in Seq(LastingType), NEW t
  PROVE  /\ Has(q, t) <=> \E i \in 1..Len(q) : q[i].tran = t
         /\ Has(q, t) => /\ FirstOf(q, t) \in 1..Len(q)
                         /\ Own(q, t) \in LastingType
                         /\ Own(q, t).tran = t
<1>1. Len(q) \in Nat /\ \A i \in 1..Len(q) : q[i] \in LastingType
  OBVIOUS
<1>2. FirstOf(q, t) # 0 => FirstOf(q, t) \in 1..Len(q)
  BY <1>1, FirstOfProperties
<1>3. Has(q, t) <=> \E i \in 1..Len(q) : q[i].tran = t
  BY <1>1, FirstOfProperties DEF Has
<1> QED
  BY <1>1, <1>2, <1>3, FirstOfProperties DEF Has, Own

\* Enough to know of the places: each request of another is still there.
LEMMA KeptByPlaces ==
  ASSUME NEW q \in Seq(LastingType), OneEach(q), NEW t,
         NEW p \in Seq(LastingType), OneEach(p),
         \A j \in 1..Len(p) : p[j].tran = t \/ \E k \in 1..Len(q) : p[j].tran = q[k].tran,
         \A k \in 1..Len(q) : q[k].tran # t =>
            \E j \in 1..Len(p) : p[j] \in {q[k], [q[k] EXCEPT !.status = "granted"]}
  PROVE  OthersKept(q, p, t)
<1> SUFFICES ASSUME NEW u \in Tran, u # t
             PROVE  /\ Has(p, u) <=> Has(q, u)
                    /\ Has(q, u) =>
                         Own(p, u) \in {Own(q, u), [Own(q, u) EXCEPT !.status = "granted"]}
  BY DEF OthersKept
<1>1. ASSUME Has(p, u)
      PROVE  Has(q, u)
  <2>1. PICK j \in 1..Len(p) : p[j].tran = u
    BY <1>1, HasAt
  <2> QED
    BY <2>1, HasAt
<1>2. ASSUME Has(q, u)
      PROVE  Has(p, u) /\ Own(p, u) \in {Own(q, u), [Own(q, u) EXCEPT !.status = "granted"]}
  <2>1. PICK k \in 1..Len(q) : q[k].tran = u
    BY <1>2, HasAt
  <2>2. Own(q, u) = q[k]
    BY <2>1, OwnAt
  <2>3. PICK j \in 1..Len(p) : p[j] \in {q[k], [q[k] EXCEPT !.status = "granted"]}
    BY <2>1
  <2>4. p[j].tran = u
    <3>1. q[k] \in LastingType
      OBVIOUS
    <3>2. [q[k] EXCEPT !.status = "granted"].tran = q[k].tran
      BY <3>1 DEF LastingType
    <3> QED
      BY <3>2, <2>1, <2>3
  <2>5. Has(p, u) /\ Own(p, u) = p[j]
    BY <2>4, OwnAt
  <2> QED
    BY <2>2, <2>3, <2>5
<1> QED
  BY <1>1, <1>2

\* A lock nobody has a request for.
LEMMA FreeLockInv ==
  /\ FreeLock \in LockType /\ QueueInv(FreeLock)
  /\ \A u : ~Has(FreeLock.queue, u)
<1>1. PICK l : l = FreeLock
  OBVIOUS
<1>2. l.queue = << >> /\ l.granted = LOCK_FREE /\ l.waiting = FALSE
  BY <1>1 DEF FreeLock
<1>3. l \in LockType
  BY <1>1 DEF FreeLock, LockType
<1>4. OneEach(l.queue) /\ GrantedFirst(l.queue, 0)
  BY <1>2 DEF OneEach, GrantedFirst
<1>5. HeaderInv(l, 0)
  <2>1. GroupMode(<< >>, 1..0) = LOCK_FREE
    <3>1. 1..0 = {}
      OBVIOUS
    <3> QED
      BY <3>1 DEF GroupMode
  <2>2. l.granted = GroupMode(l.queue, 1..0)
    BY <2>1, <1>2
  <2>3. Len(l.queue) = 0
    BY <1>2
  <2>4. ~(0 < Len(l.queue))
    BY <2>3
  <2>5. (0 < Len(l.queue)) = FALSE
    BY <2>4
  <2> QED
    BY <2>2, <2>4, <2>5, <1>2, Zenon DEF HeaderInv
<1>6. QueueInv(l)
  <2>1. 0 \in 0..Len(l.queue)
    BY <1>2
  <2> QED
    BY <2>1, <1>4, <1>5 DEF QueueInv
<1>7. \A u : ~Has(l.queue, u)
  <2>1. << >> \in Seq(LastingType) /\ 1..Len(<< >>) = {}
    OBVIOUS
  <2>2. \A u : ~Has(<< >>, u)
    BY <2>1, HasAt
  <2> QED
    BY <1>2, <2>2
<1> QED
  BY <1>1, <1>3, <1>6, <1>7

\* The lock after the request at place i has left.
Left(q, i) == IF Len(q) = 1 THEN FreeLock ELSE Wake(RemoveAt(q, i)).lock

\* The header is right after it, and the others keep their requests.
LEMMA LeftProperties ==
  ASSUME NEW q \in Seq(LastingType), OneEach(q),
         NEW g \in 0..Len(q), GrantedFirst(q, g), NEW i \in 1..Len(q),
         NEW t, q[i].tran = t, NEW l, l = Left(q, i)
  PROVE  /\ l \in LockType /\ QueueInv(l)
         /\ ~Has(l.queue, t) /\ OthersKept(q, l.queue, t)
<1>0. Len(q) \in Nat
  OBVIOUS
<1>1. CASE Len(q) = 1
  <2>1. l = FreeLock /\ i = 1
    BY <1>1 DEF Left
  <2>2. l \in LockType /\ QueueInv(l) /\ \A u : ~Has(l.queue, u)
    BY <2>1, FreeLockInv
  <2>3. OthersKept(q, l.queue, t)
    <3>1. \A u : u # t => ~Has(q, u)
      BY <1>0, <1>1, <2>1, HasAt
    <3> QED
      BY <3>1, <2>2 DEF OthersKept
  <2> QED
    BY <2>2, <2>3
<1>2. CASE Len(q) # 1
  <2>0. PICK p : p = l.queue
    OBVIOUS
  <2>1. PICK r \in Seq(LastingType) :
          /\ r = RemoveAt(q, i) /\ Len(r) = Len(q) - 1
          /\ \A j \in 1..(Len(q) - 1) : r[j] = q[IF j < i THEN j ELSE j + 1]
    BY RemoveAtProperties
  <2>2. Len(r) \in Nat /\ r # << >>
    <3>1. Len(r) = Len(q) - 1 /\ Len(q) > 1
      BY <1>0, <1>2, <2>1
    <3>2. r # << >>
      <4>1. Len(r) # 0
        BY <3>1, <1>0
      <4> QED
        BY <4>1
    <3> QED
      BY <3>1, <3>2, <1>0
  <2>3. OneEach(r)
    <3> SUFFICES ASSUME NEW j \in 1..Len(r), NEW k \in 1..Len(r), r[j].tran = r[k].tran
                 PROVE  j = k
      BY DEF OneEach
    <3> DEFINE a == IF j < i THEN j ELSE j + 1
               b == IF k < i THEN k ELSE k + 1
    <3>1. a \in 1..Len(q) /\ b \in 1..Len(q)
      BY <1>0, <2>1
    <3>2. r[j] = q[a] /\ r[k] = q[b]
      BY <2>1
    <3>3. a = b
      <4> HIDE DEF a, b
      <4> QED BY <1>0, <3>1, <3>2 DEF OneEach
    <3> QED
      BY <3>3
  <2> DEFINE h == IF i <= g THEN g - 1 ELSE g
  <2>5. h \in 0..Len(r)
    BY <1>0, <2>1
  <2>6. GrantedFirst(r, h)
    <3>1. ASSUME NEW j \in 1..Len(r)
          PROVE  r[j].status = IF j <= h THEN "granted" ELSE "waiting"
      <4> DEFINE a == IF j < i THEN j ELSE j + 1
      <4>1. a \in 1..Len(q) /\ r[j] = q[a] /\ (a <= g <=> j <= h)
        BY <1>0, <2>1
      <4> HIDE DEF a, h
      <4> QED
        BY <4>1 DEF GrantedFirst
    <3>2. ASSUME NEW j \in 1..h, NEW k \in 1..h, j < k
          PROVE  lock_compat(r[k].mode, r[j].mode)
      <4> DEFINE a == IF j < i THEN j ELSE j + 1
                 b == IF k < i THEN k ELSE k + 1
      <4>1. /\ a \in 1..g /\ b \in 1..g /\ a < b
            /\ j \in 1..(Len(q) - 1) /\ k \in 1..(Len(q) - 1)
        BY <1>0, <3>2
      <4>2. r[j] = q[a] /\ r[k] = q[b]
        BY <2>1, <4>1
      <4> HIDE DEF a, b
      <4> QED
        BY <4>1, <4>2 DEF GrantedFirst
    <3> HIDE DEF h
    <3> QED
      BY <3>1, <3>2 DEF GrantedFirst
  <2>7. l = Wake(r).lock
    BY <1>2, <2>1 DEF Left
  <2> HIDE DEF h
  <2>8. /\ l \in LockType /\ QueueInv(l) /\ Len(p) = Len(r)
        /\ \A j \in 1..Len(r) : p[j] \in {r[j], [r[j] EXCEPT !.status = "granted"]}
    BY <2>1, <2>2, <2>3, <2>5, <2>6, <2>7, <2>0, WakeProperties
  <2>9. p \in Seq(LastingType) /\ OneEach(p)
    BY <2>0, <2>8 DEF LockType, QueueInv
  <2>10. \A j \in 1..Len(p) : \E k \in 1..Len(q) : k # i /\ p[j].tran = q[k].tran
    <3> SUFFICES ASSUME NEW j \in 1..Len(p)
                 PROVE  \E k \in 1..Len(q) : k # i /\ p[j].tran = q[k].tran
      OBVIOUS
    <3> DEFINE a == IF j < i THEN j ELSE j + 1
    <3>1. a \in 1..Len(q) /\ a # i /\ r[j] = q[a] /\ r[j] \in LastingType
      BY <1>0, <2>1, <2>8
    <3>2. p[j].tran = r[j].tran
      BY <3>1, <2>8 DEF LastingType
    <3> QED
      BY <3>1, <3>2
  <2>11. ~Has(p, t)
    <3>1. \A j \in 1..Len(p) : p[j].tran # t
      BY <2>10, <1>0 DEF OneEach
    <3> QED
      BY <3>1, <2>9, HasAt
  <2>12. ASSUME NEW k \in 1..Len(q), q[k].tran # t
         PROVE  \E j \in 1..Len(p) : p[j] \in {q[k], [q[k] EXCEPT !.status = "granted"]}
    <3> DEFINE j == IF k < i THEN k ELSE k - 1
    <3>0. k # i
      BY <2>12
    <3>1. j \in 1..(Len(q) - 1) /\ k = (IF j < i THEN j ELSE j + 1)
      BY <1>0, <3>0
    <3>2. r[j] = q[k] /\ j \in 1..Len(p) /\ j \in 1..Len(r)
      BY <2>1, <2>8, <3>1
    <3> QED
      BY <3>2, <2>8
  <2>13. OthersKept(q, p, t)
    <3>1. \A j \in 1..Len(p) : p[j].tran = t \/ \E k \in 1..Len(q) : p[j].tran = q[k].tran
      BY <2>10
    <3> QED
      BY <1>0, <2>9, <2>12, <3>1, KeptByPlaces
  <2> QED
    BY <2>0, <2>8, <2>11, <2>13
<1> QED
  BY <1>1, <1>2

(***************************************************************************)
(* What the calls do to a lock                                             *)
(***************************************************************************)

\* lmgr_unlock frees the request of the caller when it is instant or long and
\* taken once; p is the queue q with that request changed.
LEMMA UnlockLeaves ==
  ASSUME NEW q \in Seq(LastingType), OneEach(q), NEW i \in 1..Len(q),
         NEW lk, NEW p \in Seq(RequestType), lk.queue = p, Len(p) = Len(q),
         \A j \in 1..Len(q) : j # i => p[j] = q[j],
         p[i].tran = q[i].tran, p[i].class <= LOCK_LONG, p[i].count = 1
  PROVE  lmgr_unlock(lk, q[i].tran).lock = Left(q, i)
<1> DEFINE t == q[i].tran
<1>1. Len(p) \in Nat
  OBVIOUS
<1>2. OneEach(p)
  BY DEF OneEach
<1>3. FirstOf(p, t) = i
  BY <1>1, <1>2, OnlyRequest
<1>4. i # 0 /\ ~(p[i].class > LOCK_LONG) /\ ~(p[i].count > 1)
  <2>1. p[i] \in RequestType
    OBVIOUS
  <2>2. p[i].class \in {LOCK_INSTANT, LOCK_LONG, LOCK_VERY_LONG}
    BY <2>1 DEF RequestType
  <2> QED
    BY <2>2 DEF LOCK_INSTANT, LOCK_LONG, LOCK_VERY_LONG
<1>5. lmgr_unlock(lk, t) = IF Len(p) = 1 THEN [lock |-> FreeLock, woken |-> {}]
                           ELSE Wake(RemoveAt(p, i))
  BY <1>3, <1>4 DEF lmgr_unlock
<1>6. RemoveAt(p, i) = RemoveAt(q, i)
  BY RemoveChanged
<1>7. CASE Len(q) = 1
  BY <1>5, <1>7 DEF Left
<1>8. CASE Len(q) # 1
  BY <1>5, <1>6, <1>8 DEF Left
<1> QED
  BY <1>7, <1>8

\* The request at i taken once more, and undone once.
Again(lk, i, c)  == [lk EXCEPT !.queue[i].class = MaxOf(c, @), !.queue[i].count = @ + 1]
Undone(lk, i)    == [lk EXCEPT !.queue[i].count = @ - 1]

\* lmgr_unlock keeps a request that is very long or taken more than once.
LEMMA UnlockCounts ==
  ASSUME NEW lk \in LockType, OneEach(lk.queue), NEW i \in 1..Len(lk.queue),
         lk.queue[i].class > LOCK_LONG \/ lk.queue[i].count > 1
  PROVE  lmgr_unlock(lk, lk.queue[i].tran).lock = Undone(lk, i)
<1>1. lk.queue \in Seq(LastingType)
  BY DEF LockType
<1>2. Len(lk.queue) \in Nat
  BY <1>1
<1>3. FirstOf(lk.queue, lk.queue[i].tran) = i
  BY <1>2, OnlyRequest
<1>4. i # 0
  OBVIOUS
<1> QED
  BY <1>3, <1>4 DEF lmgr_unlock, Undone

\* l is lk with the request at i replaced by r: only its class and count change.
Recounted(lk, i, r, l) ==
  /\ r.tran = lk.queue[i].tran /\ r.mode = lk.queue[i].mode
  /\ r.status = lk.queue[i].status
  /\ l = [lk EXCEPT !.queue = [lk.queue EXCEPT ![i] = r]]

\* The header stays right, and the request of t is r now.
LEMMA Counted ==
  ASSUME NEW lk \in LockType, QueueInv(lk), NEW i \in 1..Len(lk.queue), NEW t,
         lk.queue[i].tran = t, lk.queue[i].status = "granted",
         NEW r \in LastingType, NEW l, Recounted(lk, i, r, l)
  PROVE  /\ l \in LockType /\ QueueInv(l) /\ OthersKept(lk.queue, l.queue, t)
         /\ Has(l.queue, t) /\ Own(l.queue, t) = r
<1>1. PICK q \in Seq(LastingType) : q = lk.queue
  BY DEF LockType
<1>2. Len(q) \in Nat /\ OneEach(q) /\ i \in 1..Len(q) /\ q[i] \in LastingType
  BY <1>1 DEF QueueInv
<1>3. PICK g \in 0..Len(q) : GrantedFirst(q, g) /\ HeaderInv(lk, g)
  BY <1>1 DEF QueueInv
<1>4. /\ r.tran = q[i].tran /\ r.mode = q[i].mode /\ r.status = q[i].status
      /\ l = [lk EXCEPT !.queue = [q EXCEPT ![i] = r]]
  BY <1>1, <1>2 DEF Recounted
<1>5. PICK p : p = [q EXCEPT ![i] = r]
  OBVIOUS
<1>6. p \in Seq(LastingType) /\ Len(p) = Len(q) /\ p[i] = r
  BY <1>2, <1>4, <1>5
<1>6a. \A j \in 1..Len(q) : j # i => p[j] = q[j]
  BY <1>2, <1>4, <1>5
<1>7. \A j \in 1..Len(q) :
        p[j].tran = q[j].tran /\ p[j].mode = q[j].mode /\ p[j].status = q[j].status
  BY <1>4, <1>6, <1>6a
<1>8. /\ l.queue = p /\ l.granted = lk.granted /\ l.waiting = lk.waiting
      /\ l \in LockType
  BY <1>1, <1>4, <1>5, <1>6 DEF LockType
<1>9. OneEach(p)
  BY <1>2, <1>6, <1>7 DEF OneEach
<1>10. GrantedFirst(p, g)
  BY <1>3, <1>6, <1>7 DEF GrantedFirst
<1>11. HeaderInv(l, g)
  <2>1. \A j \in 1..g : q[j].mode \in RowMode /\ p[j].mode = q[j].mode
    <3>1. \A j \in 1..g : j \in 1..Len(q) /\ q[j] \in LastingType
      BY <1>2
    <3> QED
      BY <3>1, <1>7, LastingFields
  <2>2. GroupMode(p, 1..g) = GroupMode(q, 1..g)
    BY <2>1, GroupSame, Zenon
  <2>3. g < Len(q) => p[g + 1].mode = q[g + 1].mode
    BY <1>2, <1>7
  <2>4. q = << >> <=> p = << >>
    BY <1>6
  <2> QED
    BY <1>1, <1>3, <1>6, <1>8, <2>2, <2>3, <2>4 DEF HeaderInv
<1>12. QueueInv(l)
  BY <1>6, <1>8, <1>9, <1>10, <1>11 DEF QueueInv
<1>13. Has(p, t) /\ Own(p, t) = r
  <2>1. p[i].tran = t
    BY <1>1, <1>4, <1>6
  <2> QED
    BY <2>1, <1>2, <1>6, <1>9, OwnAt
<1>14. OthersKept(q, p, t)
  <2>1. \A j \in 1..Len(p) : \E k1 \in 1..Len(q) : p[j].tran = q[k1].tran
    BY <1>6, <1>7
  <2>2. \A k1 \in 1..Len(q) : q[k1].tran # t => \E j \in 1..Len(p) : p[j] = q[k1]
    BY <1>1, <1>6, <1>6a
  <2> QED
    BY <1>2, <1>6, <1>9, <2>1, <2>2, KeptByPlaces
<1> QED
  BY <1>1, <1>8, <1>12, <1>13, <1>14

\* These change the class and the count of the request at i.
LEMMA CountedAgain ==
  ASSUME NEW lk \in LockType, NEW i \in 1..Len(lk.queue), NEW c \in {LOCK_LONG, LOCK_VERY_LONG},
         lk.queue[i].count < MaxCount
  PROVE  \E r \in LastingType :
           /\ Recounted(lk, i, r, Again(lk, i, c))
           /\ r.class = MaxOf(c, lk.queue[i].class) /\ r.count = lk.queue[i].count + 1
<1>1. lk.queue[i] \in LastingType
  BY DEF LockType
<1>2. PICK d : d = MaxOf(c, lk.queue[i].class)
  OBVIOUS
<1>3. d \in {LOCK_LONG, LOCK_VERY_LONG}
  BY <1>1, <1>2 DEF LastingType, MaxOf
<1>4. PICK r : r = [lk.queue[i] EXCEPT !.class = d, !.count = @ + 1]
  OBVIOUS
<1>5. lk.queue[i].count + 1 \in 0..MaxCount
  BY <1>1, BoundsAssumption DEF LastingType
<1>6. /\ r \in LastingType /\ r.tran = lk.queue[i].tran /\ r.mode = lk.queue[i].mode
      /\ r.status = lk.queue[i].status /\ r.class = d /\ r.count = lk.queue[i].count + 1
  BY <1>1, <1>3, <1>4, <1>5 DEF LastingType
<1>7. [lk EXCEPT !.queue[i].class = d, !.queue[i].count = @ + 1]
        = [lk EXCEPT !.queue = [lk.queue EXCEPT ![i] = r]]
  BY <1>4 DEF LockType
<1>8. Again(lk, i, c) = [lk EXCEPT !.queue[i].class = d, !.queue[i].count = @ + 1]
  BY <1>2 DEF Again
<1>9. Recounted(lk, i, r, Again(lk, i, c))
  BY <1>6, <1>7, <1>8 DEF Recounted
<1> QED
  BY <1>2, <1>6, <1>9

\* Likewise, one lock less.
LEMMA CountedUndone ==
  ASSUME NEW lk \in LockType, NEW i \in 1..Len(lk.queue), lk.queue[i].count > 0
  PROVE  \E r \in LastingType :
           /\ Recounted(lk, i, r, Undone(lk, i))
           /\ r.class = lk.queue[i].class /\ r.count = lk.queue[i].count - 1
<1>1. lk.queue[i] \in LastingType
  BY DEF LockType
<1>2. PICK r : r = [lk.queue[i] EXCEPT !.count = @ - 1]
  OBVIOUS
<1>3. lk.queue[i].count - 1 \in 0..MaxCount
  BY <1>1, BoundsAssumption DEF LastingType
<1>4. /\ r \in LastingType /\ r.tran = lk.queue[i].tran /\ r.mode = lk.queue[i].mode
      /\ r.status = lk.queue[i].status /\ r.class = lk.queue[i].class
      /\ r.count = lk.queue[i].count - 1
  BY <1>1, <1>2, <1>3 DEF LastingType
<1>5. [lk EXCEPT !.queue[i].count = @ - 1]
        = [lk EXCEPT !.queue = [lk.queue EXCEPT ![i] = r]]
  BY <1>2 DEF LockType
<1>6. Recounted(lk, i, r, Undone(lk, i))
  BY <1>4, <1>5 DEF Recounted, Undone
<1> QED
  BY <1>4, <1>6

\* l is lk with the request r appended: granted when it fits the group and
\* nobody waits, else waiting.
JoinsAs(lk, r, l) ==
  \/ /\ r.status = "granted"
     /\ ~lk.waiting /\ lock_compat(r.mode, lk.granted)
     /\ l = [lk EXCEPT !.queue = Append(lk.queue, r),
                       !.granted = lock_max(r.mode, lk.granted)]
  \/ /\ r.status = "waiting"
     /\ ~(~lk.waiting /\ lock_compat(r.mode, lk.granted))
     /\ lk.queue # << >>
     /\ l = [lk EXCEPT !.queue = Append(lk.queue, r), !.waiting = TRUE]

\* After a first request of t the header is right again.
LEMMA Joined ==
  ASSUME NEW lk \in LockType, QueueInv(lk), NEW t \in Tran, ~Has(lk.queue, t),
         NEW r \in LastingType, r.tran = t, NEW l, JoinsAs(lk, r, l)
  PROVE  /\ l \in LockType /\ QueueInv(l) /\ OthersKept(lk.queue, l.queue, t)
         /\ Has(l.queue, t) /\ Own(l.queue, t) = r
<1>1. PICK q \in Seq(LastingType) : q = lk.queue
  BY DEF LockType
<1>2. Len(q) \in Nat /\ OneEach(q) /\ \A i \in 1..Len(q) : q[i] \in LastingType
  BY <1>1 DEF QueueInv
<1>3. PICK g \in 0..Len(q) : GrantedFirst(q, g) /\ HeaderInv(lk, g)
  BY <1>1 DEF QueueInv
<1>4. PICK p \in Seq(LastingType) : p = Append(q, r)
  <2>1. Append(q, r) \in Seq(LastingType)
    OBVIOUS
  <2> QED
    BY <2>1, Zenon
<1>5. Len(p) = Len(q) + 1 /\ p[Len(q) + 1] = r /\ \A j \in 1..Len(q) : p[j] = q[j]
  BY <1>2, <1>4
<1>6. \A j \in 1..Len(q) : q[j].tran # t
  BY <1>1, HasAt
<1>7. OneEach(p)
  BY <1>2, <1>5, <1>6 DEF OneEach
<1>8. Has(p, t) /\ Own(p, t) = r
  <2>1. Len(q) + 1 \in 1..Len(p)
    BY <1>2, <1>5
  <2> QED
    BY <2>1, <1>5, <1>7, OwnAt
<1>9. OthersKept(q, p, t)
  <2>1. \A j \in 1..Len(p) : p[j].tran = t \/ \E k \in 1..Len(q) : p[j].tran = q[k].tran
    BY <1>2, <1>5
  <2>2. \A k \in 1..Len(q) : \E j \in 1..Len(p) : p[j] = q[k]
    BY <1>2, <1>5
  <2> QED
    BY <1>2, <1>7, <2>1, <2>2, KeptByPlaces
<1>10. \A I : I \subseteq 1..Len(q) =>
         \A j \in I : q[j].mode \in RowMode /\ p[j].mode = q[j].mode
  BY <1>2, <1>5, LastingFields
<1>11. lk.granted = GroupMode(q, 1..g) /\ lk.granted = GroupMode(p, 1..g)
  <2>1. 1..g \subseteq 1..Len(q)
    OBVIOUS
  <2>2. \A j \in 1..g : q[j].mode \in RowMode /\ p[j].mode = q[j].mode
    BY <2>1, <1>10
  <2>3. GroupMode(p, 1..g) = GroupMode(q, 1..g)
    <3>1. (\A j \in 1..g : q[j].mode \in RowMode) /\ (\A j \in 1..g : p[j].mode = q[j].mode)
      BY <2>2
    <3> QED
      BY <3>1, GroupSame, ZenonT(30)
  <2> QED
    BY <2>3, <1>1, <1>3 DEF HeaderInv
<1>12. lk.waiting <=> g < Len(q)
  BY <1>1, <1>3 DEF HeaderInv
<1>13. CASE /\ r.status = "granted"
            /\ ~lk.waiting /\ lock_compat(r.mode, lk.granted)
            /\ l = [lk EXCEPT !.queue = Append(lk.queue, r),
                              !.granted = lock_max(r.mode, lk.granted)]
  <2>1. g = Len(q)
    BY <1>2, <1>12, <1>13
  <2>2. GrantedFirst(p, g + 1)
    <3>1. \A j \in 1..Len(q) : p[j].status = "granted"
      BY <1>2, <1>3, <1>5, <2>1 DEF GrantedFirst
    <3>2. \A j \in 1..Len(q) : lock_compat(r.mode, q[j].mode)
      <4>1. \A j \in 1..g : q[j].mode \in RowMode
        BY <1>10, <2>1
      <4>2. r.mode \in RowMode
        BY LastingFields
      <4>3. lock_compat(r.mode, GroupMode(q, 1..g))
        BY <1>11, <1>13
      <4> QED
        BY <4>1, <4>2, <4>3, <2>1, GroupCompat
    <3>3. ASSUME NEW i \in 1..(g + 1), NEW j \in 1..(g + 1), i < j
          PROVE  lock_compat(p[j].mode, p[i].mode)
      <4>1. i \in 1..Len(q) /\ p[i] = q[i]
        BY <1>2, <1>5, <2>1, <3>3
      <4>2. CASE j = g + 1
        BY <4>1, <4>2, <3>2, <1>5, <2>1
      <4>3. CASE j # g + 1
        <5>1. j \in 1..g /\ i \in 1..g /\ p[j] = q[j]
          BY <4>3, <3>3, <1>2, <1>5, <2>1
        <5> QED
          BY <5>1, <4>1, <3>3, <1>3 DEF GrantedFirst
      <4> QED
        BY <4>2, <4>3
    <3>4. \A j \in 1..Len(p) : p[j].status = IF j <= g + 1 THEN "granted" ELSE "waiting"
      BY <3>1, <1>2, <1>5, <1>13, <2>1
    <3> QED
      BY <3>3, <3>4 DEF GrantedFirst
  <2>3. GroupMode(p, 1..(g + 1)) = lock_max(r.mode, lk.granted)
    <3>1. r.mode \in RowMode /\ lk.granted \in {LOCK_FREE} \cup RowMode
      BY LastingFields DEF LockType
    <3>2. lock_max(r.mode, lk.granted) = IF r.mode <= lk.granted THEN lk.granted ELSE r.mode
      BY <3>1, ModesAreAChain
    <3>3. \A j \in 1..(g + 1) : p[j].mode \in RowMode
      <4>1. \A j \in 1..g : p[j].mode \in RowMode
        BY <1>10, <2>1
      <4> QED
        BY <4>1, <3>1, <1>2, <1>5, <2>1
    <3>4. \A j \in 1..g : p[j].mode <= lk.granted
      <4>1. \A j \in 1..g : q[j].mode \in RowMode /\ p[j].mode = q[j].mode
        BY <1>10, <2>1
      <4> QED
        BY <4>1, <1>11, GroupProperties
    <3>5. CASE r.mode <= lk.granted
      <4>1. lk.granted # LOCK_FREE
        BY <3>1, <3>5 DEF RowMode, LOCK_FREE, LOCK_S, LOCK_U, LOCK_X
      <4>2. \A j \in 1..g : p[j].mode \in RowMode
        BY <3>3
      <4>3. PICK i \in 1..g : p[i].mode = lk.granted
        BY <4>1, <4>2, <1>11, GroupProperties
      <4>4. i \in 1..(g + 1) /\ \A j \in 1..(g + 1) : p[j].mode <= p[i].mode
        <5>1. p[g + 1].mode <= p[i].mode
          BY <4>3, <3>5, <1>5, <2>1
        <5>2. \A j \in 1..g : p[j].mode <= p[i].mode
          BY <4>3, <3>4
        <5>3. i \in 1..(g + 1) /\ \A j \in 1..(g + 1) : j \in 1..g \/ j = g + 1
          OBVIOUS
        <5> QED
          BY <5>1, <5>2, <5>3
      <4>5. GroupMode(p, 1..(g + 1)) = p[i].mode
        BY <4>4, <3>3, GroupUnique
      <4> QED
        BY <4>3, <4>5, <3>2, <3>5
    <3>6. CASE ~(r.mode <= lk.granted)
      <4>1. \A j \in 1..(g + 1) : p[j].mode <= p[g + 1].mode
        <5>1. p[g + 1].mode = r.mode
          BY <1>5, <2>1
        <5>2. ASSUME NEW j \in 1..(g + 1), j # g + 1
              PROVE  p[j].mode <= r.mode
          <6>1. j \in 1..g
            BY <5>2
          <6>2. p[j].mode <= lk.granted /\ p[j].mode \in RowMode
            BY <6>1, <3>3, <3>4
          <6> QED
            BY <6>2, <3>1, <3>6 DEF RowMode, LOCK_FREE, LOCK_S, LOCK_U, LOCK_X
        <5>3. r.mode <= r.mode
          BY <3>1 DEF RowMode, LOCK_S, LOCK_U, LOCK_X
        <5> QED
          BY <5>1, <5>2, <5>3
      <4>2. g + 1 \in 1..(g + 1)
        OBVIOUS
      <4>3. GroupMode(p, 1..(g + 1)) = p[g + 1].mode
        BY <4>1, <4>2, <3>3, GroupUnique
      <4> QED
        BY <4>3, <3>2, <3>6, <1>5, <2>1
    <3> QED
      BY <3>5, <3>6
  <2>4. l.queue = p /\ l.granted = lock_max(r.mode, lk.granted) /\ l.waiting = lk.waiting
    BY <1>1, <1>4, <1>13 DEF LockType
  <2>5. l \in LockType
    <3>1. \A j \in 1..(g + 1) : p[j].mode \in RowMode
      <4>1. \A j \in 1..(g + 1) : p[j] \in LastingType
        BY <1>2, <1>5, <2>1
      <4> QED
        BY <4>1, LastingFields
    <3>2. l.granted \in {LOCK_FREE} \cup RowMode
      BY <3>1, <2>3, <2>4, GroupProperties
    <3>3. lk.waiting \in BOOLEAN
      BY DEF LockType
    <3>4. l = [queue |-> p, granted |-> l.granted, waiting |-> lk.waiting]
      BY <2>4, <1>13 DEF LockType
    <3> QED
      BY <3>2, <3>3, <3>4, LockTyped
  <2>6. HeaderInv(l, g + 1)
    <3>1. g + 1 = Len(p) /\ ~(g + 1 < Len(p)) /\ ~lk.waiting
      BY <1>2, <1>5, <1>13, <2>1
    <3>2. (g + 1 < Len(p)) = FALSE /\ lk.waiting = FALSE
      BY <3>1 DEF LockType
    <3>3. g + 1 > 0
      OBVIOUS
    <3> QED
      BY <3>1, <3>2, <3>3, <2>3, <2>4 DEF HeaderInv
  <2>7. QueueInv(l)
    <3>1. g + 1 \in 0..Len(p)
      BY <1>2, <1>5, <2>1
    <3> QED
      BY <3>1, <1>7, <2>2, <2>4, <2>6 DEF QueueInv
  <2> QED
    BY <1>1, <1>8, <1>9, <2>4, <2>5, <2>7
<1>14. CASE /\ r.status = "waiting"
            /\ ~(~lk.waiting /\ lock_compat(r.mode, lk.granted))
            /\ lk.queue # << >>
            /\ l = [lk EXCEPT !.queue = Append(lk.queue, r), !.waiting = TRUE]
  <2>1. l.queue = p /\ l.granted = lk.granted /\ l.waiting = TRUE /\ l \in LockType
    <3>1. l = [queue |-> p, granted |-> lk.granted, waiting |-> TRUE]
      BY <1>1, <1>4, <1>14 DEF LockType
    <3>2. lk.granted \in {LOCK_FREE} \cup RowMode
      BY DEF LockType
    <3>3. l \in LockType
      BY <3>1, <3>2, LockTyped
    <3> QED
      BY <3>1, <3>3
  <2>2. GrantedFirst(p, g)
    BY <1>2, <1>3, <1>5, <1>14 DEF GrantedFirst
  <2>3. HeaderInv(l, g)
    <3>1. g < Len(p) /\ g > 0
      BY <1>1, <1>2, <1>3, <1>5, <1>14 DEF HeaderInv
    <3>2. ~lock_compat(p[g + 1].mode, lk.granted)
      <4>1. CASE g < Len(q)
        BY <4>1, <1>1, <1>2, <1>3, <1>5 DEF HeaderInv
      <4>2. CASE g = Len(q)
        <5>1. ~lk.waiting
          BY <4>2, <1>2, <1>12
        <5> QED
          BY <5>1, <4>2, <1>5, <1>14
      <4> QED
        BY <4>1, <4>2
    <3>3. (g < Len(p)) = TRUE
      BY <3>1
    <3> QED
      BY <3>1, <3>2, <3>3, <2>1, <1>11 DEF HeaderInv
  <2>4. QueueInv(l)
    <3>1. g \in 0..Len(p)
      BY <1>2, <1>5
    <3> QED
      BY <3>1, <1>7, <2>1, <2>2, <2>3 DEF QueueInv
  <2> QED
    BY <1>1, <1>8, <1>9, <2>1, <2>4
<1> QED
  BY <1>13, <1>14 DEF JoinsAs

\* A lasting request that is marked instant is a request still.
LEMMA MarkedRequest ==
  ASSUME NEW r \in LastingType
  PROVE  /\ r \in RequestType
         /\ [r EXCEPT !.class = LOCK_INSTANT] \in RequestType
         /\ [r EXCEPT !.class = LOCK_INSTANT, !.count = 1] \in RequestType
<1>1. RowMode \subseteq LockMode /\ {"granted", "waiting"} \subseteq Status
  BY DEF RowMode, LockMode, LOCK_S, LOCK_U, LOCK_X, Status
<1>2. 1 \in 0..MaxCount
  BY BoundsAssumption
<1>3. /\ r = [tran |-> r.tran, status |-> r.status, mode |-> r.mode,
              class |-> r.class, count |-> r.count]
      /\ r.tran \in Tran /\ r.status \in Status /\ r.mode \in LockMode
      /\ r.class \in {LOCK_LONG, LOCK_VERY_LONG} /\ r.count \in 0..MaxCount
  BY <1>1 DEF LastingType
<1>4. [r EXCEPT !.class = LOCK_INSTANT]
        = [tran |-> r.tran, status |-> r.status, mode |-> r.mode,
           class |-> LOCK_INSTANT, count |-> r.count]
  BY DEF LastingType
<1>5. [r EXCEPT !.class = LOCK_INSTANT, !.count = 1]
        = [tran |-> r.tran, status |-> r.status, mode |-> r.mode,
           class |-> LOCK_INSTANT, count |-> 1]
  <2>1. PICK e : e = [r EXCEPT !.class = LOCK_INSTANT]
    OBVIOUS
  <2>2. [r EXCEPT !.class = LOCK_INSTANT, !.count = 1] = [e EXCEPT !.count = 1]
    BY <2>1 DEF LastingType
  <2>3. [e EXCEPT !.count = 1]
          = [tran |-> r.tran, status |-> r.status, mode |-> r.mode,
             class |-> LOCK_INSTANT, count |-> 1]
    <3>1. e \in [tran : Tran, status : Status, mode : LockMode,
                 class : {LOCK_INSTANT}, count : 0..MaxCount]
      BY <2>1, <1>3, <1>4
    <3>2. [e EXCEPT !.count = 1]
            = [tran |-> e.tran, status |-> e.status, mode |-> e.mode,
               class |-> e.class, count |-> 1]
      BY <3>1
    <3>3. /\ e.tran = r.tran /\ e.status = r.status /\ e.mode = r.mode
          /\ e.class = LOCK_INSTANT
      BY <2>1, <1>3, <1>4
    <3> QED
      BY <3>2, <3>3
  <2> QED
    BY <2>2, <2>3, Zenon
<1>6. \A c \in {LOCK_INSTANT, LOCK_LONG, LOCK_VERY_LONG}, k \in 0..MaxCount :
        [tran |-> r.tran, status |-> r.status, mode |-> r.mode,
         class |-> c, count |-> k] \in RequestType
  BY <1>3 DEF RequestType
<1> QED
  BY <1>2, <1>3, <1>4, <1>5, <1>6

\* A request marked instant is freed by lmgr_unlock: of an unlock, of a
\* release and of a wait that is over.
LEMMA InstantLeaves ==
  ASSUME NEW lk \in LockType, QueueInv(lk), NEW i \in 1..Len(lk.queue)
  PROVE  LET t == lk.queue[i].tran
         IN  /\ lmgr_unlock(InstantOnce(lk, i), t).lock = Left(lk.queue, i)
             /\ lk.queue[i].count = 1 =>
                  lmgr_unlock(Instant(lk, i), t).lock = Left(lk.queue, i)
<1>1. PICK q \in Seq(LastingType) : q = lk.queue
  BY DEF LockType
<1>2. OneEach(q) /\ i \in 1..Len(q) /\ q[i] \in LastingType
  BY <1>1 DEF QueueInv
<1>3. ASSUME NEW r \in RequestType, r.tran = q[i].tran, r.class = LOCK_INSTANT, r.count = 1,
             NEW l, l.queue = [q EXCEPT ![i] = r]
      PROVE  lmgr_unlock(l, q[i].tran).lock = Left(q, i)
  <2>0. q \in Seq(RequestType)
    <3>1. LastingType \subseteq RequestType
      BY MarkedRequest
    <3> QED
      BY <3>1
  <2>1. PICK p : p = [q EXCEPT ![i] = r]
    OBVIOUS
  <2>2. p \in Seq(RequestType) /\ Len(p) = Len(q)
    BY <1>2, <2>0, <2>1
  <2>3. p[i] = r /\ \A j \in 1..Len(q) : j # i => p[j] = q[j]
    BY <1>2, <2>1
  <2>4. p[i].class <= LOCK_LONG /\ p[i].tran = q[i].tran /\ p[i].count = 1
    BY <1>3, <2>3 DEF LOCK_INSTANT, LOCK_LONG
  <2>5. l.queue = p
    BY <1>3, <2>1
  <2> QED
    BY <1>2, <2>2, <2>3, <2>4, <2>5, UnlockLeaves
<1>5. lmgr_unlock(InstantOnce(lk, i), q[i].tran).lock = Left(q, i)
  <2> DEFINE r == [q[i] EXCEPT !.class = LOCK_INSTANT, !.count = 1]
  <2>0. r \in RequestType
    BY <1>2, MarkedRequest
  <2>1. r.tran = q[i].tran /\ r.class = LOCK_INSTANT /\ r.count = 1
    BY <1>2 DEF LastingType
  <2>2. InstantOnce(lk, i).queue = [q EXCEPT ![i] = r]
    BY <1>1, <1>2 DEF InstantOnce, LockType
  <2> HIDE DEF r
  <2> QED
    BY <2>0, <2>1, <2>2, <1>3
<1>6. ASSUME q[i].count = 1
      PROVE  lmgr_unlock(Instant(lk, i), q[i].tran).lock = Left(q, i)
  <2> DEFINE r == [q[i] EXCEPT !.class = LOCK_INSTANT]
  <2>0. r \in RequestType
    BY <1>2, MarkedRequest
  <2>1. r.tran = q[i].tran /\ r.class = LOCK_INSTANT /\ r.count = 1
    BY <1>2, <1>6 DEF LastingType
  <2>2. Instant(lk, i).queue = [q EXCEPT ![i] = r]
    BY <1>1, <1>2 DEF Instant, LockType
  <2> HIDE DEF r
  <2> QED
    BY <2>0, <2>1, <2>2, <1>3
<1> QED
  BY <1>1, <1>5, <1>6

\* lmgr_unlock frees a long request that was taken once.
LEMMA UnlockLeavesAsIs ==
  ASSUME NEW lk \in LockType, QueueInv(lk), NEW i \in 1..Len(lk.queue),
         NEW t, lk.queue[i].tran = t,
         lk.queue[i].class <= LOCK_LONG, lk.queue[i].count = 1
  PROVE  lmgr_unlock(lk, t).lock = Left(lk.queue, i)
<1>1. PICK q \in Seq(LastingType) : q = lk.queue
  BY DEF LockType
<1>2. OneEach(q) /\ i \in 1..Len(q)
  BY <1>1 DEF QueueInv
<1>3. q \in Seq(RequestType)
  <2>1. LastingType \subseteq RequestType
    BY MarkedRequest
  <2> QED
    BY <2>1
<1>4. q[i].tran = t /\ q[i].class <= LOCK_LONG /\ q[i].count = 1
  BY <1>1
<1> QED
  BY <1>1, <1>2, <1>3, <1>4, UnlockLeaves

\* A denied newcomer: its request is queued and freed at once, and the walk
\* changes at most waiters that fit.
LEMMA DeniedLeaves ==
  ASSUME NEW lk \in LockType, QueueInv(lk), lk.queue # << >>,
         NEW t \in Tran, ~Has(lk.queue, t), NEW m \in RowMode,
         NEW l, l = lmgr_unlock([lk EXCEPT !.queue =
                      Append(lk.queue, Request(t, "denied", m, LOCK_INSTANT))], t).lock
  PROVE  /\ l \in LockType /\ QueueInv(l)
         /\ ~Has(l.queue, t) /\ OthersKept(lk.queue, l.queue, t)
<1>1. PICK q \in Seq(LastingType) : q = lk.queue
  BY DEF LockType
<1>2. Len(q) \in Nat /\ Len(q) # 0 /\ OneEach(q)
  BY <1>1 DEF QueueInv
<1>3. PICK g \in 0..Len(q) : GrantedFirst(q, g)
  BY <1>1 DEF QueueInv
<1> DEFINE r == Request(t, "denied", m, LOCK_INSTANT)
<1>4. PICK p : p = Append(q, r)
  OBVIOUS
<1>5. Len(p) = Len(q) + 1 /\ p[Len(q) + 1] = r /\ \A j \in 1..Len(q) : p[j] = q[j]
  BY <1>2, <1>4
<1>6. \A j \in 1..Len(q) : q[j].tran # t
  BY <1>1, HasAt
<1>7. r.tran = t /\ r.class = LOCK_INSTANT /\ r.count = 1
  BY DEF Request
<1> HIDE DEF r
<1>8. OneEach(p)
  <2>1. \A j \in 1..Len(q) : p[j].tran # t
    BY <1>5, <1>6
  <2>2. p[Len(q) + 1].tran = t
    BY <1>5, <1>7
  <2> QED
    BY <2>1, <2>2, <1>2, <1>5 DEF OneEach
<1>9. FirstOf(p, t) = Len(q) + 1
  <2>1. Len(q) + 1 \in 1..Len(p) /\ Len(p) \in Nat
    BY <1>2, <1>5
  <2> QED
    BY <2>1, <1>5, <1>7, <1>8, OnlyRequest
<1>10. l = Wake(q).lock
  <2> DEFINE k == [lk EXCEPT !.queue = p]
  <2>1. k.queue = p
    BY DEF LockType
  <2>2. l = lmgr_unlock(k, t).lock
    BY <1>1, <1>4 DEF r
  <2> HIDE DEF k
  <2>3. Len(q) + 1 # 0 /\ Len(p) # 1
    BY <1>2, <1>5
  <2>4. ~(p[Len(q) + 1].class > LOCK_LONG \/ p[Len(q) + 1].count > 1)
    BY <1>5, <1>7 DEF LOCK_INSTANT, LOCK_LONG
  <2>5. lmgr_unlock(k, t) = Wake(RemoveAt(p, Len(q) + 1))
    BY <1>9, <2>1, <2>3, <2>4 DEF lmgr_unlock
  <2>6. RemoveAt(p, Len(q) + 1) = q
    BY <1>4, RemoveAppended
  <2> QED
    BY <2>2, <2>5, <2>6
<1>11. /\ l \in LockType /\ QueueInv(l) /\ Len(l.queue) = Len(q)
       /\ \A j \in 1..Len(q) :
            l.queue[j] \in {q[j], [q[j] EXCEPT !.status = "granted"]}
  <2>1. q # << >>
    BY <1>1
  <2> QED
    BY <2>1, <1>2, <1>3, <1>10, WakeProperties
<1>12. l.queue \in Seq(LastingType) /\ OneEach(l.queue)
  BY <1>11 DEF LockType, QueueInv
<1>13. \A j \in 1..Len(q) : l.queue[j].tran = q[j].tran
  <2>1. \A j \in 1..Len(q) : q[j] \in LastingType
    OBVIOUS
  <2> QED
    BY <2>1, <1>11 DEF LastingType
<1>14. ~Has(l.queue, t)
  <2>1. PICK k \in Seq(LastingType) : k = l.queue
    BY <1>12
  <2>2. \A j \in 1..Len(k) : k[j].tran # t
    BY <2>1, <1>6, <1>11, <1>13
  <2>3. ~Has(k, t)
    BY <2>2, HasAt
  <2> QED
    BY <2>1, <2>3
<1>15. OthersKept(q, l.queue, t)
  <2>1. \A j \in 1..Len(l.queue) : \E k \in 1..Len(q) : l.queue[j].tran = q[k].tran
    BY <1>11, <1>13
  <2>2. \A k \in 1..Len(q) :
          \E j \in 1..Len(l.queue) : l.queue[j] \in {q[k], [q[k] EXCEPT !.status = "granted"]}
    BY <1>11
  <2> QED
    BY <1>2, <1>12, <2>1, <2>2, KeptByPlaces
<1> QED
  BY <1>1, <1>11, <1>14, <1>15

\* The walk of lmgr_unlock_class over the queue q: one request of t, and the
\* equation of the whole.
ClassStep(q, t, p, s) ==
  LET freed  == Len(q) - Len(s.lock.queue)
      marked == IF Cardinality({j \in 1..p : q[j].tran = t}) > freed
                THEN InstantOnce(s.lock, p - freed) ELSE s.lock
      u      == lmgr_unlock(marked, t)
  IN  [lock |-> u.lock, woken |-> s.woken \cup u.woken]

ClassWalk(lk, t, class, walk) ==
  [p \in 1..(Len(lk.queue) + 1) |->
     IF p > Len(lk.queue) THEN [lock |-> lk, woken |-> {}]
     ELSE IF lk.queue[p].tran # t \/ lk.queue[p].class > class THEN walk[p + 1]
     ELSE ClassStep(lk.queue, t, p, walk[p + 1])]

\* The equation, place by place.
WalksClass(q, t, class, base, walk) ==
  \A p \in 1..(Len(q) + 1) :
    walk[p] = IF p > Len(q) THEN base
              ELSE IF q[p].tran # t \/ q[p].class > class THEN walk[p + 1]
              ELSE ClassStep(q, t, p, walk[p + 1])

\* With a solution at hand, lmgr_unlock_class is the value of one at 1.
LEMMA ClassUnfolded ==
  ASSUME NEW lk, NEW t, NEW class, NEW base, base = [lock |-> lk, woken |-> {}],
         NEW S, NEW g \in [1..(Len(lk.queue) + 1) -> S],
         WalksClass(lk.queue, t, class, base, g)
  PROVE  \E walk : /\ WalksClass(lk.queue, t, class, base, walk)
                   /\ lmgr_unlock_class(lk, t, class) = walk[1]
<1>1. lmgr_unlock_class(lk, t, class)
        = (CHOOSE walk : walk = ClassWalk(lk, t, class, walk))[1]
  BY DEF lmgr_unlock_class, ClassWalk, ClassStep
<1>2. g = ClassWalk(lk, t, class, g)
  <2>1. ClassWalk(lk, t, class, g) = [p \in 1..(Len(lk.queue) + 1) |-> g[p]]
    BY DEF ClassWalk, WalksClass
  <2> QED
    BY <2>1
<1>3. PICK walk : /\ walk = (CHOOSE v : v = ClassWalk(lk, t, class, v))
                  /\ walk = ClassWalk(lk, t, class, walk)
  BY <1>2
<1>4. WalksClass(lk.queue, t, class, base, walk)
  <2>1. PICK w : w = ClassWalk(lk, t, class, walk)
    OBVIOUS
  <2>2. \A p \in 1..(Len(lk.queue) + 1) :
          w[p] = IF p > Len(lk.queue) THEN base
                 ELSE IF lk.queue[p].tran # t \/ lk.queue[p].class > class THEN walk[p + 1]
                 ELSE ClassStep(lk.queue, t, p, walk[p + 1])
    BY <2>1 DEF ClassWalk
  <2>3. w = walk
    BY <1>3, <2>1
  <2> QED
    BY <2>2, <2>3 DEF WalksClass
<1> QED
  BY <1>1, <1>3, <1>4

\* Requests that are passed over do not change the value.
LEMMA ClassWalkFrom ==
  ASSUME NEW q, Len(q) \in Nat, NEW t, NEW class, NEW base, NEW walk,
         WalksClass(q, t, class, base, walk),
         NEW i \in 1..(Len(q) + 1), NEW k \in 1..i,
         \A p \in k..(i - 1) : q[p].tran # t \/ q[p].class > class
  PROVE  walk[k] = walk[i]
<1> DEFINE Bad == {p \in k..i : walk[p] # walk[i]}
<1>1. ASSUME Bad # {}
      PROVE  FALSE
  <2>1. Bad \subseteq 0..(Len(q) + 1) /\ Len(q) + 1 \in Nat
    OBVIOUS
  <2>2. \E p \in Bad : \A o \in Bad : o <= p
    <3> HIDE DEF Bad
    <3> QED BY <1>1, <2>1, GreatestNat
  <2>3. PICK p \in Bad : \A o \in Bad : o <= p
    BY <2>2
  <2>4. p # i /\ p \in k..(i - 1) /\ p \in 1..(Len(q) + 1) /\ ~(p > Len(q))
    BY <2>3
  <2>5. walk[p + 1] = walk[i]
    BY <2>3, <2>4
  <2>6. walk[p] = walk[p + 1]
    BY <2>4 DEF WalksClass
  <2> QED
    BY <2>3, <2>5, <2>6
<1> QED
  BY <1>1

\* lmgr_unlock_class frees the request of the caller, or keeps it when its class
\* is longer.
LEMMA ClassLeaves ==
  ASSUME NEW lk \in LockType, QueueInv(lk), NEW t, NEW class,
         NEW l, l = lmgr_unlock_class(lk, t, class).lock
  PROVE  /\ \A i \in 1..Len(lk.queue) :
              lk.queue[i].tran = t /\ ~(lk.queue[i].class > class) => l = Left(lk.queue, i)
         /\ (\A i \in 1..Len(lk.queue) :
              lk.queue[i].tran = t => lk.queue[i].class > class) => l = lk
<1>1. PICK q \in Seq(LastingType) : q = lk.queue
  BY DEF LockType
<1>2. Len(q) \in Nat /\ OneEach(q)
  BY <1>1 DEF QueueInv
<1>3. PICK base : base = [lock |-> lk, woken |-> {}]
  OBVIOUS
<1>4. CASE \A i \in 1..Len(q) : q[i].tran = t => q[i].class > class
  <2>1. PICK g : g = [p \in 1..(Len(q) + 1) |-> base]
    OBVIOUS
  <2>2. WalksClass(q, t, class, base, g)
    BY <1>2, <1>4, <2>1 DEF WalksClass
  <2>3. PICK S : g \in [1..(Len(q) + 1) -> S]
    <3>1. g \in [1..(Len(q) + 1) -> {base}]
      BY <2>1
    <3> QED
      BY <3>1
  <2>4. PICK walk : /\ WalksClass(q, t, class, base, walk)
                    /\ lmgr_unlock_class(lk, t, class) = walk[1]
    BY <1>1, <1>3, <2>2, <2>3, ClassUnfolded
  <2>5. walk[Len(q) + 1] = base
    BY <1>2, <2>4 DEF WalksClass
  <2>6. walk[1] = walk[Len(q) + 1]
    <3>1. Len(q) + 1 \in 1..(Len(q) + 1) /\ 1 \in 1..(Len(q) + 1)
      BY <1>2
    <3>2. \A p \in 1..((Len(q) + 1) - 1) : q[p].tran # t \/ q[p].class > class
      BY <1>2, <1>4
    <3> QED
      BY <1>2, <3>1, <3>2, <2>4, ClassWalkFrom
  <2>7. l = lk
    BY <1>3, <2>4, <2>5, <2>6
  <2> QED
    BY <1>1, <1>4, <2>7
<1>5. ASSUME NEW i \in 1..Len(q), q[i].tran = t, ~(q[i].class > class)
      PROVE  l = Left(q, i)
  <2>1. \A p \in 1..Len(q) : p # i => q[p].tran # t
    BY <1>2, <1>5 DEF OneEach
  <2>2. PICK v : v = ClassStep(q, t, i, base)
    OBVIOUS
  <2>3. PICK g : g = [p \in 1..(Len(q) + 1) |-> IF p > i THEN base ELSE v]
    OBVIOUS
  <2>4. WalksClass(q, t, class, base, g)
    <3> SUFFICES ASSUME NEW p \in 1..(Len(q) + 1)
                 PROVE  g[p] = IF p > Len(q) THEN base
                               ELSE IF q[p].tran # t \/ q[p].class > class THEN g[p + 1]
                               ELSE ClassStep(q, t, p, g[p + 1])
      BY DEF WalksClass
    <3>1. CASE p > Len(q)
      BY <3>1, <1>2, <2>3
    <3>2. CASE p <= Len(q) /\ p # i
      <4>1. p + 1 \in 1..(Len(q) + 1) /\ (p + 1 > i <=> p > i)
        BY <1>2, <3>2
      <4>2. g[p + 1] = g[p]
        BY <2>3, <4>1
      <4>3. q[p].tran # t /\ ~(p > Len(q))
        BY <1>2, <2>1, <3>2
      <4> QED
        BY <4>2, <4>3
    <3>3. CASE p = i
      <4>1. g[p + 1] = base /\ g[p] = v
        BY <1>2, <2>3, <3>3
      <4>2. ~(p > Len(q)) /\ ~(q[p].tran # t \/ q[p].class > class)
        BY <1>2, <1>5, <3>3
      <4> QED
        BY <2>2, <4>1, <4>2, <3>3
    <3> QED
      BY <1>2, <3>1, <3>2, <3>3
  <2>5. PICK S : g \in [1..(Len(q) + 1) -> S]
    <3>1. g \in [1..(Len(q) + 1) -> {base, v}]
      BY <2>3
    <3> QED
      BY <3>1
  <2>6. PICK walk : /\ WalksClass(q, t, class, base, walk)
                    /\ lmgr_unlock_class(lk, t, class) = walk[1]
    BY <1>1, <1>3, <2>4, <2>5, ClassUnfolded
  <2>7. walk[Len(q) + 1] = base
    BY <1>2, <2>6 DEF WalksClass
  <2>8. walk[i + 1] = walk[Len(q) + 1]
    <3>1. \A p \in (i + 1)..((Len(q) + 1) - 1) : q[p].tran # t \/ q[p].class > class
      BY <1>2, <2>1
    <3>2. i + 1 \in 1..(Len(q) + 1) /\ Len(q) + 1 \in 1..(Len(q) + 1)
      BY <1>2
    <3> QED
      BY <1>2, <3>1, <3>2, <2>6, ClassWalkFrom
  <2>9. walk[i] = v
    <3>1. i \in 1..(Len(q) + 1) /\ ~(i > Len(q)) /\ ~(q[i].tran # t \/ q[i].class > class)
      BY <1>2, <1>5
    <3>2. walk[i] = ClassStep(q, t, i, walk[i + 1])
      BY <2>6, <3>1 DEF WalksClass
    <3> QED
      BY <2>2, <2>7, <2>8, <3>2
  <2>10. walk[1] = walk[i]
    <3>1. \A p \in 1..(i - 1) : q[p].tran # t \/ q[p].class > class
      BY <1>2, <2>1
    <3>2. i \in 1..(Len(q) + 1) /\ 1 \in 1..i
      BY <1>2
    <3> QED
      BY <1>2, <3>1, <3>2, <2>6, ClassWalkFrom
  <2>11. v.lock = lmgr_unlock(InstantOnce(lk, i), t).lock
    <3>1. {j \in 1..i : q[j].tran = t} = {i}
      BY <1>2, <1>5, <2>1
    <3>2. Cardinality({j \in 1..i : q[j].tran = t}) = 1
      BY <3>1, FS_Singleton
    <3>3. base.lock = lk /\ Len(q) - Len(base.lock.queue) = 0 /\ i - 0 = i
      BY <1>1, <1>2, <1>3
    <3>4. 1 > Len(q) - Len(base.lock.queue)
      BY <3>3
    <3>5. v.lock = lmgr_unlock(InstantOnce(base.lock, i - (Len(q) - Len(base.lock.queue))), t).lock
      BY <2>2, <3>2, <3>4 DEF ClassStep
    <3> QED
      BY <3>3, <3>5
  <2>12. l = v.lock
    BY <2>6, <2>9, <2>10
  <2> QED
    BY <1>1, <1>5, <2>11, <2>12, InstantLeaves
<1> QED
  BY <1>1, <1>4, <1>5
=============================================================================
