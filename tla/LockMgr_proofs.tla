--------------------------- MODULE LockMgr_proofs ---------------------------
(***************************************************************************)
(* Theorems about LockMgr without conversions (Conversions = FALSE): no    *)
(* client asks for a stronger mode than it holds, as in the runs           *)
(* LockMgr_rows and LockMgr_names, but for any number of transactions and  *)
(* names, queues of any length, and the three modes clients use.  The      *)
(* invariant and the lemmas about a single queue are in LockMgr_queues.    *)
(***************************************************************************)
EXTENDS LockMgr_queues, SequenceTheorems

(***************************************************************************)
(* Clients                                                                 *)
(***************************************************************************)

\* LeftProperties for a lock that has the invariant.
LEMMA Leaves ==
  ASSUME NEW lk \in LockType, QueueInv(lk), NEW i \in 1..Len(lk.queue),
         NEW t, lk.queue[i].tran = t, NEW l, l = Left(lk.queue, i)
  PROVE  /\ l \in LockType /\ QueueInv(l)
         /\ ~Has(l.queue, t) /\ OthersKept(lk.queue, l.queue, t)
<1>1. PICK q \in Seq(LastingType) : q = lk.queue
  BY DEF LockType
<1>2. PICK g \in 0..Len(q) : GrantedFirst(q, g)
  BY <1>1 DEF QueueInv
<1>3. OneEach(q) /\ i \in 1..Len(q) /\ q[i].tran = t /\ l = Left(q, i)
  BY <1>1 DEF QueueInv
<1> QED
  BY <1>1, <1>2, <1>3, LeftProperties

\* What is true of another client stays true when its request is kept.
LEMMA ClientKept ==
  ASSUME NEW q \in Seq(LastingType), NEW p, NEW t, OthersKept(q, p, t),
         NEW u \in Tran \ {t}, NEW n, NEW w, NEW rel, NEW c,
         ClientOK(q, u, n, w, rel, c)
  PROVE  ClientOK(p, u, n, w, rel, c)
<1>1. Has(p, u) <=> Has(q, u)
  BY DEF OthersKept
<1>2. CASE ~Has(q, u)
  <2>1. c = NoClaim /\ \A i \in 1..Len(NoClaim) : FALSE
    BY <1>2 DEF ClientOK, ClaimPart, NoClaim
  <2> QED
    BY <1>1, <1>2, <2>1 DEF ClientOK, WaitPart, ClaimPart
<1>3. CASE Has(q, u)
  <2>1. PICK o \in LastingType : o = Own(q, u)
    BY <1>3, HasAt
  <2>2. PICK r : r = Own(p, u)
    OBVIOUS
  <2>3. r \in {o, [o EXCEPT !.status = "granted"]}
    BY <1>3, <2>1, <2>2 DEF OthersKept
  <2>4. /\ r.mode = o.mode /\ r.class = o.class /\ r.count = o.count
        /\ r.status \in {o.status, "granted"}
    BY <2>3 DEF LastingType
  <2>5. WaitPart(p, u, n, w, rel, c)
    BY <1>1, <1>3, <2>1, <2>2, <2>4 DEF ClientOK, WaitPart
  <2>6. ClaimPart(p, u, n, w, c)
    BY <1>1, <1>3, <2>1, <2>2, <2>4 DEF ClientOK, ClaimPart
  <2> QED
    BY <2>5, <2>6 DEF ClientOK
<1> QED
  BY <1>2, <1>3

\* A name the client neither waited for nor waits for.
LEMMA ClientElsewhere ==
  ASSUME NEW q, NEW t, NEW n, NEW w, NEW rel, NEW c, ClientOK(q, t, n, w, rel, c),
         NEW v, NEW lat, w # n, v # n
  PROVE  ClientOK(q, t, n, v, lat, c)
BY DEF ClientOK, WaitPart, ClaimPart, Awaits

\* A call of t on the name n.
LEMMA CallStep ==
  ASSUME LockInv, Types', NEW t \in Tran, NEW n \in Name,
         NEW l \in LockType, QueueInv(l), OthersKept(lock[n].queue, l.queue, t),
         lock' = [lock EXCEPT ![n] = l],
         \A u \in Tran \ {t} : /\ ltWait'[u] = ltWait[u] /\ releasing'[u] = releasing[u]
                               /\ claim'[u] = claim[u],
         ClientOK(l.queue, t, n, ltWait'[t], releasing'[t], claim'[t][n]),
         \A m \in Name \ {n} :
           ClientOK(lock[m].queue, t, m, ltWait'[t], releasing'[t], claim'[t][m])
  PROVE  LockInv'
<1>1. lock \in [Name -> LockType]
  BY DEF LockInv, Types
<1>2. lock'[n] = l /\ \A m \in Name \ {n} : lock'[m] = lock[m]
  BY <1>1
<1>3. \A m \in Name : QueueInv(lock'[m])
  BY <1>2 DEF LockInv
<1>4. ASSUME NEW u \in Tran, NEW m \in Name
      PROVE  ClientOK(lock'[m].queue, u, m, ltWait'[u], releasing'[u], claim'[u][m])
  <2>1. CASE u = t /\ m = n
    BY <1>2, <2>1
  <2>2. CASE u = t /\ m # n
    BY <1>2, <2>2
  <2>3. CASE u # t
    <3>1. ClientOK(lock[m].queue, u, m, ltWait'[u], releasing'[u], claim'[u][m])
      BY <2>3 DEF LockInv, ClientInv
    <3>2. CASE m # n
      BY <1>2, <3>1, <3>2
    <3>3. CASE m = n
      <4>1. PICK q \in Seq(LastingType) : q = lock[n].queue
        BY <1>1 DEF LockType
      <4>2. ClientOK(l.queue, u, n, ltWait'[u], releasing'[u], claim'[u][n])
        BY <2>3, <3>1, <3>3, <4>1, ClientKept
      <4> QED
        BY <1>2, <3>3, <4>2
    <3> QED
      BY <3>2, <3>3
  <2> QED
    BY <2>1, <2>2, <2>3
<1>5. \A m \in Name : QueueInv(lock[m])'
  BY <1>3 DEF QueueInv, OneEach, GrantedFirst, HeaderInv
<1>6. \A u \in Tran, m \in Name : ClientInv(u, m)'
  BY <1>4 DEF ClientInv
<1> QED
  BY <1>5, <1>6 DEF LockInv

\* A step of t that leaves the locks and claims alone.
LEMMA ClientStep ==
  ASSUME LockInv, Types', NEW t \in Tran, UNCHANGED <<lock, claim>>,
         \A u \in Tran \ {t} : ltWait'[u] = ltWait[u] /\ releasing'[u] = releasing[u],
         \A m \in Name :
           ClientOK(lock[m].queue, t, m, ltWait'[t], releasing'[t], claim[t][m])
  PROVE  LockInv'
<1>1. \A m \in Name : QueueInv(lock[m])'
  BY DEF LockInv
<1>2. \A u \in Tran, m \in Name : ClientInv(u, m)'
  BY DEF LockInv, ClientInv
<1> QED
  BY <1>1, <1>2 DEF LockInv

(***************************************************************************)
(* Steps                                                                   *)
(***************************************************************************)

\* What the invariant says of one name.
LEMMA LockAt ==
  ASSUME LockInv, NEW n \in Name
  PROVE  /\ lock[n] \in LockType /\ QueueInv(lock[n])
         /\ lock[n].queue \in Seq(LastingType) /\ Len(lock[n].queue) \in Nat
         /\ OneEach(lock[n].queue)
<1>1. lock[n] \in LockType
  BY DEF LockInv, Types
<1>2. QueueInv(lock[n]) /\ OneEach(lock[n].queue)
  BY DEF LockInv, QueueInv
<1>3. lock[n].queue \in Seq(LastingType) /\ Len(lock[n].queue) \in Nat
  BY <1>1 DEF LockType
<1> QED
  BY <1>1, <1>2, <1>3

\* What the invariant says of one transaction and one name.
LEMMA StateAt ==
  ASSUME LockInv, NEW t \in Tran, NEW n \in Name
  PROVE  /\ lock[n] \in LockType /\ QueueInv(lock[n])
         /\ lock[n].queue \in Seq(LastingType) /\ Len(lock[n].queue) \in Nat
         /\ OneEach(lock[n].queue)
         /\ WaitPart(lock[n].queue, t, n, ltWait[t], releasing[t], claim[t][n])
         /\ ClaimPart(lock[n].queue, t, n, ltWait[t], claim[t][n])
         /\ claim[t][n] \in ClaimType
<1>1. claim[t][n] \in ClaimType
  BY DEF LockInv, Types
<1>2. /\ WaitPart(lock[n].queue, t, n, ltWait[t], releasing[t], claim[t][n])
      /\ ClaimPart(lock[n].queue, t, n, ltWait[t], claim[t][n])
  BY DEF LockInv, ClientInv, ClientOK
<1> QED
  BY <1>1, <1>2, LockAt

\* The request of t: the first and the last that is found.
LEMMA RequestAt ==
  ASSUME LockInv, NEW t \in Tran, NEW n \in Name, Has(lock[n].queue, t)
  PROVE  /\ FirstOf(lock[n].queue, t) \in 1..Len(lock[n].queue)
         /\ LastOf(lock[n].queue, t) = FirstOf(lock[n].queue, t)
         /\ Own(lock[n].queue, t) = lock[n].queue[FirstOf(lock[n].queue, t)]
         /\ Own(lock[n].queue, t) \in LastingType
         /\ Own(lock[n].queue, t).tran = t
<1>1. PICK q \in Seq(LastingType) : q = lock[n].queue
  BY StateAt
<1>2. Len(q) \in Nat /\ OneEach(q)
  BY <1>1, StateAt
<1>3. /\ FirstOf(q, t) \in 1..Len(q) /\ Own(q, t) \in LastingType
      /\ Own(q, t).tran = t /\ Own(q, t) = q[FirstOf(q, t)]
  BY <1>1, HasAt DEF Own
<1>4. LastOf(q, t) = FirstOf(q, t)
  BY <1>2, <1>3, OnlyRequest
<1> QED
  BY <1>1, <1>3, <1>4

\* The other names of a client that did not wait for them, and does not now.
LEMMA OtherNames ==
  ASSUME LockInv, NEW t \in Tran, NEW n \in Name, ltWait[t] \in {n, None},
         ltWait'[t] \in {n, None},
         \A m \in Name \ {n} : claim'[t][m] = claim[t][m]
  PROVE  \A m \in Name \ {n} :
           ClientOK(lock[m].queue, t, m, ltWait'[t], releasing'[t], claim'[t][m])
<1> SUFFICES ASSUME NEW m \in Name \ {n}
             PROVE  ClientOK(lock[m].queue, t, m, ltWait'[t], releasing'[t], claim'[t][m])
  OBVIOUS
<1>1. ClientOK(lock[m].queue, t, m, ltWait[t], releasing[t], claim[t][m])
  BY DEF LockInv, ClientInv
<1>2. ltWait[t] # m /\ ltWait'[t] # m
  BY NoneAssumption
<1>3. ClientOK(lock[m].queue, t, m, ltWait'[t], releasing'[t], claim[t][m])
  BY <1>1, <1>2, ClientElsewhere
<1> QED
  BY <1>3

\* Wakeups and failures are booleans.
LEMMA FlagsTyped ==
  ASSUME Types
  PROVE  /\ \A S : SendWakeups(S) => mes' \in [Tran -> BOOLEAN]
         /\ \A t \in Tran : Fail(t) => failed' \in [Tran -> BOOLEAN]
<1>1. ASSUME NEW S, SendWakeups(S)
      PROVE  mes' \in [Tran -> BOOLEAN]
  BY <1>1 DEF SendWakeups
<1>2. ASSUME NEW t \in Tran, Fail(t)
      PROVE  failed' \in [Tran -> BOOLEAN]
  BY <1>2 DEF Fail, Types
<1> QED
  BY <1>1, <1>2

\* Nothing claimed.
LEMMA NoClaimTyped == NoClaim \in ClaimType
BY DEF NoClaim, ClaimType

\* One more LOCK_OK in a history, and one less.
LEMMA ToldMore ==
  ASSUME NEW k \in ClaimType, NEW m \in RowMode, NEW c \in {LOCK_LONG, LOCK_VERY_LONG},
         NEW d, d = Append(k, Told(m, c))
  PROVE  /\ d \in ClaimType /\ d # NoClaim /\ Len(d) = Len(k) + 1 /\ Len(k) \in Nat
         /\ \A i \in 1..Len(k) : d[i] = k[i]
         /\ d[Len(d)].mode = m /\ d[Len(d)].class = c
<1>1. PICK e \in ToldType : e = Told(m, c)
  BY DEF Told, ToldType
<1>2. e.mode = m /\ e.class = c
  BY <1>1 DEF Told
<1>3. d = Append(k, e)
  BY <1>1
<1>4. k \in Seq(ToldType)
  BY DEF ClaimType
<1>5. /\ d \in Seq(ToldType) /\ Len(d) = Len(k) + 1 /\ Len(k) \in Nat
      /\ d[Len(d)] = e /\ \A i \in 1..Len(k) : d[i] = k[i]
  BY <1>3, <1>4
<1>6. d # NoClaim
  BY <1>5 DEF NoClaim
<1> QED
  BY <1>1, <1>2, <1>3, <1>5, <1>6 DEF ClaimType

LEMMA ToldLess ==
  ASSUME NEW k \in ClaimType, k # NoClaim
  PROVE  /\ Front(k) \in ClaimType /\ Len(Front(k)) = Len(k) - 1
         /\ Len(k) \in Nat /\ Len(k) > 0
         /\ \A i \in 1..Len(Front(k)) : i \in 1..Len(k) /\ Front(k)[i] = k[i]
         /\ Len(k) = 1 => Front(k) = NoClaim
<1>1. k \in Seq(ToldType) /\ k # << >>
  BY DEF ClaimType, NoClaim
<1>2. Len(k) \in Nat /\ Len(k) > 0
  BY <1>1
<1>3. PICK d : d = SubSeq(k, 1, Len(k) - 1)
  OBVIOUS
<1>4. /\ d \in Seq(ToldType) /\ Len(d) = Len(k) - 1
      /\ \A i \in 1..Len(d) : i \in 1..Len(k) /\ d[i] = k[i]
  <2>1. PICK h \in Nat : h = Len(k) - 1 /\ h + 1 = Len(k)
    BY <1>2
  <2>2. \A i \in 1..h : i \in 1..Len(k) /\ k[i] \in ToldType
    BY <1>1, <2>1
  <2>3. /\ d \in Seq(ToldType) /\ Len(d) = IF 1 <= h THEN h - 1 + 1 ELSE 0
        /\ \A i \in 1..(h - 1 + 1) : d[i] = k[1 + i - 1]
    BY <1>3, <2>1, <2>2, SubSeqProperties
  <2>4. Len(d) = h /\ \A i \in 1..h : i \in 1..(h - 1 + 1) /\ 1 + i - 1 = i
    BY <2>1, <2>3
  <2> QED
    BY <2>1, <2>2, <2>3, <2>4
<1>5. Len(k) = 1 => d = << >>
  BY <1>4
<1>6. Front(k) = d
  BY <1>3 DEF Front
<1> QED
  BY <1>2, <1>4, <1>5, <1>6 DEF ClaimType, NoClaim

\* The history after a LOCK_OK.
LEMMA Acknowledged ==
  ASSUME LockInv, NEW t \in Tran, NEW n \in Name, NEW m \in RowMode,
         NEW c \in {LOCK_LONG, LOCK_VERY_LONG}, Acknowledge(t, n, m, c)
  PROVE  /\ \A u \in Tran \ {t} : claim'[u] = claim[u]
         /\ \A k \in Name \ {n} : claim'[t][k] = claim[t][k]
         /\ claim'[t][n] = Append(claim[t][n], Told(m, c))
         /\ claim' \in [Tran -> [Name -> ClaimType]]
<1>1. claim \in [Tran -> [Name -> ClaimType]]
  BY DEF LockInv, Types
<1>2. PICK k \in ClaimType : k = claim[t][n]
  BY <1>1
<1>3. PICK d : d = Append(k, Told(m, c))
  OBVIOUS
<1>4. d \in ClaimType
  BY <1>3, ToldMore
<1>5. claim' = [claim EXCEPT ![t][n] = d]
  BY <1>2, <1>3 DEF Acknowledge
<1> QED
  BY <1>1, <1>2, <1>3, <1>4, <1>5

\* The only LOCK_OK of a history.
LEMMA ToldOnce ==
  ASSUME NEW m \in RowMode, NEW c \in {LOCK_LONG, LOCK_VERY_LONG}, NEW d,
         d = Append(NoClaim, Told(m, c))
  PROVE  /\ d # NoClaim /\ Len(d) = 1
         /\ \A i \in 1..Len(d) : d[i].mode = m /\ d[i].class = c /\ d[i].mode # LOCK_FREE
<1>1. PICK e : e = Told(m, c)
  OBVIOUS
<1>2. e.mode = m /\ e.class = c /\ m # LOCK_FREE
  BY <1>1 DEF Told, RowMode, LOCK_FREE, LOCK_S, LOCK_U, LOCK_X
<1>3. d = <<e>>
  BY <1>1 DEF NoClaim
<1>4. Len(d) = 1 /\ d[1] = e
  BY <1>3
<1>5. d # NoClaim
  BY <1>4 DEF NoClaim
<1> QED
  BY <1>2, <1>4, <1>5

\* What is left of a history after an unlockall.
LEMMA NothingLeft ==
  ASSUME NEW k \in ClaimType, NEW class, \A i \in 1..Len(k) : k[i].class <= class
  PROVE  Remaining(k, class) = NoClaim
<1>1. DOMAIN k = 1..Len(k)
  BY DEF ClaimType
<1> QED
  BY <1>1 DEF Remaining

LEMMA LeftTyped ==
  ASSUME NEW k \in ClaimType, NEW class
  PROVE  /\ Remaining(k, class) \in ClaimType
         /\ \/ Remaining(k, class) = NoClaim
            \/ /\ Len(Remaining(k, class)) = Len(k) /\ k # NoClaim
               /\ \A i \in 1..Len(k) : Remaining(k, class)[i] \in {k[i], Ended}
<1>1. DOMAIN k = 1..Len(k) /\ Len(k) \in Nat /\ \A i \in 1..Len(k) : k[i] \in ToldType
  BY DEF ClaimType
<1>2. CASE \A i \in 1..Len(k) : k[i].class <= class
  BY <1>2, NothingLeft, NoClaimTyped
<1>3. CASE ~(\A i \in 1..Len(k) : k[i].class <= class)
  <2>1. PICK d : d = [i \in 1..Len(k) |-> IF k[i].class <= class THEN Ended ELSE k[i]]
    OBVIOUS
  <2>2. Remaining(k, class) = d
    BY <1>1, <1>3, <2>1 DEF Remaining
  <2>3. Ended \in ToldType
    BY DEF Ended, ToldType
  <2>4. d \in [1..Len(k) -> ToldType]
    BY <1>1, <2>1, <2>3
  <2>5. d \in Seq(ToldType) /\ Len(d) = Len(k)
    BY <1>1, <2>4
  <2>6. \A i \in 1..Len(k) : d[i] \in {k[i], Ended}
    BY <2>1
  <2>7. k # NoClaim
    BY <1>3 DEF NoClaim
  <2> QED
    BY <2>2, <2>5, <2>6, <2>7 DEF ClaimType
<1> QED
  BY <1>2, <1>3

\* What covers a history covers what is left of it.
LEMMA LeftCovered ==
  ASSUME NEW k \in ClaimType, NEW class, NEW o \in LastingType,
         k # NoClaim => o.status = "granted" /\ Len(k) <= o.count,
         \A i \in 1..Len(k) : k[i].mode <= o.mode /\ k[i].class <= o.class
  PROVE  LET d == Remaining(k, class)
         IN  /\ d # NoClaim => o.status = "granted" /\ Len(d) <= o.count
             /\ \A i \in 1..Len(d) : d[i].mode <= o.mode /\ d[i].class <= o.class
<1>1. PICK d \in ClaimType : d = Remaining(k, class)
  BY LeftTyped
<1>2. \/ d = NoClaim
      \/ Len(d) = Len(k) /\ k # NoClaim /\ \A i \in 1..Len(k) : d[i] \in {k[i], Ended}
  BY <1>1, LeftTyped
<1>3. Len(NoClaim) = 0
  BY DEF NoClaim
<1>4. Ended.mode <= o.mode /\ Ended.class <= o.class
  <2>1. o.mode \in RowMode /\ o.class \in {LOCK_LONG, LOCK_VERY_LONG}
    BY LastingFields
  <2> QED
    BY <2>1 DEF Ended, RowMode, LOCK_FREE, LOCK_S, LOCK_U, LOCK_X,
                LOCK_INSTANT, LOCK_LONG, LOCK_VERY_LONG
<1> QED
  BY <1>1, <1>2, <1>3, <1>4

\* The requests clients make are lasting ones.
LEMMA RequestTyped ==
  ASSUME NEW t \in Tran, NEW m \in Modes, NEW c \in Classes, NEW s \in {"granted", "waiting"}
  PROVE  /\ m \in RowMode /\ c \in {LOCK_LONG, LOCK_VERY_LONG}
         /\ Request(t, s, m, c) \in LastingType
         /\ Request(t, s, m, c).tran = t /\ Request(t, s, m, c).status = s
         /\ Request(t, s, m, c).mode = m /\ Request(t, s, m, c).class = c
         /\ Request(t, s, m, c).count = 1
<1>1. m \in RowMode /\ c \in {LOCK_LONG, LOCK_VERY_LONG}
  BY ModesAssumption, ClassesAssumption DEF RowMode
<1>2. 1 \in 0..MaxCount
  BY BoundsAssumption
<1> QED
  BY <1>1, <1>2 DEF Request, LastingType

\* The invariant holds of an empty lock table.
LEMMA InitInv == Init => LockInv
<1> SUFFICES ASSUME Init
             PROVE  LockInv
  OBVIOUS
<1>1. NoClaim \in ClaimType /\ Len(NoClaim) = 0
  BY NoClaimTyped DEF NoClaim
<1>2. Types
  <2>1. lock \in [Name -> LockType]
    BY FreeLockInv DEF Init
  <2>2. claim \in [Tran -> [Name -> ClaimType]]
    BY <1>1 DEF Init
  <2>3. releasing \in [Tran -> ReleaseType]
    BY DEF Init, ReleaseType
  <2> QED
    BY <2>1, <2>2, <2>3 DEF Init, Types
<1>3. \A n \in Name : QueueInv(lock[n])
  BY FreeLockInv DEF Init
<1>4. ASSUME NEW t \in Tran, NEW n \in Name
      PROVE  ClientInv(t, n)
  <2>1. ~Has(lock[n].queue, t)
    BY FreeLockInv DEF Init
  <2>2. ltWait[t] # n /\ claim[t][n] = NoClaim
    BY NoneAssumption DEF Init
  <2> QED
    BY <1>1, <2>1, <2>2 DEF ClientInv, ClientOK, WaitPart, ClaimPart, Awaits
<1> QED
  BY <1>2, <1>3, <1>4 DEF LockInv

\* A first lock on a free name, and one that joins the group.
LEMMA StepGranted ==
  ASSUME LockInv, NEW t \in Tran, Running(t), NEW n \in Name, NEW m \in Modes, NEW c \in Classes,
         LockFree(t, n, m, c) \/ LockNew(t, n, m, c)
  PROVE  LockInv'
<1>1. /\ m \in RowMode /\ c \in {LOCK_LONG, LOCK_VERY_LONG}
  BY RequestTyped
<1>2. PICK r \in LastingType : /\ r = Request(t, "granted", m, c) /\ r.tran = t
                               /\ r.status = "granted" /\ r.mode = m /\ r.class = c
                               /\ r.count = 1
  BY RequestTyped
<1>3. PICK lk \in LockType : lk = lock[n]
  BY StateAt
<1>4. QueueInv(lk) /\ lk.queue \in Seq(LastingType)
  BY <1>3, StateAt
<1>5. PICK l : l = [lk EXCEPT !.queue = Append(lk.queue, r), !.granted = lock_max(m, lk.granted)]
  OBVIOUS
<1>6. ~Has(lk.queue, t) /\ ~lk.waiting /\ lock_compat(m, lk.granted)
      /\ lock' = [lock EXCEPT ![n] = l]
  <2>1. CASE LockFree(t, n, m, c)
    <3>1. lk.queue = << >>
      BY <1>3, <2>1 DEF LockFree
    <3>2. ~Has(lk.queue, t)
      <4>1. \A i \in 1..Len(lk.queue) : FALSE
        BY <3>1
      <4> QED
        BY <4>1, <1>4, HasAt
    <3>3. lk.granted = LOCK_FREE /\ ~lk.waiting
      <4>1. PICK g \in 0..Len(lk.queue) : HeaderInv(lk, g)
        BY <1>4 DEF QueueInv
      <4>2. g = 0 /\ Len(lk.queue) = 0
        BY <4>1, <3>1
      <4>3. 1..g = {}
        BY <4>2
      <4>4. lk.granted = LOCK_FREE
        BY <4>1, <4>3 DEF HeaderInv, GroupMode
      <4>5. ~(g < Len(lk.queue))
        BY <4>2
      <4> QED
        BY <4>1, <4>4, <4>5 DEF HeaderInv
    <3>4. lock_compat(m, lk.granted) /\ lock_max(m, lk.granted) = m
      <4>1. lock_max(m, LOCK_FREE) = IF m <= LOCK_FREE THEN LOCK_FREE ELSE m
        BY <1>1, ModesAreAChain
      <4>2. lock_max(m, LOCK_FREE) = m
        BY <1>1, <4>1 DEF RowMode, LOCK_FREE, LOCK_S, LOCK_U, LOCK_X
      <4> QED
        BY <3>3, <4>2, <1>1, RowCompat
    <3>5. l = [queue |-> <<r>>, granted |-> m, waiting |-> FALSE]
      <4>1. Append(lk.queue, r) = <<r>>
        BY <3>1
      <4>2. lk.waiting = FALSE
        BY <3>3 DEF LockType
      <4>3. l = [queue |-> Append(lk.queue, r), granted |-> m, waiting |-> lk.waiting]
        BY <1>5, <3>4 DEF LockType
      <4> QED
        BY <4>1, <4>2, <4>3
    <3> QED
      BY <1>2, <2>1, <3>2, <3>3, <3>4, <3>5 DEF LockFree, SetLock
  <2>2. CASE LockNew(t, n, m, c)
    BY <1>2, <1>3, <1>5, <2>2 DEF LockNew, IsNew, CanJoin, SetLock, Has
  <2> QED
    BY <2>1, <2>2
<1>7. /\ l \in LockType /\ QueueInv(l) /\ OthersKept(lk.queue, l.queue, t)
      /\ Has(l.queue, t) /\ Own(l.queue, t) = r
  <2>1. JoinsAs(lk, r, l)
    BY <1>2, <1>5, <1>6 DEF JoinsAs
  <2>2. r.tran = t /\ ~Has(lk.queue, t) /\ QueueInv(lk)
    BY <1>2, <1>4, <1>6
  <2> QED
    BY <2>1, <2>2, Joined
<1>8. Acknowledge(t, n, m, c) /\ UNCHANGED <<ltWait, asleep, mes, releasing, failed>>
  BY DEF LockFree, LockNew
<1>9. claim[t][n] = NoClaim
  BY <1>3, <1>6, StateAt DEF ClaimPart
<1>10. /\ \A u \in Tran \ {t} : claim'[u] = claim[u]
       /\ \A k \in Name \ {n} : claim'[t][k] = claim[t][k]
       /\ claim'[t][n] = Append(NoClaim, Told(m, c))
       /\ claim' \in [Tran -> [Name -> ClaimType]]
  BY <1>1, <1>8, <1>9, Acknowledged
<1>11. Types'
  <2>1. lock' \in [Name -> LockType]
    BY <1>6, <1>7 DEF LockInv, Types
  <2> QED
    BY <1>8, <1>10, <2>1 DEF LockInv, Types
<1>12. ltWait[t] = None
  BY DEF Running
<1>13. ClientOK(l.queue, t, n, ltWait'[t], releasing'[t], claim'[t][n])
  <2>1. ltWait'[t] # n
    BY <1>8, <1>12, NoneAssumption
  <2>2. m <= m /\ c <= c
    BY <1>1 DEF RowMode, LOCK_FREE, LOCK_S, LOCK_U, LOCK_X, LOCK_LONG, LOCK_VERY_LONG
  <2>3. WaitPart(l.queue, t, n, ltWait'[t], releasing'[t], claim'[t][n])
    BY <1>2, <1>7, <2>1 DEF WaitPart, Awaits
  <2>4. PICK d : d = claim'[t][n]
    OBVIOUS
  <2>5. /\ d # NoClaim /\ Len(d) = 1
        /\ \A i \in 1..Len(d) : d[i].mode = m /\ d[i].class = c /\ d[i].mode # LOCK_FREE
    BY <1>1, <1>10, <2>4, ToldOnce
  <2>6. ClaimPart(l.queue, t, n, ltWait'[t], d)
    BY <1>2, <1>7, <2>1, <2>2, <2>5 DEF ClaimPart
  <2> QED
    BY <2>3, <2>4, <2>6 DEF ClientOK
<1>14. \A k \in Name \ {n} :
         ClientOK(lock[k].queue, t, k, ltWait'[t], releasing'[t], claim'[t][k])
  <2>1. ltWait'[t] = None
    BY <1>8, <1>12
  <2> QED
    BY <1>10, <1>12, <2>1, OtherNames
<1>15. \A u \in Tran \ {t} : /\ ltWait'[u] = ltWait[u] /\ releasing'[u] = releasing[u]
                             /\ claim'[u] = claim[u]
  BY <1>8, <1>10
<1> QED
  BY <1>3, <1>6, <1>7, <1>11, <1>13, <1>14, <1>15, CallStep

\* A first lock that has to wait.
LEMMA StepWait ==
  ASSUME LockInv, NEW t \in Tran, Running(t), NEW n \in Name, NEW m \in Modes, NEW c \in Classes,
         LockNewWait(t, n, m, c)
  PROVE  LockInv'
<1>1. PICK r \in LastingType : /\ r = Request(t, "waiting", m, c) /\ r.tran = t
                               /\ r.status = "waiting" /\ r.mode = m /\ r.class = c
                               /\ r.count = 1
  BY RequestTyped
<1>2. PICK lk \in LockType : lk = lock[n]
  BY StateAt
<1>3. QueueInv(lk)
  BY <1>2, StateAt
<1>4. PICK l : l = [lk EXCEPT !.queue = Append(lk.queue, r), !.waiting = TRUE]
  OBVIOUS
<1>5. /\ ~Has(lk.queue, t) /\ lk.queue # << >>
      /\ ~(~lk.waiting /\ lock_compat(m, lk.granted))
      /\ lock' = [lock EXCEPT ![n] = l]
  BY <1>1, <1>2, <1>4 DEF LockNewWait, IsNew, CanJoin, SetLock, Has
<1>6. /\ l \in LockType /\ QueueInv(l) /\ OthersKept(lk.queue, l.queue, t)
      /\ Has(l.queue, t) /\ Own(l.queue, t) = r
  <2>1. JoinsAs(lk, r, l)
    BY <1>1, <1>4, <1>5 DEF JoinsAs
  <2> QED
    BY <2>1, <1>1, <1>3, <1>5, Joined
<1>7. /\ ltWait' = [ltWait EXCEPT ![t] = n] /\ asleep' = [asleep EXCEPT ![t] = TRUE]
      /\ UNCHANGED <<mes, releasing, failed, claim>>
  BY DEF LockNewWait, StartLockWait
<1>8. Types'
  <2>1. lock' \in [Name -> LockType]
    BY <1>5, <1>6 DEF LockInv, Types
  <2> QED
    BY <1>7, <2>1 DEF LockInv, Types
<1>9. claim[t][n] = NoClaim
  BY <1>2, <1>5, StateAt DEF ClaimPart
<1>10. ltWait[t] = None /\ releasing[t].names = {}
  BY DEF Running
<1>11. ltWait'[t] = n /\ \A u \in Tran \ {t} : ltWait'[u] = ltWait[u]
  BY <1>7 DEF LockInv, Types
<1>12. ClientOK(l.queue, t, n, ltWait'[t], releasing'[t], claim'[t][n])
  <2>1. Len(NoClaim) = 0
    BY DEF NoClaim
  <2>2. releasing'[t].names = {} /\ claim'[t][n] = NoClaim
    BY <1>7, <1>9, <1>10
  <2>3. WaitPart(l.queue, t, n, ltWait'[t], releasing'[t], claim'[t][n])
    BY <1>1, <1>6, <1>11, <2>2 DEF WaitPart, Awaits
  <2>4. ClaimPart(l.queue, t, n, ltWait'[t], claim'[t][n])
    BY <1>11, <2>1, <2>2 DEF ClaimPart
  <2> QED
    BY <2>3, <2>4 DEF ClientOK
<1>13. \A k \in Name \ {n} :
         ClientOK(lock[k].queue, t, k, ltWait'[t], releasing'[t], claim'[t][k])
  BY <1>7, <1>10, <1>11, OtherNames
<1>14. \A u \in Tran \ {t} : /\ ltWait'[u] = ltWait[u] /\ releasing'[u] = releasing[u]
                             /\ claim'[u] = claim[u]
  BY <1>7, <1>11
<1> QED
  BY <1>2, <1>5, <1>6, <1>8, <1>12, <1>13, <1>14, CallStep

\* A call after which t has no request for n and does not wait.
LEMMA StepReleased ==
  ASSUME LockInv, Types', NEW t \in Tran, NEW n \in Name, ltWait[t] \in {n, None},
         NEW l \in LockType, QueueInv(l), ~Has(l.queue, t),
         OthersKept(lock[n].queue, l.queue, t), lock' = [lock EXCEPT ![n] = l],
         ltWait' = [ltWait EXCEPT ![t] = None], UNCHANGED releasing,
         claim' = claim \/ claim' = [claim EXCEPT ![t][n] = NoClaim],
         claim'[t][n] = NoClaim
  PROVE  LockInv'
<1>1. /\ ltWait'[t] = None
      /\ \A u \in Tran \ {t} : ltWait'[u] = ltWait[u] /\ claim'[u] = claim[u]
      /\ \A k \in Name \ {n} : claim'[t][k] = claim[t][k]
  BY DEF LockInv, Types
<1>2. ClientOK(l.queue, t, n, ltWait'[t], releasing'[t], claim'[t][n])
  <2>1. Len(NoClaim) = 0 /\ None # n
    BY NoneAssumption DEF NoClaim
  <2> QED
    BY <1>1, <2>1 DEF ClientOK, WaitPart, ClaimPart, Awaits
<1>3. \A k \in Name \ {n} :
        ClientOK(lock[k].queue, t, k, ltWait'[t], releasing'[t], claim'[t][k])
  BY <1>1, OtherNames
<1> QED
  BY <1>1, <1>2, <1>3, CallStep

\* A first lock that is denied.
LEMMA StepDenied ==
  ASSUME LockInv, NEW t \in Tran, Running(t), NEW n \in Name, NEW m \in Modes, NEW c \in Classes,
         LockNewDenied(t, n, m, c)
  PROVE  LockInv'
<1>1. m \in RowMode
  BY RequestTyped
<1>2. PICK lk \in LockType : lk = lock[n]
  BY StateAt
<1>3. QueueInv(lk)
  BY <1>2, StateAt
<1>4. PICK u : u = lmgr_unlock([lk EXCEPT !.queue =
                      Append(lk.queue, Request(t, "denied", m, LOCK_INSTANT))], t)
  OBVIOUS
<1>5. /\ ~Has(lk.queue, t) /\ lk.queue # << >>
      /\ lock' = [lock EXCEPT ![n] = u.lock] /\ SendWakeups(u.woken) /\ Fail(t)
      /\ UNCHANGED <<ltWait, asleep, releasing, claim>>
  BY <1>2, <1>4 DEF LockNewDenied, IsNew, Deny, SetLock, Has
<1>6. PICK l : l = u.lock
  OBVIOUS
<1>7. /\ l \in LockType /\ QueueInv(l)
      /\ ~Has(l.queue, t) /\ OthersKept(lk.queue, l.queue, t)
  BY <1>1, <1>3, <1>4, <1>5, <1>6, DeniedLeaves
<1>8. Types'
  <2>1. lock' \in [Name -> LockType]
    BY <1>5, <1>6, <1>7 DEF LockInv, Types
  <2>2. mes' \in [Tran -> BOOLEAN] /\ failed' \in [Tran -> BOOLEAN]
    BY <1>5, FlagsTyped DEF LockInv
  <2> QED
    BY <1>5, <2>1, <2>2 DEF LockInv, Types
<1>9. claim[t][n] = NoClaim
  BY <1>2, <1>5, StateAt DEF ClaimPart
<1>10. ltWait[t] = None /\ ltWait' = [ltWait EXCEPT ![t] = None]
  BY <1>5 DEF Running, LockInv, Types
<1>11. UNCHANGED releasing /\ claim' = claim /\ claim'[t][n] = NoClaim
  BY <1>5, <1>9
<1> QED
  BY <1>2, <1>5, <1>6, <1>7, <1>8, <1>10, <1>11, StepReleased

\* Another lock on a name t has a request for.
LEMMA StepAgain ==
  ASSUME LockInv, NEW t \in Tran, Running(t), NEW n \in Name, NEW m \in Modes, NEW c \in Classes,
         LockAgain(t, n, m, c)
  PROVE  LockInv'
<1>1. m \in RowMode /\ c \in {LOCK_LONG, LOCK_VERY_LONG}
  BY RequestTyped
<1>2. PICK lk \in LockType : lk = lock[n]
  BY StateAt
<1>3. QueueInv(lk)
  BY <1>2, StateAt
<1>4. Has(lk.queue, t)
  BY <1>2 DEF LockAgain, Has
<1>5. PICK i \in 1..Len(lk.queue) :
        /\ i = FirstOf(lk.queue, t) /\ Own(lk.queue, t) = lk.queue[i]
        /\ lk.queue[i] \in LastingType /\ lk.queue[i].tran = t
  BY <1>2, <1>4, RequestAt
<1>6. PICK o \in LastingType : o = lk.queue[i]
  BY <1>5
<1>7. /\ o.tran = t /\ o.status \in {"granted", "waiting"} /\ o.mode \in RowMode
      /\ o.class \in {LOCK_LONG, LOCK_VERY_LONG} /\ o.count \in 0..MaxCount
  BY <1>5, <1>6, LastingFields
<1>8. PICK k \in ClaimType : k = claim[t][n]
  BY StateAt
<1>9. Len(k) \in Nat
  BY DEF ClaimType
<1>10. ltWait[t] = None /\ n # None
  BY NoneAssumption DEF Running
<1>11. o.status = "granted"
  BY <1>2, <1>4, <1>5, <1>6, <1>7, <1>10, StateAt DEF WaitPart
<1>12. /\ Len(k) <= o.count
       /\ \A j \in 1..Len(k) : k[j].mode <= o.mode /\ k[j].class <= o.class
       /\ o.class # LOCK_VERY_LONG =>
            /\ Len(k) = o.count /\ \A j \in 1..Len(k) : k[j].mode # LOCK_FREE
  <2>1. /\ k # NoClaim => Len(k) <= o.count
        /\ \A j \in 1..Len(k) : k[j].mode <= o.mode /\ k[j].class <= o.class
        /\ o.class # LOCK_VERY_LONG =>
             /\ Len(k) = o.count /\ \A j \in 1..Len(k) : k[j].mode # LOCK_FREE
    BY <1>2, <1>4, <1>5, <1>6, <1>8, <1>10, StateAt DEF ClaimPart
  <2>2. Len(NoClaim) <= o.count
    BY <1>7, BoundsAssumption DEF NoClaim
  <2> QED
    BY <2>1, <2>2
<1>13. m <= o.mode /\ o.count < MaxCount
  BY <1>2, <1>5, <1>6 DEF LockAgain
<1>14. /\ Acknowledge(t, n, m, c) /\ UNCHANGED <<ltWait, asleep, mes, releasing, failed>>
  BY DEF LockAgain
<1>15. PICK l : l = Again(lk, i, c)
  OBVIOUS
<1>16. PICK r \in LastingType :
         /\ Recounted(lk, i, r, l)
         /\ r.class = MaxOf(c, o.class) /\ r.count = o.count + 1
  BY <1>1, <1>6, <1>13, <1>15, CountedAgain
<1>17. r.tran = t /\ r.status = "granted" /\ r.mode = o.mode
  BY <1>6, <1>7, <1>11, <1>16 DEF Recounted
<1>18. lock' = [lock EXCEPT ![n] = l]
  BY <1>2, <1>5, <1>15 DEF LockAgain, SetLock, Again
<1>19. /\ l \in LockType /\ QueueInv(l) /\ OthersKept(lk.queue, l.queue, t)
       /\ Has(l.queue, t) /\ Own(l.queue, t) = r
  <2>1. lk.queue[i].tran = t /\ lk.queue[i].status = "granted"
    BY <1>5, <1>6, <1>11
  <2> QED
    BY <1>3, <1>16, <2>1, Counted
<1>20. /\ \A u \in Tran \ {t} : claim'[u] = claim[u]
       /\ \A j \in Name \ {n} : claim'[t][j] = claim[t][j]
       /\ claim'[t][n] = Append(k, Told(m, c))
       /\ claim' \in [Tran -> [Name -> ClaimType]]
  BY <1>1, <1>8, <1>14, Acknowledged
<1>21. Types'
  <2>1. lock' \in [Name -> LockType]
    BY <1>18, <1>19 DEF LockInv, Types
  <2> QED
    BY <1>14, <1>20, <2>1 DEF LockInv, Types
<1>22. ClientOK(l.queue, t, n, ltWait'[t], releasing'[t], claim'[t][n])
  <2>1. PICK e : e = claim'[t][n]
    OBVIOUS
  <2>2. ltWait'[t] # n
    BY <1>10, <1>14
  <2>3. /\ e # NoClaim /\ Len(e) = Len(k) + 1
        /\ \A j \in 1..Len(k) : e[j] = k[j]
        /\ e[Len(e)].mode = m /\ e[Len(e)].class = c
    BY <1>1, <1>20, <2>1, ToldMore
  <2>4. \A j \in 1..Len(e) : e[j].mode <= r.mode /\ e[j].class <= r.class
    <3>1. o.class <= r.class /\ c <= r.class
      BY <1>1, <1>7, <1>16 DEF MaxOf, LOCK_LONG, LOCK_VERY_LONG
    <3>2. TAKE j \in 1..Len(e)
    <3>3. CASE j = Len(e)
      BY <1>13, <1>17, <2>3, <3>1, <3>3
    <3>4. CASE j # Len(e)
      <4>1. j \in 1..Len(k) /\ e[j] = k[j]
        BY <1>9, <2>3, <3>4
      <4>2. k[j] \in ToldType
        BY <4>1 DEF ClaimType
      <4>3. k[j].class \in {LOCK_INSTANT, LOCK_LONG, LOCK_VERY_LONG}
        BY <4>2 DEF ToldType
      <4>4. k[j].mode <= r.mode /\ k[j].class <= o.class
        BY <4>1, <1>12, <1>17
      <4>5. k[j].class <= r.class
        BY <4>3, <4>4, <3>1, <1>1, <1>7, <1>16
           DEF MaxOf, LOCK_INSTANT, LOCK_LONG, LOCK_VERY_LONG
      <4> QED
        BY <4>1, <4>4, <4>5
    <3> QED
      BY <3>3, <3>4
  <2>5. Len(e) <= r.count
    BY <1>7, <1>9, <1>12, <1>16, <2>3, BoundsAssumption
  <2>6. r.class # LOCK_VERY_LONG =>
          /\ Len(e) = r.count /\ \A j \in 1..Len(e) : e[j].mode # LOCK_FREE
    <3>1. r.class # LOCK_VERY_LONG => o.class # LOCK_VERY_LONG
      BY <1>1, <1>7, <1>16, <1>17 DEF MaxOf, LOCK_LONG, LOCK_VERY_LONG
    <3>2. m # LOCK_FREE
      BY <1>1 DEF RowMode, LOCK_FREE, LOCK_S, LOCK_U, LOCK_X
    <3>3. \A j \in 1..Len(e) : j = Len(e) \/ j \in 1..Len(k)
      BY <1>9, <2>3
    <3> QED
      BY <3>1, <3>2, <3>3, <1>12, <1>16, <2>3
  <2>7. WaitPart(l.queue, t, n, ltWait'[t], releasing'[t], e)
    BY <1>16, <1>17, <1>19, <2>2 DEF WaitPart, Awaits
  <2>8. ClaimPart(l.queue, t, n, ltWait'[t], e)
    BY <1>16, <1>17, <1>19, <2>2, <2>3, <2>4, <2>5, <2>6 DEF ClaimPart
  <2> QED
    BY <2>1, <2>7, <2>8 DEF ClientOK
<1>23. \A j \in Name \ {n} :
         ClientOK(lock[j].queue, t, j, ltWait'[t], releasing'[t], claim'[t][j])
  BY <1>10, <1>14, <1>20, OtherNames
<1>24. \A u \in Tran \ {t} : /\ ltWait'[u] = ltWait[u] /\ releasing'[u] = releasing[u]
                             /\ claim'[u] = claim[u]
  BY <1>14, <1>20
<1> QED
  BY <1>2, <1>18, <1>19, <1>21, <1>22, <1>23, <1>24, CallStep

\* A task is woken, or its wait times out, or it goes to sleep again.
LEMMA StepTask ==
  ASSUME LockInv, NEW t \in Tran,
         MessageWakeup(t) \/ WaitTimeout(t) \/ RetryWait(t) \/ EndFailed(t)
  PROVE  LockInv'
<1>1. UNCHANGED <<lock, ltWait, releasing, claim>>
  BY DEF MessageWakeup, WaitTimeout, RetryWait, EndFailed
<1>2. Types'
  <2>1. asleep' \in [Tran -> BOOLEAN]
    BY DEF MessageWakeup, WaitTimeout, RetryWait, EndFailed, LockInv, Types
  <2>2. mes' \in [Tran -> BOOLEAN] /\ failed' \in [Tran -> BOOLEAN]
    BY DEF MessageWakeup, WaitTimeout, RetryWait, EndFailed, LockInv, Types
  <2> QED
    BY <1>1, <2>1, <2>2 DEF LockInv, Types
<1>3. \A m \in Name : ClientOK(lock[m].queue, t, m, ltWait'[t], releasing'[t], claim[t][m])
  BY <1>1 DEF LockInv, ClientInv
<1> QED
  BY <1>1, <1>2, <1>3, ClientStep

\* What a transaction that retries waits for.
LEMMA WaitedRequest ==
  ASSUME LockInv, NEW t \in Tran, ltWait[t] # None, releasing[t].names = {}
  PROVE  /\ ltWait[t] \in Name /\ Has(lock[ltWait[t]].queue, t)
         /\ Waited(t) = Own(lock[ltWait[t]].queue, t)
         /\ Waited(t) \in LastingType /\ Waited(t).count = 1
         /\ claim[t][ltWait[t]] = NoClaim
<1>1. ltWait[t] \in Name
  BY DEF LockInv, Types
<1>2. PICK n \in Name : n = ltWait[t]
  BY <1>1
<1>3. /\ Has(lock[n].queue, t) /\ Own(lock[n].queue, t).count = 1
      /\ claim[t][n] = NoClaim
  BY <1>2, StateAt DEF WaitPart, Awaits
<1>4. /\ Waited(t) = Own(lock[n].queue, t) /\ Own(lock[n].queue, t) \in LastingType
  BY <1>2, <1>3, RequestAt DEF Waited
<1> QED
  BY <1>2, <1>3, <1>4

\* The retry finds its request granted.
LEMMA StepRetryGranted ==
  ASSUME LockInv, NEW t \in Tran, RetryGranted(t)
  PROVE  LockInv'
<1>0. ltWait[t] # None /\ releasing[t].names = {} /\ Waited(t).status = "granted"
  BY DEF RetryGranted, Retrying
<1>1. PICK n \in Name : n = ltWait[t]
  BY <1>0, WaitedRequest
<1>2. PICK o \in LastingType : o = Waited(t)
  BY <1>0, WaitedRequest
<1>3. /\ Has(lock[n].queue, t) /\ Own(lock[n].queue, t) = o /\ o.count = 1
      /\ claim[t][n] = NoClaim
  BY <1>0, <1>1, <1>2, WaitedRequest
<1>4. o.mode \in RowMode /\ o.class \in {LOCK_LONG, LOCK_VERY_LONG} /\ o.status = "granted"
  BY <1>0, <1>2, LastingFields
<1>5. /\ ltWait' = [ltWait EXCEPT ![t] = None] /\ Acknowledge(t, n, o.mode, o.class)
      /\ UNCHANGED <<lock, asleep, mes, releasing, failed>>
  BY <1>1, <1>2 DEF RetryGranted
<1>6. /\ \A u \in Tran \ {t} : claim'[u] = claim[u]
      /\ \A k \in Name \ {n} : claim'[t][k] = claim[t][k]
      /\ claim'[t][n] = Append(NoClaim, Told(o.mode, o.class))
      /\ claim' \in [Tran -> [Name -> ClaimType]]
  BY <1>3, <1>4, <1>5, Acknowledged
<1>7. Types'
  BY <1>5, <1>6 DEF LockInv, Types
<1>8. ltWait'[t] = None /\ n # None /\ \A u \in Tran \ {t} : ltWait'[u] = ltWait[u]
  BY <1>5, NoneAssumption DEF LockInv, Types
<1>9. ClientOK(lock[n].queue, t, n, ltWait'[t], releasing'[t], claim'[t][n])
  <2>1. o.mode <= o.mode /\ o.class <= o.class
    BY <1>4 DEF RowMode, LOCK_FREE, LOCK_S, LOCK_U, LOCK_X, LOCK_LONG, LOCK_VERY_LONG
  <2>2. WaitPart(lock[n].queue, t, n, ltWait'[t], releasing'[t], claim'[t][n])
    BY <1>3, <1>4, <1>8 DEF WaitPart, Awaits
  <2>3. PICK d : d = claim'[t][n]
    OBVIOUS
  <2>4. /\ d # NoClaim /\ Len(d) = 1
        /\ \A i \in 1..Len(d) :
             d[i].mode = o.mode /\ d[i].class = o.class /\ d[i].mode # LOCK_FREE
    BY <1>4, <1>6, <2>3, ToldOnce
  <2>5. ClaimPart(lock[n].queue, t, n, ltWait'[t], d)
    BY <1>3, <1>4, <1>8, <2>1, <2>4 DEF ClaimPart
  <2> QED
    BY <2>2, <2>3, <2>5 DEF ClientOK
<1>10. \A k \in Name \ {n} :
         ClientOK(lock[k].queue, t, k, ltWait'[t], releasing'[t], claim'[t][k])
  BY <1>1, <1>6, <1>8, OtherNames
<1>11. /\ lock[n] \in LockType /\ QueueInv(lock[n])
       /\ lock' = [lock EXCEPT ![n] = lock[n]]
  BY <1>5, StateAt DEF LockInv, Types
<1>12. OthersKept(lock[n].queue, lock[n].queue, t)
  BY DEF OthersKept
<1>13. \A u \in Tran \ {t} : /\ ltWait'[u] = ltWait[u] /\ releasing'[u] = releasing[u]
                             /\ claim'[u] = claim[u]
  BY <1>5, <1>6, <1>8
<1> QED
  BY <1>7, <1>9, <1>10, <1>11, <1>12, <1>13, CallStep

\* The retry finds that the wait is over, and gives the request up.
LEMMA StepRetryTimeout ==
  ASSUME LockInv, NEW t \in Tran, RetryTimeout(t)
  PROVE  LockInv'
<1>0. ltWait[t] # None /\ releasing[t].names = {} /\ Waited(t).status \in {"waiting", "converting"}
  BY DEF RetryTimeout, Retrying
<1>1. PICK n \in Name : n = ltWait[t]
  BY <1>0, WaitedRequest
<1>2. PICK lk \in LockType : lk = lock[n]
  BY StateAt
<1>3. QueueInv(lk)
  BY <1>2, StateAt
<1>4. Has(lk.queue, t) /\ claim[t][n] = NoClaim
  BY <1>0, <1>1, <1>2, WaitedRequest
<1>5. PICK i \in 1..Len(lk.queue) :
        /\ i = LastOf(lk.queue, t) /\ Own(lk.queue, t) = lk.queue[i]
        /\ lk.queue[i] \in LastingType /\ lk.queue[i].tran = t
  BY <1>2, <1>4, RequestAt
<1>6. lk.queue[i].count = 1 /\ Waited(t).status # "converting"
  <2>1. Waited(t) = lk.queue[i] /\ Waited(t).count = 1
    BY <1>0, <1>1, <1>2, <1>5, WaitedRequest
  <2>2. lk.queue[i].status \in {"granted", "waiting"}
    BY <1>5, LastingFields
  <2> QED
    BY <2>1, <2>2
<1>7. PICK u : u = lmgr_unlock(Instant(lk, i), t)
  OBVIOUS
<1>8. /\ lock' = [lock EXCEPT ![n] = u.lock] /\ SendWakeups(u.woken) /\ Fail(t)
      /\ ltWait' = [ltWait EXCEPT ![t] = None] /\ UNCHANGED <<asleep, releasing, claim>>
  <2>1. Deny(t, n, Instant(lk, i))
    BY <1>1, <1>2, <1>5, <1>6 DEF RetryTimeout
  <2> QED
    BY <2>1, <1>7 DEF Deny, SetLock, RetryTimeout
<1>9. PICK l : l = u.lock
  OBVIOUS
<1>10. l = Left(lk.queue, i)
  BY <1>3, <1>5, <1>6, <1>7, <1>9, InstantLeaves
<1>11. /\ l \in LockType /\ QueueInv(l)
       /\ ~Has(l.queue, t) /\ OthersKept(lk.queue, l.queue, t)
  BY <1>3, <1>5, <1>10, Leaves
<1>12. Types'
  <2>1. lock' \in [Name -> LockType]
    BY <1>8, <1>9, <1>11 DEF LockInv, Types
  <2>2. mes' \in [Tran -> BOOLEAN] /\ failed' \in [Tran -> BOOLEAN]
    BY <1>8, FlagsTyped DEF LockInv
  <2> QED
    BY <1>8, <2>1, <2>2 DEF LockInv, Types
<1>13. claim' = claim /\ claim'[t][n] = NoClaim /\ UNCHANGED releasing
  BY <1>4, <1>8
<1> QED
  BY <1>1, <1>2, <1>8, <1>9, <1>11, <1>12, <1>13, StepReleased

\* The release of a name whatever its count.
LEMMA StepUnlock ==
  ASSUME LockInv, NEW t \in Tran, NEW n \in Name, Unlock(t, n)
  PROVE  LockInv'
<1>1. ltWait[t] = None
  BY DEF Unlock, Running
<1>2. PICK lk \in LockType : lk = lock[n]
  BY StateAt
<1>3. QueueInv(lk)
  BY <1>2, StateAt
<1>4. Has(lk.queue, t)
  BY <1>2 DEF Unlock, Has
<1>5. PICK i \in 1..Len(lk.queue) :
        /\ i = LastOf(lk.queue, t) /\ lk.queue[i] \in LastingType /\ lk.queue[i].tran = t
  BY <1>2, <1>4, RequestAt
<1>6. PICK u : u = lmgr_unlock(InstantOnce(lk, i), t)
  OBVIOUS
<1>7. /\ lock' = [lock EXCEPT ![n] = u.lock] /\ SendWakeups(u.woken)
      /\ claim' = [claim EXCEPT ![t][n] = NoClaim]
      /\ UNCHANGED <<ltWait, asleep, releasing, failed>>
  BY <1>2, <1>5, <1>6 DEF Unlock, SetLock
<1>8. PICK l : l = u.lock
  OBVIOUS
<1>9. l = Left(lk.queue, i)
  BY <1>3, <1>5, <1>6, <1>8, InstantLeaves
<1>10. /\ l \in LockType /\ QueueInv(l)
       /\ ~Has(l.queue, t) /\ OthersKept(lk.queue, l.queue, t)
  BY <1>3, <1>5, <1>9, Leaves
<1>11. claim' \in [Tran -> [Name -> ClaimType]] /\ claim'[t][n] = NoClaim
  BY <1>7, NoClaimTyped DEF LockInv, Types
<1>12. Types'
  <2>1. lock' \in [Name -> LockType]
    BY <1>7, <1>8, <1>10 DEF LockInv, Types
  <2>2. mes' \in [Tran -> BOOLEAN]
    BY <1>7, FlagsTyped DEF LockInv
  <2> QED
    BY <1>7, <1>11, <2>1, <2>2 DEF LockInv, Types
<1>13. ltWait' = [ltWait EXCEPT ![t] = None] /\ UNCHANGED releasing
  BY <1>1, <1>7 DEF LockInv, Types
<1> QED
  BY <1>1, <1>2, <1>7, <1>8, <1>10, <1>11, <1>12, <1>13, StepReleased

\* The release of one lock of several, or of the last.
LEMMA StepUnlockShared ==
  ASSUME LockInv, NEW t \in Tran, NEW n \in Name, UnlockShared(t, n)
  PROVE  LockInv'
<1>1. ltWait[t] = None /\ n # None
  BY NoneAssumption DEF UnlockShared, Running
<1>2. PICK lk \in LockType : lk = lock[n]
  BY StateAt
<1>3. QueueInv(lk) /\ OneEach(lk.queue)
  BY <1>2, StateAt
<1>4. Has(lk.queue, t)
  BY <1>2 DEF UnlockShared, Has
<1>5. PICK i \in 1..Len(lk.queue) :
        /\ Own(lk.queue, t) = lk.queue[i]
        /\ lk.queue[i] \in LastingType /\ lk.queue[i].tran = t
  BY <1>2, <1>4, RequestAt
<1>6. PICK o \in LastingType : o = lk.queue[i]
  BY <1>5
<1>7. /\ o.class \in {LOCK_LONG, LOCK_VERY_LONG} /\ o.count \in 0..MaxCount
      /\ o.mode \in RowMode
  BY <1>6, LastingFields
<1>8. PICK k \in ClaimType : k = claim[t][n]
  BY StateAt
<1>9. k # NoClaim
  BY <1>8 DEF UnlockShared
<1>10. PICK d \in ClaimType : d = Front(k)
  BY <1>9, ToldLess
<1>11. /\ Len(d) = Len(k) - 1 /\ Len(k) \in Nat /\ Len(k) > 0
       /\ \A j \in 1..Len(d) : j \in 1..Len(k) /\ d[j] = k[j]
       /\ Len(k) = 1 => d = NoClaim
  BY <1>9, <1>10, ToldLess
<1>12. /\ o.status = "granted" /\ Len(k) <= o.count
       /\ \A j \in 1..Len(k) : k[j].mode <= o.mode /\ k[j].class <= o.class
       /\ o.class # LOCK_VERY_LONG =>
            /\ Len(k) = o.count /\ \A j \in 1..Len(k) : k[j].mode # LOCK_FREE
  BY <1>1, <1>2, <1>4, <1>5, <1>6, <1>8, <1>9, StateAt DEF ClaimPart
<1>13. PICK u : u = lmgr_unlock(lk, t)
  OBVIOUS
<1>14. PICK l : l = u.lock
  OBVIOUS
<1>16. /\ lock' = [lock EXCEPT ![n] = l] /\ SendWakeups(u.woken)
       /\ claim' = [claim EXCEPT ![t][n] = d]
       /\ UNCHANGED <<ltWait, asleep, releasing, failed>>
  BY <1>2, <1>8, <1>10, <1>13, <1>14 DEF UnlockShared, SetLock
<1>18. /\ claim' \in [Tran -> [Name -> ClaimType]] /\ claim'[t][n] = d
       /\ \A v \in Tran \ {t} : claim'[v] = claim[v]
       /\ \A j \in Name \ {n} : claim'[t][j] = claim[t][j]
  BY <1>10, <1>16 DEF LockInv, Types
<1>19. l \in LockType => Types'
  <2> SUFFICES ASSUME l \in LockType
               PROVE  Types'
    OBVIOUS
  <2>1. lock' \in [Name -> LockType]
    BY <1>16 DEF LockInv, Types
  <2>2. mes' \in [Tran -> BOOLEAN]
    BY <1>16, FlagsTyped DEF LockInv
  <2> QED
    BY <1>16, <1>18, <2>1, <2>2 DEF LockInv, Types
<1>20. CASE ~(o.class > LOCK_LONG \/ o.count > 1)
  <2>1. o.class # LOCK_VERY_LONG /\ o.class <= LOCK_LONG
    BY <1>7, <1>20 DEF LOCK_LONG, LOCK_VERY_LONG
  <2>2. o.count = 1 /\ Len(k) = 1
    BY <1>7, <1>11, <1>12, <1>20, <2>1, BoundsAssumption
  <2>3. l = Left(lk.queue, i)
    BY <1>3, <1>5, <1>6, <1>13, <1>14, <2>1, <2>2, UnlockLeavesAsIs
  <2>4. /\ l \in LockType /\ QueueInv(l)
        /\ ~Has(l.queue, t) /\ OthersKept(lk.queue, l.queue, t)
    BY <1>3, <1>5, <2>3, Leaves
  <2>5. d = NoClaim /\ claim' = [claim EXCEPT ![t][n] = NoClaim] /\ claim'[t][n] = NoClaim
    BY <1>11, <1>16, <1>18, <2>2
  <2>6. ltWait' = [ltWait EXCEPT ![t] = None] /\ UNCHANGED releasing
    BY <1>1, <1>16 DEF LockInv, Types
  <2> QED
    BY <1>1, <1>2, <1>16, <1>19, <2>4, <2>5, <2>6, StepReleased
<1>21. CASE o.class > LOCK_LONG \/ o.count > 1
  <2>1. l = Undone(lk, i)
    BY <1>3, <1>5, <1>6, <1>13, <1>14, <1>21, UnlockCounts
  <2>2. o.count > 0
    BY <1>7, <1>11, <1>12, BoundsAssumption
  <2>3. PICK r \in LastingType : /\ Recounted(lk, i, r, l)
                                 /\ r.class = o.class /\ r.count = o.count - 1
    BY <1>6, <2>1, <2>2, CountedUndone
  <2>4. /\ l \in LockType /\ QueueInv(l) /\ OthersKept(lk.queue, l.queue, t)
        /\ Has(l.queue, t) /\ Own(l.queue, t) = r
    BY <1>3, <1>5, <1>6, <1>12, <2>3, Counted
  <2>5. r.status = "granted" /\ r.mode = o.mode
    BY <1>6, <1>12, <2>3 DEF Recounted
  <2>6. ltWait'[t] = None
    BY <1>1, <1>16
  <2>7. WaitPart(l.queue, t, n, ltWait'[t], releasing'[t], d)
    BY <1>1, <2>4, <2>5, <2>6 DEF WaitPart, Awaits
  <2>8. ClaimPart(l.queue, t, n, ltWait'[t], d)
    <3>1. Len(d) <= r.count
      BY <1>7, <1>11, <1>12, <2>3, BoundsAssumption
    <3>2. \A j \in 1..Len(d) : d[j].mode <= r.mode /\ d[j].class <= r.class
      BY <1>11, <1>12, <2>3, <2>5
    <3>3. r.class # LOCK_VERY_LONG =>
            /\ d # NoClaim /\ Len(d) = r.count
            /\ \A j \in 1..Len(d) : d[j].mode # LOCK_FREE
      <4>1. r.class # LOCK_VERY_LONG => o.class = LOCK_LONG /\ o.count > 1
        BY <1>7, <1>21, <2>3 DEF LOCK_LONG, LOCK_VERY_LONG
      <4>2. r.class # LOCK_VERY_LONG =>
              Len(d) = r.count /\ \A j \in 1..Len(d) : d[j].mode # LOCK_FREE
        BY <1>11, <1>12, <2>3
      <4>3. Len(NoClaim) = 0 /\ (o.count > 1 => o.count - 1 # 0)
        BY <1>7, BoundsAssumption DEF NoClaim
      <4> QED
        BY <4>1, <4>2, <4>3, <2>3
    <3> QED
      BY <3>1, <3>2, <3>3, <2>4, <2>5 DEF ClaimPart
  <2>9. ClientOK(l.queue, t, n, ltWait'[t], releasing'[t], claim'[t][n])
    BY <1>18, <2>7, <2>8 DEF ClientOK
  <2>10. \A j \in Name \ {n} :
           ClientOK(lock[j].queue, t, j, ltWait'[t], releasing'[t], claim'[t][j])
    BY <1>1, <1>18, <2>6, OtherNames
  <2>11. \A v \in Tran \ {t} : /\ ltWait'[v] = ltWait[v] /\ releasing'[v] = releasing[v]
                               /\ claim'[v] = claim[v]
    BY <1>16, <1>18
  <2> QED
    BY <1>2, <1>16, <1>19, <2>4, <2>9, <2>10, <2>11, CallStep
<1> QED
  BY <1>20, <1>21

\* A release of everything begins.
LEMMA StepUnlockAllBegin ==
  ASSUME LockInv, NEW t \in Tran, NEW class \in Classes, UnlockAllBegin(t, class)
  PROVE  LockInv'
<1>1. /\ releasing[t].names = {} /\ AnyHeld(t)
      /\ ltWait[t] # None => Waited(t).class <= class
      /\ UNCHANGED <<lock, ltWait, asleep, mes, failed, claim>>
  BY DEF UnlockAllBegin
<1>2. PICK S : S = {n \in Name : Has(lock[n].queue, t)}
  OBVIOUS
<1>3. S \subseteq Name /\ S # {}
  BY <1>1, <1>2 DEF AnyHeld, Has
<1>4. PICK r : r = [class |-> class, names |-> S]
  OBVIOUS
<1>5. r.class = class /\ r.names = S /\ releasing' = [releasing EXCEPT ![t] = r]
  <2>1. {n \in Name : FirstOf(lock[n].queue, t) # 0} = S
    BY <1>2 DEF Has
  <2> QED
    BY <2>1, <1>4 DEF UnlockAllBegin
<1>6. r \in ReleaseType
  BY <1>3, <1>4, ClassesAssumption DEF ReleaseType
<1>7. Types'
  BY <1>1, <1>5, <1>6 DEF LockInv, Types
<1>8. releasing'[t] = r /\ \A u \in Tran \ {t} : releasing'[u] = releasing[u]
  BY <1>5 DEF LockInv, Types
<1>9. ASSUME NEW m \in Name
      PROVE  ClientOK(lock[m].queue, t, m, ltWait'[t], r, claim[t][m])
  <2>1. /\ WaitPart(lock[m].queue, t, m, ltWait[t], releasing[t], claim[t][m])
        /\ ClaimPart(lock[m].queue, t, m, ltWait[t], claim[t][m])
    BY StateAt
  <2>2. CASE ltWait[t] # m
    BY <1>1, <2>1, <2>2 DEF ClientOK, WaitPart, Awaits
  <2>3. CASE ltWait[t] = m
    <3>1. /\ Has(lock[m].queue, t) /\ Waited(t) = Own(lock[m].queue, t)
          /\ Own(lock[m].queue, t).count = 1 /\ claim[t][m] = NoClaim
      BY <1>1, <2>3, NoneAssumption, WaitedRequest
    <3>2. Own(lock[m].queue, t).class <= class
      BY <1>1, <2>3, <3>1, NoneAssumption
    <3>3. m \in r.names
      BY <1>2, <1>5, <3>1
    <3>4. WaitPart(lock[m].queue, t, m, ltWait'[t], r, claim[t][m])
      BY <1>1, <1>5, <2>3, <3>1, <3>2, <3>3 DEF WaitPart, Awaits
    <3> QED
      BY <1>1, <2>1, <3>4 DEF ClientOK
  <2> QED
    BY <2>2, <2>3
<1>10. \A m \in Name : ClientOK(lock[m].queue, t, m, ltWait'[t], releasing'[t], claim[t][m])
  BY <1>8, <1>9
<1> QED
  BY <1>1, <1>7, <1>8, <1>10, ClientStep

\* One name of a release of everything, the last one included.
LEMMA StepUnlockAll ==
  ASSUME LockInv, NEW t \in Tran, NEW n \in Name, UnlockAllStep(t, n)
  PROVE  LockInv'
<1>1. PICK lk \in LockType : lk = lock[n]
  BY StateAt
<1>2. QueueInv(lk) /\ lk.queue \in Seq(LastingType) /\ OneEach(lk.queue)
  BY <1>1, StateAt
<1>3. PICK rel : rel = releasing[t]
  OBVIOUS
<1>4. /\ n \in rel.names /\ rel.names \in SUBSET Name
      /\ rel.class \in {LOCK_LONG, LOCK_VERY_LONG}
      /\ rel \in [class : {LOCK_LONG, LOCK_VERY_LONG}, names : SUBSET Name]
  <2>1. rel \in ReleaseType /\ n \in rel.names
    BY <1>3 DEF UnlockAllStep, LockInv, Types
  <2>2. rel # Idle
    BY <2>1 DEF Idle
  <2> QED
    BY <2>1, <2>2 DEF ReleaseType
<1>5. PICK k \in ClaimType : k = claim[t][n]
  BY StateAt
<1>6. /\ k # NoClaim => Has(lk.queue, t)
      /\ \A i \in 1..Len(k) : k[i].class <= Own(lk.queue, t).class
  BY <1>1, <1>5, StateAt DEF ClaimPart
<1>7. PICK u : u = lmgr_unlock_class(lk, t, rel.class)
  OBVIOUS
<1>8. PICK l : l = u.lock
  OBVIOUS
<1>9. PICK left : left = rel.names \ {n}
  OBVIOUS
<1>10. PICK r, w, d : /\ r = IF left = {} THEN Idle ELSE [rel EXCEPT !.names = left]
                      /\ w = IF left = {} THEN None ELSE ltWait[t]
                      /\ d = Remaining(k, rel.class)
  OBVIOUS
<1>11. /\ lock' = [lock EXCEPT ![n] = l] /\ SendWakeups(u.woken)
       /\ releasing' = [releasing EXCEPT ![t] = r]
       /\ ltWait' = [ltWait EXCEPT ![t] = w]
       /\ failed' = [failed EXCEPT ![t] = IF left = {} THEN FALSE ELSE failed[t]]
       /\ claim' = [claim EXCEPT ![t][n] = d] /\ UNCHANGED asleep
  BY <1>1, <1>3, <1>5, <1>7, <1>8, <1>9, <1>10 DEF UnlockAllStep, SetLock
<1>12. r \in ReleaseType
  <2>1. left \in SUBSET Name
    BY <1>4, <1>9
  <2>2. [rel EXCEPT !.names = left]
          \in [class : {LOCK_LONG, LOCK_VERY_LONG}, names : SUBSET Name]
    BY <1>4, <2>1
  <2> QED
    BY <1>10, <2>2 DEF ReleaseType
<1>13. w \in Name \cup {None} /\ d \in ClaimType
  BY <1>10, LeftTyped DEF LockInv, Types
<1>14. /\ releasing'[t] = r /\ ltWait'[t] = w /\ claim'[t][n] = d
       /\ \A v \in Tran \ {t} : /\ ltWait'[v] = ltWait[v] /\ releasing'[v] = releasing[v]
                                /\ claim'[v] = claim[v]
       /\ \A j \in Name \ {n} : claim'[t][j] = claim[t][j]
  BY <1>11 DEF LockInv, Types
<1>15. l \in LockType => Types'
  <2> SUFFICES ASSUME l \in LockType
               PROVE  Types'
    OBVIOUS
  <2>1. lock' \in [Name -> LockType]
    BY <1>11 DEF LockInv, Types
  <2>2. mes' \in [Tran -> BOOLEAN]
    BY <1>11, FlagsTyped DEF LockInv
  <2>3. failed' \in [Tran -> BOOLEAN]
    BY <1>11 DEF LockInv, Types
  <2>4. /\ releasing' \in [Tran -> ReleaseType]
        /\ ltWait' \in [Tran -> Name \cup {None}]
        /\ claim' \in [Tran -> [Name -> ClaimType]]
        /\ asleep' \in [Tran -> BOOLEAN]
    BY <1>11, <1>12, <1>13 DEF LockInv, Types
  <2> QED
    BY <2>1, <2>2, <2>3, <2>4 DEF Types
<1>16. left # {} => r.names = left /\ r.class = rel.class
  BY <1>4, <1>10
\* The other names: what t still has to release it still waits for, if it did.
<1>17. ASSUME NEW m \in Name \ {n}
       PROVE  ClientOK(lock[m].queue, t, m, ltWait'[t], releasing'[t], claim'[t][m])
  <2>1. ClientOK(lock[m].queue, t, m, ltWait[t], rel, claim[t][m])
    BY <1>3 DEF LockInv, ClientInv
  <2>2. CASE left = {}
    <3>1. w = None /\ w # m /\ m \notin rel.names /\ rel.names # {}
      BY <1>4, <1>9, <1>10, <2>2, NoneAssumption
    <3>2. CASE ltWait[t] # m
      BY <1>14, <2>1, <3>1, <3>2, ClientElsewhere
    <3>3. CASE ltWait[t] = m
      <4>1. ~Has(lock[m].queue, t)
        BY <2>1, <3>1, <3>3 DEF ClientOK, WaitPart, Awaits
      <4>2. ClientOK(lock[m].queue, t, m, w, r, claim[t][m])
        BY <2>1, <3>1, <4>1 DEF ClientOK, WaitPart, ClaimPart, Awaits
      <4> QED
        BY <1>14, <4>2
    <3> QED
      BY <3>2, <3>3
  <2>3. CASE left # {}
    <3>1. w = ltWait[t] /\ r.names # {} /\ rel.names # {} /\ (m \in r.names <=> m \in rel.names)
          /\ r.class = rel.class
      BY <1>4, <1>9, <1>10, <1>16, <2>3
    <3>2. ClientOK(lock[m].queue, t, m, w, r, claim[t][m])
      BY <2>1, <3>1 DEF ClientOK, WaitPart, ClaimPart, Awaits
    <3> QED
      BY <1>14, <3>2
  <2> QED
    BY <2>2, <2>3
<1>18. w = n => left # {} /\ ~Awaits(w, r, n)
  BY <1>9, <1>10, <1>16, NoneAssumption DEF Awaits
\* Either t has no request afterwards, or one of a longer class, as before.
<1>19. CASE /\ l \in LockType /\ QueueInv(l) /\ ~Has(l.queue, t)
            /\ OthersKept(lk.queue, l.queue, t) /\ d = NoClaim
  <2>1. Len(NoClaim) = 0
    BY DEF NoClaim
  <2>2. ClientOK(l.queue, t, n, w, r, d)
    BY <1>18, <1>19, <2>1 DEF ClientOK, WaitPart, ClaimPart, Awaits
  <2>3. ClientOK(l.queue, t, n, ltWait'[t], releasing'[t], claim'[t][n])
    BY <1>14, <2>2
  <2> QED
    BY <1>1, <1>11, <1>14, <1>15, <1>17, <1>19, <2>3, CallStep
<1>20. CASE l = lk /\ Has(lk.queue, t) /\ Own(lk.queue, t).class > rel.class
  <2>1. PICK o \in LastingType : o = Own(lk.queue, t)
    BY <1>2, <1>20, HasAt
  <2>2. o.class \in {LOCK_LONG, LOCK_VERY_LONG}
    BY <2>1, LastingFields
  <2>3. ltWait[t] # n
    <3>1. ~(o.class <= rel.class)
      BY <1>4, <1>20, <2>1, <2>2 DEF LOCK_INSTANT, LOCK_LONG, LOCK_VERY_LONG
    <3>2. Awaits(ltWait[t], rel, n) /\ rel.names # {} => o.class <= rel.class
      BY <1>1, <1>3, <2>1, StateAt DEF WaitPart
    <3> QED
      BY <1>4, <3>1, <3>2 DEF Awaits
  <2>4. w # n
    BY <1>10, <2>3, NoneAssumption
  <2>5. /\ WaitPart(lk.queue, t, n, ltWait[t], rel, k)
        /\ ClaimPart(lk.queue, t, n, ltWait[t], k)
    BY <1>1, <1>3, <1>5, StateAt
  <2>6. ClientOK(lk.queue, t, n, w, r, k)
    BY <2>3, <2>4, <2>5, ClientElsewhere DEF ClientOK
  <2>7. ClientOK(lk.queue, t, n, w, r, d)
    <3>1. o.class = LOCK_VERY_LONG /\ o.mode \in RowMode
      <4>1. o.mode \in RowMode
        BY LastingFields
      <4> QED
        BY <1>4, <1>20, <2>1, <2>2, <4>1 DEF LOCK_LONG, LOCK_VERY_LONG
    <3>2. /\ k # NoClaim => o.status = "granted" /\ Len(k) <= o.count
          /\ \A i \in 1..Len(k) : k[i].mode <= o.mode /\ k[i].class <= o.class
      BY <2>1, <2>5 DEF ClaimPart
    <3>3. /\ d # NoClaim => o.status = "granted" /\ Len(d) <= o.count
          /\ \A i \in 1..Len(d) : d[i].mode <= o.mode /\ d[i].class <= o.class
      BY <1>10, <3>1, <3>2, LeftCovered
    <3>4. WaitPart(lk.queue, t, n, w, r, d)
      BY <2>4, <2>6 DEF ClientOK, WaitPart, Awaits
    <3>5. ClaimPart(lk.queue, t, n, w, d)
      BY <1>20, <2>1, <3>1, <3>3 DEF ClaimPart
    <3> QED
      BY <3>4, <3>5 DEF ClientOK
  <2>8. ClientOK(l.queue, t, n, ltWait'[t], releasing'[t], claim'[t][n])
    BY <1>14, <1>20, <2>7
  <2>9. OthersKept(lk.queue, l.queue, t)
    BY <1>20 DEF OthersKept
  <2> QED
    BY <1>1, <1>2, <1>11, <1>14, <1>15, <1>17, <1>20, <2>8, <2>9, CallStep
<1>21. CASE ~Has(lk.queue, t)
  <2>1. l = lk
    <3>1. \A i \in 1..Len(lk.queue) : lk.queue[i].tran # t
      BY <1>2, <1>21, HasAt
    <3> QED
      BY <1>2, <1>7, <1>8, <3>1, ClassLeaves
  <2>2. d = NoClaim
    <3>1. k = NoClaim /\ \A i \in 1..Len(NoClaim) : FALSE
      BY <1>6, <1>21 DEF NoClaim
    <3> QED
      BY <1>10, <3>1, NothingLeft
  <2>3. OthersKept(lk.queue, lk.queue, t)
    BY DEF OthersKept
  <2> QED
    BY <1>2, <1>19, <1>21, <2>1, <2>2, <2>3
<1>22. CASE Has(lk.queue, t)
  <2>1. PICK i \in 1..Len(lk.queue) :
          /\ Own(lk.queue, t) = lk.queue[i]
          /\ lk.queue[i] \in LastingType /\ lk.queue[i].tran = t
    BY <1>1, <1>22, RequestAt
  <2>2. PICK o \in LastingType : o = lk.queue[i]
    BY <2>1
  <2>3. o.class \in {LOCK_LONG, LOCK_VERY_LONG}
    BY LastingFields
  <2>4. CASE o.class > rel.class
    <3>1. \A j \in 1..Len(lk.queue) : lk.queue[j].tran = t => lk.queue[j].class > rel.class
      BY <1>2, <2>1, <2>2, <2>4 DEF OneEach
    <3>2. l = lk
      BY <1>2, <1>7, <1>8, <3>1, ClassLeaves
    <3> QED
      BY <1>20, <1>22, <2>1, <2>2, <2>4, <3>2
  <2>5. CASE ~(o.class > rel.class)
    <3>1. l = Left(lk.queue, i)
      BY <1>2, <1>7, <1>8, <2>1, <2>2, <2>5, ClassLeaves
    <3>2. /\ l \in LockType /\ QueueInv(l)
          /\ ~Has(l.queue, t) /\ OthersKept(lk.queue, l.queue, t)
      BY <1>2, <2>1, <3>1, Leaves
    <3>3. d = NoClaim
      <4>1. \A j \in 1..Len(k) : k[j].class <= rel.class
        <5>1. TAKE j \in 1..Len(k)
        <5>2. k[j].class <= o.class
          BY <1>6, <2>1, <2>2
        <5>3. k[j] \in ToldType
          BY DEF ClaimType
        <5>4. k[j].class \in {LOCK_INSTANT, LOCK_LONG, LOCK_VERY_LONG}
          BY <5>3 DEF ToldType
        <5> QED
          BY <5>2, <5>4, <1>4, <2>3, <2>5
             DEF LOCK_INSTANT, LOCK_LONG, LOCK_VERY_LONG
      <4> QED
        BY <1>10, <4>1, NothingLeft
    <3> QED
      BY <1>19, <3>2, <3>3
  <2> QED
    BY <2>4, <2>5
<1> QED
  BY <1>21, <1>22

(***************************************************************************)
(* Theorems                                                                *)
(***************************************************************************)

\* Every action preserves the invariant.
LEMMA NextInv == ~Conversions /\ LockInv /\ [Next]_vars => LockInv'
<1> SUFFICES ASSUME ~Conversions, LockInv, [Next]_vars
             PROVE  LockInv'
  OBVIOUS
<1>1. CASE UNCHANGED vars
  <2>1. Types'
    BY <1>1 DEF vars, LockInv, Types
  <2>2. \A n \in Name : QueueInv(lock[n])'
    BY <1>1 DEF vars, LockInv
  <2>3. \A t \in Tran, n \in Name : ClientInv(t, n)'
    BY <1>1 DEF vars, LockInv, ClientInv
  <2> QED
    BY <2>1, <2>2, <2>3 DEF LockInv
<1>2. ASSUME NEW t \in Tran, Lock(t)
      PROVE  LockInv'
  <2>1. Running(t)
    BY <1>2 DEF Lock
  <2>2. PICK n \in Name, m \in Modes, c \in Classes :
          \/ LockFree(t, n, m, c)
          \/ LockNew(t, n, m, c)
          \/ LockNewWait(t, n, m, c)
          \/ LockNewDenied(t, n, m, c)
          \/ LockAgain(t, n, m, c)
          \/ LockUpgrade(t, n, m, c)
          \/ LockConvertWait(t, n, m, c)
          \/ LockConvertDenied(t, n, m, c)
    BY <1>2 DEF Lock
  <2>3. ~IsConversion(t, n, m)
    BY DEF IsConversion
  <2>4. CASE LockFree(t, n, m, c) \/ LockNew(t, n, m, c)
    BY <2>1, <2>4, StepGranted
  <2>5. CASE LockNewWait(t, n, m, c)
    BY <2>1, <2>5, StepWait
  <2>6. CASE LockNewDenied(t, n, m, c)
    BY <2>1, <2>6, StepDenied
  <2>7. CASE LockAgain(t, n, m, c)
    BY <2>1, <2>7, StepAgain
  <2>8. CASE \/ LockUpgrade(t, n, m, c) \/ LockConvertWait(t, n, m, c)
             \/ LockConvertDenied(t, n, m, c)
    BY <2>3, <2>8 DEF LockUpgrade, LockConvertWait, LockConvertDenied
  <2> QED
    BY <2>2, <2>4, <2>5, <2>6, <2>7, <2>8
<1>3. ASSUME NEW t \in Tran,
             MessageWakeup(t) \/ WaitTimeout(t) \/ RetryWait(t) \/ EndFailed(t)
      PROVE  LockInv'
  BY <1>3, StepTask
<1>4. ASSUME NEW t \in Tran, RetryGranted(t)
      PROVE  LockInv'
  BY <1>4, StepRetryGranted
<1>5. ASSUME NEW t \in Tran, RetryTimeout(t)
      PROVE  LockInv'
  BY <1>5, StepRetryTimeout
<1>6. ASSUME NEW t \in Tran, NEW n \in Name,
             Unlock(t, n) \/ UnlockShared(t, n) \/ UnlockAllStep(t, n)
      PROVE  LockInv'
  BY <1>6, StepUnlock, StepUnlockShared, StepUnlockAll
<1>7. ASSUME NEW t \in Tran, NEW class \in Classes, UnlockAllBegin(t, class)
      PROVE  LockInv'
  BY <1>7, StepUnlockAllBegin
<1> QED
  BY <1>1, <1>2, <1>3, <1>4, <1>5, <1>6, <1>7 DEF Next

\* The invariant holds in every reachable state, when nobody asks for a
\* conversion.
THEOREM Invariance == ~Conversions => (Spec => []LockInv)
<1> SUFFICES ASSUME ~Conversions
             PROVE  Spec => []LockInv
  OBVIOUS
<1>1. Init => LockInv
  BY InitInv
<1>2. LockInv /\ [Next]_vars => LockInv'
  BY NextInv
<1> QED
  BY <1>1, <1>2, PTL DEF Spec

\* The types of the lock table and of the clients (TypeOK): each lock that is
\* not free has a granted group.
THEOREM TypeCorrect == ~Conversions => (Spec => []TypeOK)
<1> SUFFICES ASSUME ~Conversions
             PROVE  Spec => []TypeOK
  OBVIOUS
<1>1. LockInv => TypeOK
  <2> SUFFICES ASSUME LockInv
               PROVE  TypeOK
    OBVIOUS
  <2>1. ASSUME NEW n \in Name
        PROVE  /\ lock[n].queue \in Seq(RequestType)
               /\ lock[n].granted \in LockMode
               /\ lock[n].waiting \in BOOLEAN
               /\ lock[n].queue = << >> <=> lock[n].granted = LOCK_FREE
    <3>1. PICK lk \in LockType : lk = lock[n] /\ QueueInv(lk)
      BY DEF LockInv, Types
    <3>2. PICK q \in Seq(LastingType) : q = lk.queue
      BY DEF LockType
    <3>3. q \in Seq(RequestType)
      <4>1. LastingType \subseteq RequestType
        BY MarkedRequest
      <4> QED
        BY <4>1
    <3>4. lk.granted \in LockMode /\ lk.waiting \in BOOLEAN
      <4>1. lk.granted \in {LOCK_FREE} \cup RowMode /\ lk.waiting \in BOOLEAN
        BY DEF LockType
      <4> QED
        BY <4>1 DEF LockMode, RowMode, LOCK_FREE, LOCK_S, LOCK_U, LOCK_X
    <3>5. PICK g \in 0..Len(q) : HeaderInv(lk, g)
      BY <3>1, <3>2 DEF QueueInv
    <3>6. Len(q) \in Nat /\ \A i \in 1..g : q[i].mode \in RowMode
      <4>1. Len(q) \in Nat /\ \A i \in 1..g : q[i] \in LastingType
        OBVIOUS
      <4> QED
        BY <4>1, LastingFields
    <3>7. lk.granted = LOCK_FREE <=> 1..g = {}
      <4>1. lk.granted = GroupMode(q, 1..g)
        BY <3>2, <3>5 DEF HeaderInv
      <4>2. GroupMode(q, 1..g) = LOCK_FREE <=> 1..g = {}
        BY <3>6, GroupProperties
      <4> QED
        BY <4>1, <4>2
    <3>8. q = << >> <=> 1..g = {}
      <4>1. CASE q = << >>
        BY <4>1
      <4>2. CASE q # << >>
        <5>1. g > 0
          BY <3>2, <3>5, <4>2 DEF HeaderInv
        <5>2. 1 \in 1..g
          BY <5>1
        <5> QED
          BY <4>2, <5>2
      <4> QED
        BY <4>1, <4>2
    <3> QED
      BY <3>1, <3>2, <3>3, <3>4, <3>7, <3>8
  <2>2. \A t \in Tran : releasing[t].names \subseteq Name
    <3> SUFFICES ASSUME NEW t \in Tran
                 PROVE  releasing[t].names \subseteq Name
      OBVIOUS
    <3>1. releasing[t] \in ReleaseType
      BY DEF LockInv, Types
    <3> QED
      BY <3>1 DEF ReleaseType, Idle
  <2> QED
    BY <2>1, <2>2 DEF TypeOK, LockInv, Types
<1> QED
  BY <1>1, Invariance, PTL

\* What a transaction claims: a granted request covers it.
LEMMA ClaimStands ==
  ASSUME LockInv, NEW t \in Tran, NEW n \in Name, NEW a \in Claimed(t, n)
  PROVE  \E i \in 1..Len(lock[n].queue) :
           LET r == lock[n].queue[i]
           IN  /\ r.tran = t /\ r.status = "granted" /\ r.mode \in RowMode
               /\ a \in RowMode /\ a <= r.mode
<1>1. PICK q \in Seq(LastingType) : q = lock[n].queue
  BY StateAt
<1>2. PICK c \in ClaimType : c = claim[t][n]
  BY StateAt
<1>3. PICK j \in 1..Len(c) : a = c[j].mode /\ a # LOCK_FREE
  <2>1. DOMAIN c = 1..Len(c)
    BY DEF ClaimType
  <2> QED
    BY <1>2, <2>1 DEF Claimed
<1>4. c # NoClaim /\ a \in RowMode
  <2>1. c[j] \in ToldType
    BY DEF ClaimType
  <2>2. c # NoClaim
    BY <1>3 DEF NoClaim
  <2> QED
    BY <1>3, <2>1, <2>2 DEF ToldType
<1>5. Has(q, t) /\ Own(q, t).status = "granted" /\ a <= Own(q, t).mode
  BY <1>1, <1>2, <1>3, <1>4, StateAt DEF ClaimPart
<1>6. PICK i \in 1..Len(q) : Own(q, t) = q[i] /\ q[i] \in LastingType /\ q[i].tran = t
  BY <1>1, <1>5, RequestAt
<1>7. q[i].mode \in RowMode
  BY <1>6, LastingFields
<1> QED
  BY <1>1, <1>4, <1>5, <1>6, <1>7

\* The isolation callers rely on (ClaimsCompatible): what two transactions were
\* told they hold of one name can be held together.
THEOREM Isolation == ~Conversions => (Spec => []ClaimsCompatible)
<1> SUFFICES ASSUME ~Conversions
             PROVE  Spec => []ClaimsCompatible
  OBVIOUS
<1>1. LockInv => ClaimsCompatible
  <2> SUFFICES ASSUME LockInv, NEW n \in Name, NEW t1 \in Tran, NEW t2 \in Tran, t1 # t2,
                      NEW a \in Claimed(t1, n), NEW b \in Claimed(t2, n)
               PROVE  lock_compat(a, b) \/ lock_compat(b, a)
    BY DEF ClaimsCompatible
  <2>1. PICK q \in Seq(LastingType) : q = lock[n].queue
    BY StateAt
  <2>2. PICK g \in 0..Len(q) : GrantedFirst(q, g)
    BY <2>1, StateAt DEF QueueInv
  <2>4. PICK i \in 1..Len(q) :
          /\ q[i].tran = t1 /\ q[i].status = "granted" /\ q[i].mode \in RowMode
          /\ a \in RowMode /\ a <= q[i].mode
    BY <2>1, ClaimStands
  <2>5. PICK j \in 1..Len(q) :
          /\ q[j].tran = t2 /\ q[j].status = "granted" /\ q[j].mode \in RowMode
          /\ b \in RowMode /\ b <= q[j].mode
    BY <2>1, ClaimStands
  <2>6. i # j /\ i \in 1..g /\ j \in 1..g
    <3>1. i # j
      BY <2>4, <2>5
    <3>2. i <= g /\ j <= g
      BY <2>2, <2>4, <2>5 DEF GrantedFirst
    <3> QED
      BY <3>1, <3>2
  <2>7. lock_compat(q[j].mode, q[i].mode) \/ lock_compat(q[i].mode, q[j].mode)
    BY <2>2, <2>6 DEF GrantedFirst
  <2>8. \A x, y \in RowMode : lock_compat(x, y) <=> y = LOCK_S /\ x # LOCK_X
    BY RowCompat DEF RowMode, LOCK_FREE, LOCK_S, LOCK_U, LOCK_X
  <2>9. lock_compat(a, b) \/ lock_compat(b, a)
    <3>1. \/ q[i].mode = LOCK_S /\ q[j].mode # LOCK_X
          \/ q[j].mode = LOCK_S /\ q[i].mode # LOCK_X
      BY <2>4, <2>5, <2>7, <2>8
    <3>2. \/ a = LOCK_S /\ b # LOCK_X
          \/ b = LOCK_S /\ a # LOCK_X
      BY <2>4, <2>5, <3>1 DEF RowMode, LOCK_S, LOCK_U, LOCK_X
    <3> QED
      BY <2>4, <2>5, <2>8, <3>2
  <2> QED
    BY <2>9
<1> QED
  BY <1>1, Invariance, PTL

\* What a transaction was told it holds, it holds (ClaimCovered): no timeout and
\* no release of another takes it away.
THEOREM Coverage == ~Conversions => (Spec => []ClaimCovered)
<1> SUFFICES ASSUME ~Conversions
             PROVE  Spec => []ClaimCovered
  OBVIOUS
<1>1. LockInv => ClaimCovered
  <2> SUFFICES ASSUME LockInv, NEW n \in Name, NEW t \in Tran,
                      NEW a \in Claimed(t, n)
               PROVE  \E i \in Held(t, n) :
                        lock_max(a, lock[n].queue[i].mode) = lock[n].queue[i].mode
    BY DEF ClaimCovered
  <2>1. PICK q \in Seq(LastingType) : q = lock[n].queue
    BY StateAt
  <2>3. PICK i \in 1..Len(q) :
          /\ q[i].tran = t /\ q[i].status = "granted" /\ q[i].mode \in RowMode
          /\ a \in RowMode /\ a <= q[i].mode
    BY <2>1, ClaimStands
  <2>4. lock_max(a, q[i].mode) = q[i].mode
    BY <2>3, ModesAreAChain
  <2>5. i \in Held(t, n)
    BY <2>1, <2>3 DEF Held
  <2> QED
    BY <2>1, <2>4, <2>5
<1> QED
  BY <1>1, Invariance, PTL

\* A request belongs to a transaction that waits for it, holds it or keeps it for
\* the very long class (NoOrphans): what dbe_locktran_done asserts at the end.
THEOREM Ownership == ~Conversions => (Spec => []NoOrphans)
<1> SUFFICES ASSUME ~Conversions
             PROVE  Spec => []NoOrphans
  OBVIOUS
<1>1. LockInv => NoOrphans
  <2> SUFFICES ASSUME LockInv, NEW n \in Name, NEW i \in DOMAIN lock[n].queue,
                      ltWait[lock[n].queue[i].tran] # n,
                      lock[n].queue[i].class # LOCK_VERY_LONG
               PROVE  Claimed(lock[n].queue[i].tran, n) # {}
    BY DEF NoOrphans
  <2>1. PICK q \in Seq(LastingType) : q = lock[n].queue /\ OneEach(q)
    BY LockAt
  <2>2. i \in 1..Len(q)
    BY <2>1
  <2>3. PICK t \in Tran : t = q[i].tran
    <3>1. q[i] \in LastingType
      BY <2>2
    <3> QED
      BY <3>1, LastingFields
  <2>4. Has(q, t) /\ Own(q, t) = q[i]
    BY <2>1, <2>2, <2>3, OwnAt
  <2>5. ltWait[t] # n /\ q[i].class # LOCK_VERY_LONG
    BY <2>1, <2>3
  <2>6. Claimed(t, n) # {}
    <3>1. PICK c \in ClaimType : c = claim[t][n]
      BY <2>3, StateAt
    <3>2. c # NoClaim /\ \A j \in 1..Len(c) : c[j].mode # LOCK_FREE
      BY <2>1, <2>4, <2>5, <3>1, StateAt DEF ClaimPart
    <3>3. Len(c) > 0 /\ Len(c) \in Nat
      BY <3>2 DEF ClaimType, NoClaim
    <3>4. 1 \in DOMAIN c /\ c[1].mode # LOCK_FREE
      BY <3>2, <3>3 DEF ClaimType
    <3> QED
      BY <3>1, <3>4 DEF Claimed
  <2> QED
    BY <2>1, <2>3, <2>6
<1> QED
  BY <1>1, Invariance, PTL

\* The granted requests of a queue are its first ones.
LEMMA GrantedPlaces ==
  ASSUME LockInv, NEW n \in Name
  PROVE  \E g \in 0..Len(lock[n].queue) :
           /\ GrantedFirst(lock[n].queue, g) /\ HeaderInv(lock[n], g)
           /\ Granted(n) = 1..g
<1>1. PICK q \in Seq(LastingType) : q = lock[n].queue
  BY LockAt
<1>2. PICK g \in 0..Len(q) : GrantedFirst(q, g) /\ HeaderInv(lock[n], g)
  BY <1>1, LockAt DEF QueueInv
<1>3. Granted(n) = {i \in 1..Len(q) : q[i].status = "granted"}
  BY <1>1 DEF Granted
<1>4. {i \in 1..Len(q) : q[i].status = "granted"} = 1..g
  <2>1. \A i \in 1..Len(q) : q[i].status = "granted" <=> i <= g
    BY <1>2 DEF GrantedFirst
  <2>2. Len(q) \in Nat
    OBVIOUS
  <2> QED
    BY <2>1, <2>2
<1> QED
  BY <1>1, <1>2, <1>3, <1>4

\* lh_granted_mode is the mode of the granted group (GrantedModeExact).
THEOREM HeaderExact == ~Conversions => (Spec => []GrantedModeExact)
<1> SUFFICES ASSUME ~Conversions
             PROVE  Spec => []GrantedModeExact
  OBVIOUS
<1>1. LockInv => GrantedModeExact
  <2> SUFFICES ASSUME LockInv, NEW n \in Name
               PROVE  lock[n].granted = GroupMode(lock[n].queue, Granted(n))
    BY DEF GrantedModeExact
  <2> QED
    BY GrantedPlaces DEF HeaderInv
<1> QED
  BY <1>1, Invariance, PTL

\* Nobody holds the lock from behind somebody who waits for it (NoOvertaking).
THEOREM Fifo == ~Conversions => (Spec => []NoOvertaking)
<1> SUFFICES ASSUME ~Conversions
             PROVE  Spec => []NoOvertaking
  OBVIOUS
<1>1. LockInv => NoOvertaking
  <2> SUFFICES ASSUME LockInv, NEW n \in Name,
                      NEW i \in DOMAIN lock[n].queue, NEW j \in DOMAIN lock[n].queue, i < j,
                      lock[n].queue[i].status = "waiting", lock[n].queue[j].status = "granted"
               PROVE  FALSE
    BY DEF NoOvertaking
  <2>1. PICK q \in Seq(LastingType) : q = lock[n].queue
    BY LockAt
  <2>2. PICK g \in 0..Len(q) : GrantedFirst(q, g)
    BY <2>1, LockAt DEF QueueInv
  <2>3. i \in 1..Len(q) /\ j \in 1..Len(q)
    BY <2>1
  <2>4. ~(i <= g) /\ j <= g
    BY <2>1, <2>2, <2>3 DEF GrantedFirst
  <2> QED
    BY <2>3, <2>4
<1> QED
  BY <1>1, Invariance, PTL

\* An unlock grants every request it could have granted (NoStuckWaiter): the
\* first waiter conflicts with what the others hold, and newcomers queue up.
THEOREM NobodyStuck == ~Conversions => (Spec => []NoStuckWaiter)
<1> SUFFICES ASSUME ~Conversions
             PROVE  Spec => []NoStuckWaiter
  OBVIOUS
<1>1. LockInv => NoStuckWaiter
  <2> SUFFICES ASSUME LockInv, NEW n \in Name, NEW i,
                      i = SelectInSeq(lock[n].queue,
                                      LAMBDA r : r.status \in {"waiting", "converting"}),
                      i # 0
               PROVE  /\ lock[n].waiting
                      /\ ~lock_compat(lock[n].queue[i].mode,
                            GroupMode(lock[n].queue,
                              {j \in Granted(n) :
                                 lock[n].queue[j].tran # lock[n].queue[i].tran}))
    BY DEF NoStuckWaiter
  <2>1. PICK q \in Seq(LastingType) : q = lock[n].queue /\ OneEach(q)
    BY LockAt
  <2>2. PICK g \in 0..Len(q) :
          GrantedFirst(q, g) /\ HeaderInv(lock[n], g) /\ Granted(n) = 1..g
    BY <2>1, GrantedPlaces
  <2>3. Len(q) \in Nat
    OBVIOUS
  <2> DEFINE I == {j \in 1..Len(q) : q[j].status \in {"waiting", "converting"}}
  <2>4. I # {} /\ i = Min(I)
    BY <2>1 DEF SelectInSeq
  <2>5. I = (g + 1)..Len(q)
    <3>1. \A j \in 1..Len(q) : q[j].status \in {"waiting", "converting"} <=> ~(j <= g)
      BY <2>2 DEF GrantedFirst
    <3> QED
      BY <2>3, <3>1
  <2>6. g < Len(q) /\ i = g + 1
    <3> HIDE DEF I
    <3>1. g < Len(q)
      BY <2>3, <2>4, <2>5
    <3>2. g + 1 \in I /\ \A j \in I : g + 1 <= j
      BY <2>3, <2>5, <3>1
    <3>3. \A j \in I : (\A k \in I : j <= k) => j = g + 1
      BY <2>3, <2>5, <3>2
    <3>4. Min(I) = g + 1
      BY <3>2, <3>3 DEF Min
    <3> QED
      BY <2>4, <3>1, <3>4
  <2>7. lock[n].waiting /\ ~lock_compat(q[g + 1].mode, GroupMode(q, 1..g))
    BY <2>1, <2>2, <2>6 DEF HeaderInv
  <2>8. {j \in Granted(n) : q[j].tran # q[i].tran} = 1..g
    <3>1. \A j \in 1..g : q[j].tran # q[i].tran
      BY <2>1, <2>3, <2>6 DEF OneEach
    <3> QED
      BY <2>2, <3>1
  <2> QED
    BY <2>1, <2>6, <2>7, <2>8
<1> QED
  BY <1>1, Invariance, PTL

\* The assertion of the re-request path (dbe6lmgr.c:1188, RerequestFindsGranted)
\* holds as long as nobody asks for a conversion: the run LockMgr_rerequest shows
\* that it fails when somebody does.
THEOREM RerequestGranted == ~Conversions => (Spec => []RerequestFindsGranted)
<1> SUFFICES ASSUME ~Conversions
             PROVE  Spec => []RerequestFindsGranted
  OBVIOUS
<1>1. LockInv => RerequestFindsGranted
  <2> SUFFICES ASSUME LockInv, NEW t \in Tran, NEW n \in Name, Running(t),
                      FirstOf(lock[n].queue, t) # 0
               PROVE  lock[n].queue[FirstOf(lock[n].queue, t)].status = "granted"
    BY DEF RerequestFindsGranted
  <2>1. PICK q : q = lock[n].queue
    OBVIOUS
  <2>2. Has(q, t)
    BY <2>1 DEF Has
  <2>3. Own(q, t) \in LastingType /\ Own(q, t) = q[FirstOf(q, t)]
    BY <2>1, <2>2, RequestAt
  <2>4. ltWait[t] # n
    BY NoneAssumption DEF Running
  <2>5. Own(q, t).status # "waiting"
    BY <2>1, <2>2, <2>4, StateAt DEF WaitPart
  <2> QED
    BY <2>1, <2>3, <2>5, LastingFields
<1> QED
  BY <1>1, Invariance, PTL
=============================================================================
