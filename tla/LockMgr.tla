------------------------------ MODULE LockMgr ------------------------------
(***************************************************************************)
(* The lock manager of the database engine, src/dbe/dbe6lmgr.c, and the    *)
(* way its callers wait, retry and release (src/dbe/dbe0trut.c,            *)
(* src/res/rs0sysi.c, src/tab/tab0srv.c).                                  *)
(*                                                                         *)
(* A lock is a FIFO queue of requests with a cached mode of the granted    *)
(* group and a "somebody waits" flag.  The split mutex of the code makes   *)
(* one call on one name atomic; unlockall takes one mutex after another,   *)
(* so it is a sequence of steps here, one name a step.                     *)
(*                                                                         *)
(* `claim' is a history variable: what the manager has answered LOCK_OK to *)
(* and the client has not released since, oldest first.  No action reads   *)
(* it except to keep unlock_shared paired with a lock, as its callers do:  *)
(* it gives back the newest one (dd_readrelh, src/tab/tab1dd.c).           *)
(***************************************************************************)
EXTENDS Naturals, Sequences, FiniteSets, SequencesExt

CONSTANTS
  Tran,            \* dbe_locktran_t objects: one per connection
  Name,            \* (relid, name) pairs that have a lock head
  Modes,           \* lock modes the clients ask for
  Classes,         \* durations they ask for: LOCK_LONG, LOCK_VERY_LONG
  MaxCount,        \* bound on lr_count
  MaxQueue,        \* bound on the length of one queue
  Conversions,     \* do clients ask for a stronger mode than they hold?
  Timeouts,        \* can a wait end by timeout or a request be denied?
  FailOnTimeout,   \* does a timeout fail the transaction (row locks do)?
  None

LOCK_FREE == 0
LOCK_IS   == 1
LOCK_IX   == 2
LOCK_S    == 3
LOCK_SIX  == 4
LOCK_U    == 5
LOCK_X    == 6
LockMode  == 0..6

LOCK_INSTANT   == 0
LOCK_LONG      == 3
LOCK_VERY_LONG == 4

\* No caller asks for another mode (dbe4srch.c:214, dbe0trut.c, dbe4tupl.c).
ASSUME ModesAssumption   == Modes \subseteq {LOCK_S, LOCK_U, LOCK_X}
ASSUME ClassesAssumption == Classes \subseteq {LOCK_LONG, LOCK_VERY_LONG}
ASSUME NoneAssumption    == None \notin Tran /\ None \notin Name
ASSUME BoundsAssumption  == MaxCount \in Nat \ {0} /\ MaxQueue \in Nat \ {0}
ASSUME FlagsAssumption   == {Conversions, Timeouts, FailOnTimeout} \subseteq BOOLEAN

\* The conversion matrix: rows are requested modes, columns granted ones.
lock_max(req, granted) ==
  << << 0, 1, 2, 3, 4, 5, 6 >>,
     << 1, 1, 2, 3, 4, 5, 6 >>,
     << 2, 2, 2, 4, 4, 6, 6 >>,
     << 3, 3, 4, 3, 4, 5, 6 >>,
     << 4, 4, 4, 4, 4, 4, 6 >>,
     << 5, 5, 6, 5, 4, 5, 6 >>,
     << 6, 6, 6, 6, 6, 6, 6 >> >>[req + 1][granted + 1]

\* The granted modes a request of each mode may join.
lock_compat(req, granted) ==
  granted \in << {LOCK_FREE, LOCK_IS, LOCK_IX, LOCK_S, LOCK_SIX},
                 {LOCK_FREE, LOCK_IS, LOCK_IX},
                 {LOCK_FREE, LOCK_IS, LOCK_S},
                 {LOCK_FREE, LOCK_IS},
                 {LOCK_FREE, LOCK_S},
                 {LOCK_FREE} >>[req]

VARIABLES
  lock,       \* lock[n]: queue, mode of the granted group, waiting flag
  ltWait,     \* ltWait[t]: the name whose newest request of t is waited for
  asleep,     \* the task of t is inside SsMesRequest
  mes,        \* a wakeup message for t is pending
  releasing,  \* what is left of an unlockall of t: class and names
  failed,     \* the transaction of t has trx_errcode set
  claim       \* history: the unreleased LOCK_OKs, with mode and class

vars == <<lock, ltWait, asleep, mes, releasing, failed, claim>>

NoClaim   == << >>
Idle      == [class |-> LOCK_INSTANT, names |-> {}]
FreeLock  == [queue |-> << >>, granted |-> LOCK_FREE, waiting |-> FALSE]

Request(t, s, m, c) ==
  [tran |-> t, status |-> s, mode |-> m, class |-> c, count |-> 1]

Status == {"granted", "converting", "waiting", "denied"}

FirstOf(q, t) == SelectInSeq(q, LAMBDA r : r.tran = t)
LastOf(q, t)  == SelectLastInSeq(q, LAMBDA r : r.tran = t)
AnyHeld(t)    == \E n \in Name : FirstOf(lock[n].queue, t) # 0

\* lock_max over the requests I of q.  The modes clients ask for form a chain,
\* so it is the one in I that lock_max leaves as it is.
GroupMode(q, I) ==
  IF I = {} THEN LOCK_FREE
  ELSE CHOOSE m \in {q[i].mode : i \in I} : \A i \in I : lock_max(q[i].mode, m) = m

(***************************************************************************)
(* The tail of lmgr_unlock: recompute the granted group from the leading   *)
(* granted requests, then walk the queue and grant what has become         *)
(* compatible, up to the first request that has to wait.  When the walk is *)
(* at i, every pending request before i has been granted.                  *)
(***************************************************************************)
Pending == {"waiting", "converting"}

\* The granted group when the walk is at i: the leading granted requests and
\* what the walk has granted.
GroupAt(q, i) ==
  {j \in 1..(i - 1) :
     q[j].status \in Pending \/ \A k \in 1..j : q[k].status = "granted"}

\* What a conversion at i is compared with: the requests before it, up to one
\* that was denied.
BeforeAt(q, i) == {j \in 1..(i - 1) : \A k \in 1..j : q[k].status # "denied"}

\* Mutant of OnlyOwner: the walk remembers the owner of the queue's head.
OnlyOwner_Sticky(q, i) == q[1].tran = q[i].tran

\* `first': no request up to i is another transaction's.
OnlyOwner(q, i) == \A j \in 1..i : q[j].tran = q[i].tran

Blocks(q, i) ==
  /\ q[i].status \in Pending
  /\ ~OnlyOwner(q, i)
  /\ ~lock_compat(q[i].mode,
        GroupMode(q, IF q[i].status = "waiting" THEN GroupAt(q, i) ELSE BeforeAt(q, i)))

Blocked(q) == {i \in DOMAIN q : Blocks(q, i)}
Stop(q)    == IF Blocked(q) = {} THEN Len(q) + 1 ELSE Min(Blocked(q))
Lucky(q)   == {i \in 1..(Stop(q) - 1) : q[i].status \in Pending}

GrantLucky(q) ==
  [i \in DOMAIN q |-> IF i \in Lucky(q) THEN [q[i] EXCEPT !.status = "granted"] ELSE q[i]]

\* Mutants of Wake: the group is not recomputed; lh_waiting is not set again;
\* only the first of the granted waiters is sent a message.
Wake_NoGroup(q) ==
  [lock  |-> [queue |-> GrantLucky(q), granted |-> LOCK_FREE, waiting |-> Blocked(q) # {}],
   woken |-> {q[i].tran : i \in Lucky(q)}]
Wake_NoFlag(q) ==
  [lock  |-> [queue |-> GrantLucky(q), granted |-> GroupMode(q, GroupAt(q, Stop(q))),
              waiting |-> FALSE],
   woken |-> {q[i].tran : i \in Lucky(q)}]
Wake_OneMessage(q) ==
  [lock  |-> [queue |-> GrantLucky(q), granted |-> GroupMode(q, GroupAt(q, Stop(q))),
              waiting |-> Blocked(q) # {}],
   woken |-> IF Lucky(q) = {} THEN {} ELSE {q[Min(Lucky(q))].tran}]

Wake(q) ==
  [lock  |-> [queue |-> GrantLucky(q), granted |-> GroupMode(q, GroupAt(q, Stop(q))),
              waiting |-> Blocked(q) # {}],
   woken |-> {q[i].tran : i \in Lucky(q)}]

\* Mutant of lmgr_unlock: lr_count is ignored.
lmgr_unlock_NoCount(lk, t) ==
  LET i == FirstOf(lk.queue, t)
  IN  IF i = 0 THEN [lock |-> lk, woken |-> {}]
      ELSE IF Len(lk.queue) = 1 THEN [lock |-> FreeLock, woken |-> {}]
      ELSE Wake(RemoveAt(lk.queue, i))

\* lmgr_unlock on the lock lk: the lock after it and the transactions woken.
lmgr_unlock(lk, t) ==
  LET i == FirstOf(lk.queue, t)
  IN  IF i = 0
      THEN [lock |-> lk, woken |-> {}]
      ELSE IF lk.queue[i].class > LOCK_LONG \/ lk.queue[i].count > 1
      THEN [lock |-> [lk EXCEPT !.queue[i].count = @ - 1], woken |-> {}]
      ELSE IF Len(lk.queue) = 1
      THEN [lock |-> FreeLock, woken |-> {}]
      ELSE Wake(RemoveAt(lk.queue, i))

Instant(lk, i) == [lk EXCEPT !.queue[i].class = LOCK_INSTANT]
\* Mutant of InstantOnce: lr_count is not reset.
InstantOnce_KeepCount(lk, i) == [lk EXCEPT !.queue[i].class = LOCK_INSTANT]

InstantOnce(lk, i) == [lk EXCEPT !.queue[i].class = LOCK_INSTANT,
                                 !.queue[i].count = 1]

\* Mutant of lmgr_unlock_class: the class is not compared.
lmgr_unlock_class_AnyClass(lk, t, class) ==
  lmgr_unlock(InstantOnce(lk, LastOf(lk.queue, t)), t)

(***************************************************************************)
(* lmgr_unlock_class on one name: for each request of t, newest first,     *)
(* mark it and call lmgr_unlock, which acts on the oldest.  A request the  *)
(* walk reaches after it was freed sits unchanged on the free list, so its *)
(* class is the one it had.                                                *)
(***************************************************************************)
lmgr_unlock_class(lk, t, class) ==
  LET q == lk.queue
      step(p, s) ==
        LET freed  == Len(q) - Len(s.lock.queue)
            marked == IF Cardinality({j \in 1..p : q[j].tran = t}) > freed
                      THEN InstantOnce(s.lock, p - freed) ELSE s.lock
            u      == lmgr_unlock(marked, t)
        IN  [lock |-> u.lock, woken |-> s.woken \cup u.woken]
      walk[p \in 1..(Len(q) + 1)] ==
        IF p > Len(q) THEN [lock |-> lk, woken |-> {}]
        ELSE IF q[p].tran # t \/ q[p].class > class THEN walk[p + 1]
        ELSE step(p, walk[p + 1])
  IN  walk[1]

-----------------------------------------------------------------------------
Init ==
  /\ lock = [n \in Name |-> FreeLock]
  /\ ltWait = [t \in Tran |-> None]
  /\ asleep = [t \in Tran |-> FALSE]
  /\ mes = [t \in Tran |-> FALSE]
  /\ releasing = [t \in Tran |-> Idle]
  /\ failed = [t \in Tran |-> FALSE]
  /\ claim = [t \in Tran |-> [n \in Name |-> NoClaim]]

Running(t) == ltWait[t] = None /\ releasing[t].names = {}

SetLock(n, lk) == lock' = [lock EXCEPT ![n] = lk]
SendWakeups(S) == mes' = [t \in Tran |-> mes[t] \/ t \in S]

MaxOf(a, b) == IF a >= b THEN a ELSE b

\* The history of a LOCK_OK for mode m and class c.
Told(m, c) == [mode |-> m, class |-> c]
Acknowledge(t, n, m, c) ==
  claim' = [claim EXCEPT ![t][n] = Append(@, Told(m, c))]

\* The history k without what an unlockall of a class releases.  What is
\* released keeps its place as long as anything is left.
Ended == [mode |-> LOCK_FREE, class |-> LOCK_INSTANT]
Remaining(k, class) ==
  IF \A i \in DOMAIN k : k[i].class <= class THEN NoClaim
  ELSE [i \in DOMAIN k |-> IF k[i].class <= class THEN Ended ELSE k[i]]

Fail(t) == failed' = [failed EXCEPT ![t] = @ \/ FailOnTimeout]

\* LOCK_WAIT: the task goes to sleep on its message semaphore.
StartLockWait(t, n) ==
  /\ ltWait' = [ltWait EXCEPT ![t] = n]
  /\ asleep' = [asleep EXCEPT ![t] = TRUE]

\* lmgr_lock, the name is not in the hash table.
LockFree(t, n, m, c) ==
  /\ lock[n].queue = << >>
  /\ SetLock(n, [queue |-> <<Request(t, "granted", m, c)>>,
                 granted |-> m, waiting |-> FALSE])
  /\ Acknowledge(t, n, m, c)
  /\ UNCHANGED <<ltWait, asleep, mes, releasing, failed>>

\* A first request of t on a lock that others hold.
IsNew(t, n) == lock[n].queue # << >> /\ FirstOf(lock[n].queue, t) = 0

\* Mutant of CanJoin: newcomers overtake waiters.
CanJoin_Barging(n, m) == lock_compat(m, lock[n].granted)

CanJoin(n, m) == ~lock[n].waiting /\ lock_compat(m, lock[n].granted)

LockNew(t, n, m, c) ==
  /\ IsNew(t, n)
  /\ CanJoin(n, m)
  /\ SetLock(n, [lock[n] EXCEPT !.queue = Append(@, Request(t, "granted", m, c)),
                                !.granted = lock_max(m, @)])
  /\ Acknowledge(t, n, m, c)
  /\ UNCHANGED <<ltWait, asleep, mes, releasing, failed>>

LockNewWait(t, n, m, c) ==
  /\ IsNew(t, n)
  /\ ~CanJoin(n, m)
  /\ SetLock(n, [lock[n] EXCEPT !.queue = Append(@, Request(t, "waiting", m, c)),
                                !.waiting = TRUE])
  /\ StartLockWait(t, n)
  /\ UNCHANGED <<mes, releasing, failed, claim>>

\* A denied request: it is queued, marked and handed to lmgr_unlock.
Deny(t, n, lk) ==
  /\ LET u == lmgr_unlock(lk, t)
     IN  SetLock(n, u.lock) /\ SendWakeups(u.woken)
  /\ Fail(t)

LockNewDenied(t, n, m, c) ==
  /\ Timeouts
  /\ IsNew(t, n)
  /\ ~CanJoin(n, m)
  /\ Deny(t, n, [lock[n] EXCEPT !.queue = Append(@, Request(t, "denied", m, LOCK_INSTANT))])
  /\ UNCHANGED <<ltWait, asleep, releasing, claim>>

\* A re-request: `mode <= req->lr_mode', compared as numbers.
LockAgain(t, n, m, c) ==
  LET i == FirstOf(lock[n].queue, t)
  IN  /\ i # 0
      /\ m <= lock[n].queue[i].mode
      /\ lock[n].queue[i].count < MaxCount
      /\ Len(claim[t][n]) < MaxCount
      /\ SetLock(n, [lock[n] EXCEPT !.queue[i].class = MaxOf(c, @),
                                    !.queue[i].count = @ + 1])
      /\ Acknowledge(t, n, m, c)
      /\ UNCHANGED <<ltWait, asleep, mes, releasing, failed>>

\* The mode of what the others hold or wait to convert to.
OthersMode(q, t) ==
  GroupMode(q, {j \in DOMAIN q :
    q[j].tran # t /\ \A k \in 1..j : q[k].tran = t \/ q[k].status \in {"granted", "converting"}})

IsConversion(t, n, m) ==
  LET i == FirstOf(lock[n].queue, t)
  IN  Conversions /\ i # 0 /\ m > lock[n].queue[i].mode

Upgraded(t, n, m) == lock_max(m, lock[n].queue[FirstOf(lock[n].queue, t)].mode)

CanUpgrade(t, n, m) == lock_compat(Upgraded(t, n, m), OthersMode(lock[n].queue, t))

LockUpgrade(t, n, m, c) ==
  LET i == FirstOf(lock[n].queue, t)
      u == Upgraded(t, n, m)
  IN  /\ IsConversion(t, n, m)
      /\ CanUpgrade(t, n, m)
      /\ lock[n].queue[i].count < MaxCount
      /\ Len(claim[t][n]) < MaxCount
      /\ SetLock(n, [lock[n] EXCEPT !.queue[i].class = MaxOf(c, @),
                                    !.queue[i].count = @ + 1,
                                    !.queue[i].status = "granted",
                                    !.queue[i].mode = u,
                                    !.granted = lock_max(u, @)])
      /\ Acknowledge(t, n, m, c)
      /\ UNCHANGED <<ltWait, asleep, mes, releasing, failed>>

LockConvertWait(t, n, m, c) ==
  /\ IsConversion(t, n, m)
  /\ ~CanUpgrade(t, n, m)
  /\ Len(lock[n].queue) < MaxQueue
  /\ SetLock(n, [lock[n] EXCEPT !.queue = Append(@, Request(t, "converting", m, c)),
                                !.waiting = TRUE])
  /\ StartLockWait(t, n)
  /\ UNCHANGED <<mes, releasing, failed, claim>>

LockConvertDenied(t, n, m, c) ==
  /\ Timeouts
  /\ IsConversion(t, n, m)
  /\ ~CanUpgrade(t, n, m)
  /\ Len(lock[n].queue) < MaxQueue
  /\ Deny(t, n, [lock[n] EXCEPT !.queue = Append(@, Request(t, "denied", m, LOCK_INSTANT))])
  /\ UNCHANGED <<ltWait, asleep, releasing, claim>>

\* dbe_lockmgr_lock and dbe_lockmgr_lock_long; dbe_trx_lock answers LOCK_OK
\* without a call once the transaction has failed.
Lock(t) ==
  /\ Running(t)
  /\ ~failed[t]
  /\ \E n \in Name, m \in Modes, c \in Classes :
       \/ LockFree(t, n, m, c)
       \/ LockNew(t, n, m, c)
       \/ LockNewWait(t, n, m, c)
       \/ LockNewDenied(t, n, m, c)
       \/ LockAgain(t, n, m, c)
       \/ LockUpgrade(t, n, m, c)
       \/ LockConvertWait(t, n, m, c)
       \/ LockConvertDenied(t, n, m, c)

-----------------------------------------------------------------------------
\* srv_lockwait returns: a message, possibly a stale one, or the timeout.
MessageWakeup(t) ==
  /\ asleep[t] /\ mes[t]
  /\ asleep' = [asleep EXCEPT ![t] = FALSE]
  /\ mes' = [mes EXCEPT ![t] = FALSE]
  /\ UNCHANGED <<lock, ltWait, releasing, failed, claim>>

WaitTimeout(t) ==
  /\ Timeouts
  /\ asleep[t]
  /\ asleep' = [asleep EXCEPT ![t] = FALSE]
  /\ UNCHANGED <<lock, ltWait, mes, releasing, failed, claim>>

Retrying(t) == ltWait[t] # None /\ ~asleep[t] /\ releasing[t].names = {}
Waited(t) == lock[ltWait[t]].queue[LastOf(lock[ltWait[t]].queue, t)]

\* The operation is repeated and lmgr_lock finds lt_wait set.
RetryGranted(t) ==
  /\ Retrying(t)
  /\ Waited(t).status = "granted"
  /\ ltWait' = [ltWait EXCEPT ![t] = None]
  /\ Acknowledge(t, ltWait[t], Waited(t).mode, Waited(t).class)
  /\ UNCHANGED <<lock, asleep, mes, releasing, failed>>

RetryWait(t) ==
  /\ Retrying(t)
  /\ Waited(t).status \in {"waiting", "converting"}
  /\ asleep' = [asleep EXCEPT ![t] = TRUE]
  /\ UNCHANGED <<lock, ltWait, mes, releasing, failed, claim>>

RetryTimeout(t) ==
  /\ Timeouts
  /\ Retrying(t)
  /\ Waited(t).status \in {"waiting", "converting"}
  /\ LET n  == ltWait[t]
         i  == LastOf(lock[n].queue, t)
         lk == Instant(lock[n], i)
     IN  Deny(t, n, IF Waited(t).status = "converting"
                    THEN [lk EXCEPT !.queue[i].status = "denied"] ELSE lk)
  /\ ltWait' = [ltWait EXCEPT ![t] = None]
  /\ UNCHANGED <<asleep, releasing, claim>>

-----------------------------------------------------------------------------
\* dbe_lockmgr_unlock, through dbe_trx_unlock and dbe_trx_unlockbyname.
Unlock(t, n) ==
  /\ Running(t)
  /\ ~failed[t]
  /\ FirstOf(lock[n].queue, t) # 0
  /\ LET u == lmgr_unlock(InstantOnce(lock[n], LastOf(lock[n].queue, t)), t)
     IN  SetLock(n, u.lock) /\ SendWakeups(u.woken)
  /\ claim' = [claim EXCEPT ![t][n] = NoClaim]
  /\ UNCHANGED <<ltWait, asleep, releasing, failed>>

\* dbe_lockmgr_unlock_shared, through dbe_trx_unlockrelid: undoes one lock.
UnlockShared(t, n) ==
  /\ Running(t)
  /\ claim[t][n] # NoClaim
  /\ FirstOf(lock[n].queue, t) # 0
  /\ LET u == lmgr_unlock(lock[n], t)
     IN  SetLock(n, u.lock) /\ SendWakeups(u.woken)
  /\ claim' = [claim EXCEPT ![t][n] = Front(@)]
  /\ UNCHANGED <<ltWait, asleep, releasing, failed>>

\* dbe_lockmgr_unlockall (the end of a transaction) and unlockall_long.  A row
\* wait may be abandoned, when the transaction was failed meanwhile and
\* dbe_trx_lock no longer asks; the wait of lock_long is repeated to its end.
UnlockAllBegin(t, class) ==
  /\ releasing[t].names = {}
  /\ ~asleep[t]
  /\ ltWait[t] # None => Waited(t).class <= class
  /\ AnyHeld(t)
  /\ releasing' = [releasing EXCEPT ![t] =
       [class |-> class, names |-> {n \in Name : FirstOf(lock[n].queue, t) # 0}]]
  /\ UNCHANGED <<lock, ltWait, asleep, mes, failed, claim>>

\* A failed transaction that holds nothing ends: no mutex is taken.
EndFailed(t) ==
  /\ failed[t] /\ ~AnyHeld(t)
  /\ failed' = [failed EXCEPT ![t] = FALSE]
  /\ UNCHANGED <<lock, ltWait, asleep, mes, releasing, claim>>

\* One mutex of lmgr_unlock_class; the last one also ends the call.
UnlockAllStep(t, n) ==
  /\ n \in releasing[t].names
  /\ \E u \in {lmgr_unlock_class(lock[n], t, releasing[t].class)} :
     LET left == releasing[t].names \ {n}
     IN  /\ SetLock(n, u.lock)
         /\ SendWakeups(u.woken)
         /\ releasing' = [releasing EXCEPT ![t] =
                            IF left = {} THEN Idle ELSE [@ EXCEPT !.names = left]]
         /\ ltWait' = [ltWait EXCEPT ![t] = IF left = {} THEN None ELSE @]
         /\ failed' = [failed EXCEPT ![t] = IF left = {} THEN FALSE ELSE @]
  /\ claim' = [claim EXCEPT ![t][n] = Remaining(@, releasing[t].class)]
  /\ UNCHANGED asleep

Next ==
  \E t \in Tran :
    \/ Lock(t)
    \/ MessageWakeup(t)
    \/ WaitTimeout(t)
    \/ RetryGranted(t)
    \/ RetryWait(t)
    \/ RetryTimeout(t)
    \/ EndFailed(t)
    \/ \E n \in Name : Unlock(t, n) \/ UnlockShared(t, n) \/ UnlockAllStep(t, n)
    \/ \E class \in Classes : UnlockAllBegin(t, class)

Spec == Init /\ [][Next]_vars

(***************************************************************************)
(* Fairness: a task runs when it can, and every transaction that is not    *)
(* waiting ends some time.  Nothing is assumed of a transaction that       *)
(* waits: it is the manager that has to let it go on.                      *)
(***************************************************************************)
EndTransaction(t) == Running(t) /\ \E class \in Classes : UnlockAllBegin(t, class)

\* WF_vars(\E n \in Name : UnlockAllStep(t, n)), its ENABLED written out.
ReleaseFairness(t) ==
  \/ []<>(releasing[t].names = {})
  \/ []<><<\E n \in Name : UnlockAllStep(t, n)>>_vars

Fairness ==
  \A t \in Tran :
    /\ WF_vars(MessageWakeup(t))
    /\ WF_vars(RetryGranted(t) \/ RetryWait(t))
    /\ WF_vars(EndTransaction(t))
    /\ ReleaseFairness(t)

FairSpec == Spec /\ Fairness

-----------------------------------------------------------------------------
RequestType ==
  [tran : Tran, status : Status, mode : LockMode,
   class : {LOCK_INSTANT, LOCK_LONG, LOCK_VERY_LONG}, count : 0..MaxCount]

\* Type correctness of the lock table and of the client-side state.
TypeOK ==
  /\ \A n \in Name :
       /\ lock[n].queue \in Seq(RequestType)
       /\ lock[n].granted \in LockMode
       /\ lock[n].waiting \in BOOLEAN
       /\ lock[n].queue = << >> <=> lock[n].granted = LOCK_FREE
  /\ ltWait \in [Tran -> Name \cup {None}]
  /\ asleep \in [Tran -> BOOLEAN]
  /\ mes \in [Tran -> BOOLEAN]
  /\ failed \in [Tran -> BOOLEAN]
  /\ \A t \in Tran : releasing[t].names \subseteq Name

Granted(n) == {i \in DOMAIN lock[n].queue : lock[n].queue[i].status = "granted"}
Held(t, n) == {i \in DOMAIN lock[n].queue :
                 lock[n].queue[i].tran = t /\ lock[n].queue[i].status = "granted"}
Claimed(t, n) == {claim[t][n][i].mode : i \in DOMAIN claim[t][n]} \ {LOCK_FREE}

(***************************************************************************)
(* Two transactions that were both told LOCK_OK for a name, and have not   *)
(* released it, were told so for modes that can be held together: the      *)
(* isolation every caller of lmgr_lock relies on.                          *)
(***************************************************************************)
ClaimsCompatible ==
  \A n \in Name : \A t1, t2 \in Tran :
    \A a \in Claimed(t1, n), b \in Claimed(t2, n) :
      t1 # t2 => lock_compat(a, b) \/ lock_compat(b, a)

(***************************************************************************)
(* What a transaction was told it has, it has: a granted request of its    *)
(* own, at least as strong, is still in the queue, whatever timeouts,      *)
(* conversions and releases of others came in between.                     *)
(***************************************************************************)
ClaimCovered ==
  \A n \in Name : \A t \in Tran : \A m \in Claimed(t, n) :
    \E i \in Held(t, n) : lock_max(m, lock[n].queue[i].mode) = lock[n].queue[i].mode

(***************************************************************************)
(* A request in a queue belongs to a transaction that waits for it, holds  *)
(* it or keeps it for the very long class: what dbe_locktran_done asserts  *)
(* (nothing is left when the connection goes) at every moment of its life. *)
(***************************************************************************)
NoOrphans ==
  \A n \in Name : \A i \in DOMAIN lock[n].queue :
    LET r == lock[n].queue[i]
    IN  \/ ltWait[r.tran] = n
        \/ Claimed(r.tran, n) # {}
        \/ r.class = LOCK_VERY_LONG

\* lh_granted_mode is "the mode of the granted group" (struct lock_head_st).
GrantedModeExact ==
  \A n \in Name : lock[n].granted = GroupMode(lock[n].queue, Granted(n))

(***************************************************************************)
(* A waiter is never left waiting by an unlock that could have granted it: *)
(* the first request that is not granted conflicts with what the others    *)
(* hold, and while there is one newcomers are told to queue (lh_waiting).  *)
(***************************************************************************)
NoStuckWaiter ==
  \A n \in Name :
    LET q == lock[n].queue
        i == SelectInSeq(q, LAMBDA r : r.status \in {"waiting", "converting"})
    IN  i # 0 =>
          /\ lock[n].waiting
          /\ ~lock_compat(q[i].mode,
                GroupMode(q, {j \in Granted(n) : q[j].tran # q[i].tran}))

\* FIFO: nobody holds the lock from behind somebody who waits for it.
NoOvertaking ==
  \A n \in Name : \A i, j \in DOMAIN lock[n].queue :
    i < j /\ lock[n].queue[i].status = "waiting"
      => lock[n].queue[j].status # "granted"

\* Every wait for a lock ends, without timeouts, when transactions end.
WaitEnds == \A t \in Tran : ltWait[t] # None ~> ltWait[t] = None

(***************************************************************************)
(* The assertion of the re-request path (dbe6lmgr.c:1188): the request it  *)
(* finds, the first of the transaction in the queue, is granted.           *)
(***************************************************************************)
RerequestFindsGranted ==
  \A t \in Tran, n \in Name :
    Running(t) /\ ~failed[t] /\ FirstOf(lock[n].queue, t) # 0
      => lock[n].queue[FirstOf(lock[n].queue, t)].status = "granted"

\* "Unlocks all objects in the list locktran" (dbe_lockmgr_unlockall).
UnlockAllUnlocks ==
  [][\A t \in Tran, n \in Name :
       UnlockAllStep(t, n) /\ releasing[t].class = LOCK_LONG
         => \A i \in DOMAIN lock'[n].queue :
              lock'[n].queue[i].tran = t => lock'[n].queue[i].class > LOCK_LONG]_vars
=============================================================================
