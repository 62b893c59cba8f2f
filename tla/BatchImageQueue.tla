--------------------------- MODULE BatchImageQueue ---------------------------
(* The Redis queue of batch image jobs (repository/batch_image_queue.go)    *)
(* and the loop every worker runs over it (service/batch_image_worker.go).  *)
(* What a worker does with a job is left open here: BatchImagePipeline      *)
(* fills it in.                                                             *)
(*                                                                          *)
(* Each script and each MULTI pipeline is one action.  Time is abstract: a  *)
(* delayed job may become due at any moment, and what a dead process left   *)
(* behind may expire at any moment.  The two beats of a live worker's       *)
(* heartbeat are separate calls: a job of LateBeats may look stale in the   *)
(* active set although its worker lives, the lock of one of MayLapse may    *)
(* expire.                                                                  *)
EXTENDS BatchImageJob, Naturals, Sequences, FiniteSets

CONSTANTS Workers,
          LateBeats,    \* jobs whose Heartbeat may be late for StaleActiveAfter
          MayLapse,     \* jobs whose lock's Refresh may be late for its TTL
          RedisErrors,  \* TRUE: a Redis call of a worker may fail or lose its reply
          MaxCrashes,   \* bound: number of worker processes that die
          ReadyBound    \* bound: length of the ready list that late beats may pile up

CONSTANTS NoJob, NoLock, Orphan

ASSUME QueueAssumption ==
    /\ NoJob \notin Jobs
    /\ NoLock \notin Workers /\ Orphan \notin Workers /\ NoLock # Orphan
    /\ LateBeats \subseteq Jobs /\ MayLapse \subseteq Jobs
    /\ RedisErrors \in BOOLEAN
    /\ MaxCrashes \in Nat /\ ReadyBound \in Nat

VARIABLES ready,        \* list: LPUSH puts at the head, RPOP takes the last
          delayed,      \* zset of jobs waiting for their due time
          active,       \* zset of jobs handed to a worker
          inflight,     \* jobs whose de-duplication key exists
          lock,         \* job lock: the worker whose token it holds, Orphan, or NoLock
          wpc,          \* where each worker is in RunOnce
          wjob,         \* the job it has reserved
          crashes

queueVars == <<ready, delayed, active, inflight, lock, wpc, wjob, crashes>>
redisVars == <<ready, delayed, active, inflight>>

InReady(j) == \E i \in DOMAIN ready : ready[i] = j

QueueInit ==
    /\ ready = <<>>
    /\ delayed = {}
    /\ active = {}
    /\ inflight = {}
    /\ lock = [j \in Jobs |-> NoLock]
    /\ wpc = [w \in Workers |-> "idle"]
    /\ wjob = [w \in Workers |-> NoJob]
    /\ crashes = 0

-----------------------------------------------------------------------------
(* Calls of the producers and of the maintenance loops.                      *)

\* SET NX of the inflight key and LPUSH; an inflight job is AlreadyQueued.
Enqueue(j) ==
    /\ inflight' = inflight \union {j}
    /\ ready' = IF j \in inflight THEN ready ELSE <<j>> \o ready
    /\ UNCHANGED <<delayed, active, lock, wpc, wjob, crashes>>

MoveDueDelayedToReady(j) ==
    /\ j \in delayed
    /\ delayed' = delayed \ {j}
    /\ ready' = <<j>> \o ready
    /\ UNCHANGED <<active, inflight, lock, wpc, wjob, crashes>>

\* An active entry is stale once nobody refreshes its score.
Stale(j) == j \in LateBeats \/ \A w \in Workers : wjob[w] # j

\* Wrong variants: a job still in use is recovered, or is dropped on the way.
RecoverUnchecked(j) ==
    /\ j \in active
    /\ active' = active \ {j}
    /\ ready' = <<j>> \o ready
    /\ UNCHANGED <<delayed, inflight, lock, wpc, wjob, crashes>>

RecoverDrops(j) ==
    /\ j \in active /\ Stale(j)
    /\ active' = active \ {j}
    /\ UNCHANGED <<ready, delayed, inflight, lock, wpc, wjob, crashes>>

RecoverStaleActive(j) ==
    /\ j \in active
    /\ Stale(j)
    /\ j \in LateBeats => Len(ready) < ReadyBound
    /\ active' = active \ {j}
    /\ ready' = <<j>> \o ready
    /\ UNCHANGED <<delayed, inflight, lock, wpc, wjob, crashes>>

LockExpires(j) ==
    /\ lock[j] # NoLock
    /\ lock[j] = Orphan \/ j \in MayLapse
    /\ lock' = [lock EXCEPT ![j] = NoLock]
    /\ UNCHANGED <<redisVars, wpc, wjob, crashes>>

-----------------------------------------------------------------------------
(* RunOnce of worker w.                                                      *)

Goto(w, pc) == wpc' = [wpc EXCEPT ![w] = pc]

\* A wrong variant: RPOP without ZADD.
ReserveUntracked(w) ==
    /\ wpc[w] = "idle" /\ ready # <<>>
    /\ ready' = SubSeq(ready, 1, Len(ready) - 1)
    /\ wjob' = [wjob EXCEPT ![w] = ready[Len(ready)]]
    /\ Goto(w, "reserved")
    /\ UNCHANGED <<delayed, active, inflight, lock, crashes>>

\* RPOP and ZADD active in one script.
Reserve(w) ==
    /\ wpc[w] = "idle"
    /\ ready # <<>>
    /\ LET j == ready[Len(ready)] IN
         /\ ready' = SubSeq(ready, 1, Len(ready) - 1)
         /\ active' = active \union {j}
         /\ wjob' = [wjob EXCEPT ![w] = j]
    /\ Goto(w, "reserved")
    /\ UNCHANGED <<delayed, inflight, lock, crashes>>

\* A wrong variant: SET without NX.
AcquireWithoutNX(w) ==
    /\ wpc[w] = "reserved"
    /\ lock' = [lock EXCEPT ![wjob[w]] = w]
    /\ Goto(w, "processing")
    /\ UNCHANGED <<redisVars, wjob, crashes>>

TryAcquireJobLock(w) ==
    /\ wpc[w] = "reserved"
    /\ \/ /\ lock[wjob[w]] = NoLock
          /\ lock' = [lock EXCEPT ![wjob[w]] = w]
          /\ Goto(w, "processing")
       \/ /\ lock[wjob[w]] # NoLock \/ RedisErrors
          /\ Goto(w, "conflict")
          /\ UNCHANGED lock
       \/ /\ RedisErrors                \* SETNX applied, its reply lost
          /\ lock[wjob[w]] = NoLock
          /\ lock' = [lock EXCEPT ![wjob[w]] = Orphan]
          /\ Goto(w, "conflict")
    /\ UNCHANGED <<redisVars, wjob, crashes>>

\* The processor returned; the heartbeat is stopped before the queue is told.
Finish(w, result) ==
    /\ wpc[w] = "processing"
    /\ Goto(w, result)
    /\ UNCHANGED <<redisVars, lock, wjob, crashes>>

AfterQueueCall(w) ==
    IF wpc[w] = "conflict"
    THEN Goto(w, "idle") /\ wjob' = [wjob EXCEPT ![w] = NoJob]
    ELSE Goto(w, "unlock") /\ UNCHANGED wjob

RequeueAfter(w) ==
    /\ wpc[w] \in {"conflict", "requeue"}
    /\ \/ /\ active' = active \ {wjob[w]}
          /\ delayed' = delayed \union {wjob[w]}
       \/ /\ RedisErrors
          /\ UNCHANGED <<active, delayed>>
    /\ AfterQueueCall(w)
    /\ UNCHANGED <<ready, inflight, lock, crashes>>

Ack(w) ==
    /\ wpc[w] = "ack"
    /\ \/ /\ active' = active \ {wjob[w]}
          /\ delayed' = delayed \ {wjob[w]}
          /\ inflight' = inflight \ {wjob[w]}
       \/ /\ RedisErrors
          /\ UNCHANGED <<active, delayed, inflight>>
    /\ AfterQueueCall(w)
    /\ UNCHANGED <<ready, lock, crashes>>

\* Wrong variants: the key is deleted whoever's token it holds; the reservation is
\* forgotten on the way out.
ReleaseBlind(w) ==
    /\ wpc[w] = "unlock"
    /\ lock' = [lock EXCEPT ![wjob[w]] = NoLock]
    /\ Goto(w, "idle")
    /\ wjob' = [wjob EXCEPT ![w] = NoJob]
    /\ UNCHANGED <<redisVars, crashes>>

\* Compare the token, then delete: never someone else's lock.  RunOnce drops
\* the error of a failed call: the token stays until it expires, or until a
\* script that was only delayed deletes it.
ReleaseLock(w) ==
    /\ wpc[w] = "unlock"
    /\ \E left \in {NoLock} \union (IF RedisErrors THEN {Orphan} ELSE {}) :
         lock' = IF lock[wjob[w]] = w THEN [lock EXCEPT ![wjob[w]] = left] ELSE lock
    /\ Goto(w, "idle")
    /\ wjob' = [wjob EXCEPT ![w] = NoJob]
    /\ UNCHANGED <<redisVars, crashes>>

\* The process dies: whatever it held in Redis stays there.
WorkerCrash(w) ==
    /\ wpc[w] # "idle"
    /\ crashes < MaxCrashes
    /\ crashes' = crashes + 1
    /\ lock' = IF lock[wjob[w]] = w THEN [lock EXCEPT ![wjob[w]] = Orphan] ELSE lock
    /\ Goto(w, "idle")
    /\ wjob' = [wjob EXCEPT ![w] = NoJob]
    /\ UNCHANGED redisVars

WorkerStep(w) ==
    \/ Reserve(w)
    \/ TryAcquireJobLock(w)
    \/ Finish(w, "ack")
    \/ Finish(w, "requeue")
    \/ RequeueAfter(w)
    \/ Ack(w)
    \/ ReleaseLock(w)

QueueNext ==
    \/ \E j \in Jobs : \/ Enqueue(j)
                       \/ MoveDueDelayedToReady(j)
                       \/ RecoverStaleActive(j)
                       \/ LockExpires(j)
    \/ \E w \in Workers : WorkerStep(w) \/ WorkerCrash(w)

QueueSpec == QueueInit /\ [][QueueNext]_queueVars

(* The maintenance loops poll forever, Redis expires keys, and a worker that  *)
(* is not dead goes on; that Process returns is assumed here.                *)
QueueFairness ==
    /\ \A j \in Jobs : /\ WF_queueVars(MoveDueDelayedToReady(j))
                       /\ WF_queueVars(RecoverStaleActive(j))
                       /\ WF_queueVars(LockExpires(j))
    /\ \A w \in Workers : WF_queueVars(WorkerStep(w))

QueueFairSpec == QueueSpec /\ QueueFairness

-----------------------------------------------------------------------------
WorkerPcs == {"idle", "reserved", "conflict", "processing", "ack", "requeue", "unlock"}
Critical  == {"processing", "ack", "requeue", "unlock"}

QueueTypeOK ==
    /\ ready \in Seq(Jobs)
    /\ delayed \subseteq Jobs
    /\ active \subseteq Jobs
    /\ inflight \subseteq Jobs
    /\ lock \in [Jobs -> Workers \union {Orphan, NoLock}]
    /\ wpc \in [Workers -> WorkerPcs]
    /\ wjob \in [Workers -> Jobs \union {NoJob}]
    /\ \A w \in Workers : wpc[w] = "idle" <=> wjob[w] = NoJob
    /\ crashes \in Nat

(* batch_image_queue.go:61 and :73: a job whose inflight key exists is in     *)
(* some queue structure.  Otherwise the key would block every new Enqueue of *)
(* a job that no worker will ever see (7 days).                              *)
NeverLost == \A j \in inflight : InReady(j) \/ j \in delayed \/ j \in active

(* batch_image_queue.go:47: the lock of a working worker goes only by its own  *)
(* expiry.  In particular a worker whose lock lapsed, and that is late to     *)
(* finish, does not take the lock of the one that has the job by then.       *)
LockIsNeverStolen ==
    [][\A w \in Workers : LET j == wjob[w] IN
          /\ wpc[w] \in Critical /\ wpc'[w] \in Critical
          /\ lock[j] = w /\ lock'[j] # w
          => j \in MayLapse /\ lock'[j] = NoLock /\ UNCHANGED <<wpc, wjob>>]_queueVars

(* Unless the lock of its job may lapse, a worker past TryAcquireJobLock owns *)
(* it, and so two workers never process one job, however often late beats    *)
(* hand it out again.                                                        *)
CriticalOwnsLock ==
    \A w \in Workers :
        wpc[w] \in Critical /\ wjob[w] \notin MayLapse => lock[wjob[w]] = w

OneWorkerPerJob ==
    \A v, w \in Workers :
        /\ wpc[v] \in Critical /\ wpc[w] \in Critical
        /\ wjob[v] = wjob[w] /\ wjob[v] \notin MayLapse
        => v = w

(* A job whose beats are in time is in exactly one place while it is inflight *)
(* and nowhere afterwards: no entry is duplicated or left over, whatever     *)
(* happens to the other jobs.                                                *)
Copies(j) ==
    Cardinality({i \in DOMAIN ready : ready[i] = j})
      + (IF j \in delayed THEN 1 ELSE 0)
      + (IF j \in active THEN 1 ELSE 0)

ExactlyOnePlace ==
    \A j \in Jobs \ LateBeats : Copies(j) = (IF j \in inflight THEN 1 ELSE 0)
=============================================================================
