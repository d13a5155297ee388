------------------------------- MODULE Queue -------------------------------
(***************************************************************************)
(* The delayed, rate-limited, deduplicating work queue of package queue   *)
(* (src/pkg/utils/log/log.go, lines 61-504).                              *)
(*                                                                         *)
(* State: the pending list `items` (container/list of *queueItem), the    *)
(* index `itemsInQueue` (its key set), `itemsBeingProcessed`, the          *)
(* capacity-1 `wakeupCh`, the 1-weighted `waitForNextItemSemaphore`, the  *)
(* `running` flag, the per-key state of the injected rate limiter, and    *)
(* the control state of the worker goroutines started by Run.             *)
(*                                                                         *)
(* Every public method and every lock-protected step of a worker is one   *)
(* action: the queue lock makes each of them atomic.  The points where a  *)
(* worker suspends (semaphore acquire, the select in getNextItem, the     *)
(* handler call) separate actions, so producers interleave there.         *)
(***************************************************************************)
EXTENDS Integers, Sequences, SequencesExt, FiniteSets

CONSTANTS
    Keys,        \* keys callers enqueue (model values)
    Workers,     \* worker goroutines started by Run (model values)
    NoKey,       \* a worker that is not handling a key
    NoWorker,    \* the semaphore is not held
    MaxRetries,  \* MaxRetries of the source (20), scaled down
    Delays,      \* delays passed to EnqueueWithoutRateLimitWithDelay
    RLDelay,     \* RLDelay[n]: the rate limiter's When after n failures
    RLCap,       \* failures after which the rate limiter's delay stops growing
    MaxCalls,    \* bound on the calls producers make
    MaxRuns,     \* bound on the calls of Run
    MaxTime,     \* the clock runs freely up to MaxTime
    FakeClock    \* q.clock is a test's fake clock, not clock.RealClock

ASSUME /\ Workers # {} /\ NoKey \notin Keys /\ NoWorker \notin Workers
       /\ MaxRetries \in Nat \ {0}
       /\ Delays \subseteq Nat /\ RLCap \in Nat
       /\ RLDelay \in [0..RLCap -> Nat]
       /\ \A n \in 0..RLCap - 1 : RLDelay[n] <= RLDelay[n + 1]
       /\ {MaxCalls, MaxRuns, MaxTime} \subseteq Nat /\ FakeClock \in BOOLEAN

\* time.Time{}: the zero time, used for "not redirtied".  The clock starts
\* after it.
Zero == 0

VARIABLES
    now,                  \* q.clock.Now()
    wall,                 \* the wall clock read by time.Until
    items,                \* the pending list, a sequence of queueItem
    itemsInQueue,         \* the keys of the map itemsInQueue
    itemsBeingProcessed,  \* key -> queueItem being handled
    wakeupCh,             \* TRUE iff the capacity-1 channel holds a token
    sem,                  \* holder of waitForNextItemSemaphore
    pc,                   \* control state of each worker goroutine
    deadline,             \* the timer a worker waits on in getNextItem (Zero: none)
    current,              \* the key a worker is handling (its qi)
    running,              \* Queue.running
    ctxDone,              \* the context given to Run is cancelled
    runs,                 \* calls of Run so far
    failures,             \* rate limiter: per-key failures (When/Forget)
    panicked,             \* some call reached a panic
    calls,                \* producer calls so far
    dirty,                \* auxiliary: key enqueued and not yet taken since
    failStreak            \* auxiliary: failed handler calls of a key in a row
                          \* since a caller last enqueued it

\* The fields of Queue (with the rate limiter's state and the panic flag),
\* the clocks, the worker goroutines, Run, and the auxiliaries.
queueVars == <<items, itemsInQueue, itemsBeingProcessed, wakeupCh, failures,
               panicked>>
clockVars == <<now, wall>>
workerVars == <<sem, pc, deadline, current>>
runVars == <<running, ctxDone, runs>>
auxVars == <<calls, dirty, failStreak>>
vars == <<clockVars, queueVars, workerVars, runVars, auxVars>>

\* queueItem, without the fields kept only for debugging (originallyAdded,
\* addedViaRedirty, delayedViaRateLimit).
Item == [key: Keys, plannedToStartWorkAt: Int, redirtiedAt: Int,
         redirtiedWithRatelimit: BOOLEAN, forget: BOOLEAN,
         requeues: 0..MaxRetries - 1]

PC == {"idle", "acquire", "check", "waitEmpty", "waitTimer", "handling",
       "done"}

TypeOK ==
    /\ now \in Nat /\ wall \in Nat
    /\ items \in Seq(Item)
    /\ itemsInQueue \subseteq Keys
    /\ DOMAIN itemsBeingProcessed \subseteq Keys
    /\ \A k \in DOMAIN itemsBeingProcessed : itemsBeingProcessed[k] \in Item
    /\ wakeupCh \in BOOLEAN
    /\ sem \in Workers \cup {NoWorker}
    /\ pc \in [Workers -> PC]
    /\ deadline \in [Workers -> Int]
    /\ current \in [Workers -> Keys \cup {NoKey}]
    /\ running \in BOOLEAN /\ ctxDone \in BOOLEAN
    /\ runs \in 0..MaxRuns
    /\ failures \in [Keys -> 0..RLCap]
    /\ panicked \in BOOLEAN
    /\ calls \in 0..MaxCalls
    /\ dirty \in [Keys -> BOOLEAN]
    /\ failStreak \in [Keys -> -1..MaxRetries + 1]

-----------------------------------------------------------------------------
(* Helpers over the pending list.                                          *)

\* The position of key k in the list, 0 when absent.
IndexOf(s, k) == SelectInSeq(s, LAMBDA it : it.key = k)

\* The keys of the list.
KeysOf(s) == {s[i].key : i \in 1..Len(s)}

\* Key a is ahead of key b in the list.
Before(s, a, b) == IndexOf(s, a) < IndexOf(s, b)

\* The planned time of key k in the list.
PlannedOf(s, k) == s[IndexOf(s, k)].plannedToStartWorkAt

\* f with key k removed from its domain (delete(m, k)).
Delete(f, k) == [x \in DOMAIN f \ {k} |-> f[x]]

\* f with k mapped to v (m[k] = v).
Store(f, k, v) == [x \in DOMAIN f \cup {k} |-> IF x = k THEN v ELSE f[x]]

\* The rate limiter (workqueue.RateLimiter, an injected collaborator):
\* When(key) returns the delay for the key's failure count and counts one
\* more failure; Forget(key) resets the count.
When(fl, k) == RLDelay[fl[k]]
CountFailure(fl, k) ==
    [fl EXCEPT ![k] = IF @ < RLCap THEN @ + 1 ELSE @]
ForgetKey(fl, k) == [fl EXCEPT ![k] = 0]

\* Mutation: adjustPosition updates the time but does not move the element.
AdjustPositionInPlace(s, i, when) ==
    IF when > s[i].plannedToStartWorkAt THEN s
    ELSE [s EXCEPT ![i].plannedToStartWorkAt = when]

\* adjustPosition: an item is never delayed further; brought forward, it is
\* moved after the last predecessor planned strictly before the new time,
\* or to the front.
AdjustPosition(s, i, when) ==
    IF when > s[i].plannedToStartWorkAt THEN s
    ELSE LET moved == [s[i] EXCEPT !.plannedToStartWorkAt = when]
             prev  == SelectLastInSubSeq(s, 1, i - 1,
                          LAMBDA it : it.plannedToStartWorkAt < when)
         IN  InsertAt(RemoveAt(s, i), prev + 1, moved)

\* The scan from the back of insert: a new item goes after the last item
\* planned strictly before it, or to the front; so it goes before the
\* items already planned for the same time.
InsertSorted(s, val) ==
    LET prev == SelectLastInSeq(s, LAMBDA it : it.plannedToStartWorkAt <
                                             val.plannedToStartWorkAt)
    IN  InsertAt(s, prev + 1, val)

\* Mutation: the earlier re-dirty updates the flag but not redirtiedAt.
RedirtyMissingTime(qi, when, ratelimit) ==
    IF qi.redirtiedAt = Zero
    THEN [qi EXCEPT !.redirtiedAt = when,
                    !.redirtiedWithRatelimit = ratelimit, !.forget = FALSE]
    ELSE IF when < qi.redirtiedAt
         THEN [qi EXCEPT !.redirtiedWithRatelimit = ratelimit, !.forget = FALSE]
         ELSE [qi EXCEPT !.forget = FALSE]

\* The re-dirty merge of insert for an item being processed.
Redirty(qi, when, ratelimit) ==
    IF qi.redirtiedAt = Zero \/ when < qi.redirtiedAt
    THEN [qi EXCEPT !.redirtiedAt = when,
                    !.redirtiedWithRatelimit = ratelimit, !.forget = FALSE]
    ELSE [qi EXCEPT !.forget = FALSE]

NewItem(k, planned, requeues) ==
    [key |-> k, plannedToStartWorkAt |-> planned, redirtiedAt |-> Zero,
     redirtiedWithRatelimit |-> FALSE, forget |-> FALSE,
     requeues |-> requeues]

\* insert for a key being processed: merge into its re-dirty (lines 213-227).
InsertRedirty(ibp, fl, k, when, ratelimit) ==
    /\ itemsBeingProcessed' = [ibp EXCEPT ![k] = Redirty(@, when, ratelimit)]
    /\ failures' = fl
    /\ UNCHANGED <<items, itemsInQueue, panicked>>

\* insert for a pending key: adjustPosition (lines 229-236).
InsertMove(ibp, fl, k, when) ==
    /\ items' = AdjustPosition(items, IndexOf(items, k), when)
    /\ itemsBeingProcessed' = ibp /\ failures' = fl
    /\ UNCHANGED <<itemsInQueue, panicked>>

\* insert of a new item (lines 238-267): planned after the rate limiter's
\* delay or the given one; rate limiting with a positive delay panics,
\* which the model records in `panicked`; the process then stops (Crashed).
InsertNew(ibp, fl, k, ratelimit, delay, requeues) ==
    LET planned == IF ratelimit THEN now + When(fl, k) ELSE now + delay
    IN  /\ panicked' = (panicked \/ (ratelimit /\ delay > 0))
        /\ items' = InsertSorted(items, NewItem(k, planned, requeues))
        /\ itemsInQueue' = itemsInQueue \cup {k}
        /\ failures' = IF ratelimit THEN CountFailure(fl, k) ELSE fl
        /\ itemsBeingProcessed' = ibp

\* Mutation: insert does not look at itemsBeingProcessed first.
InsertNoInFlightCheck(ibp, fl, k, ratelimit, delay, requeues) ==
    /\ wakeupCh' = TRUE
    /\ IF k \in itemsInQueue THEN InsertMove(ibp, fl, k, now + delay)
       ELSE InsertNew(ibp, fl, k, ratelimit, delay, requeues)

\* Mutation: insert does not signal wakeupCh.
InsertNoWakeup(ibp, fl, k, ratelimit, delay, requeues) ==
    /\ UNCHANGED wakeupCh
    /\ CASE k \in DOMAIN ibp -> InsertRedirty(ibp, fl, k, now + delay, ratelimit)
         [] k \in itemsInQueue -> InsertMove(ibp, fl, k, now + delay)
         [] OTHER -> InsertNew(ibp, fl, k, ratelimit, delay, requeues)

\* Queue.insert, applied to the map and rate limiter state ibp and fl (the
\* completion path deletes the item and may Forget before inserting).  A
\* new item gets `requeues`, as the completion path sets it on the result.
\* The deferred non-blocking send leaves a token in wakeupCh on every path.
Insert(ibp, fl, k, ratelimit, delay, requeues) ==
    /\ wakeupCh' = TRUE
    /\ CASE k \in DOMAIN ibp -> InsertRedirty(ibp, fl, k, now + delay, ratelimit)
         [] k \in itemsInQueue -> InsertMove(ibp, fl, k, now + delay)
         [] OTHER -> InsertNew(ibp, fl, k, ratelimit, delay, requeues)

-----------------------------------------------------------------------------
(* Producer calls: Enqueue, EnqueueWithoutRateLimit,                       *)
(* EnqueueWithoutRateLimitWithDelay and Forget.  Each holds the lock for   *)
(* its whole body.                                                         *)

Call(k, ratelimit, delay) ==
    /\ calls < MaxCalls
    /\ calls' = calls + 1
    /\ dirty' = [dirty EXCEPT ![k] = TRUE]
    /\ failStreak' = [failStreak EXCEPT ![k] =
                        IF k \in DOMAIN itemsBeingProcessed THEN -1 ELSE 0]
    /\ Insert(itemsBeingProcessed, failures, k, ratelimit, delay, 0)
    /\ UNCHANGED <<clockVars, workerVars, runVars>>

Enqueue(k) == Call(k, TRUE, 0)

EnqueueWithoutRateLimit(k) == Call(k, FALSE, 0)

EnqueueWithoutRateLimitWithDelay(k, after) == Call(k, FALSE, after)

Forget(k) ==
    /\ calls < MaxCalls
    /\ calls' = calls + 1
    /\ dirty' = [dirty EXCEPT ![k] = FALSE]
    /\ IF k \in itemsInQueue
       THEN /\ items' = RemoveAt(items, IndexOf(items, k))
            /\ itemsInQueue' = itemsInQueue \ {k}
            /\ UNCHANGED itemsBeingProcessed
       ELSE /\ itemsBeingProcessed' =
                 IF k \in DOMAIN itemsBeingProcessed
                 THEN [itemsBeingProcessed EXCEPT ![k].forget = TRUE]
                 ELSE itemsBeingProcessed
            /\ UNCHANGED <<items, itemsInQueue>>
    /\ UNCHANGED <<clockVars, wakeupCh, failures, panicked, workerVars,
                   runVars, failStreak>>

\* Len (and Empty, which calls it): under the lock, panics when the heap
\* and the index disagree, and otherwise only reads.
QueueLen ==
    /\ calls < MaxCalls
    /\ calls' = calls + 1
    /\ panicked' = (panicked \/ Len(items) # Cardinality(itemsInQueue))
    /\ UNCHANGED <<clockVars, items, itemsInQueue, itemsBeingProcessed,
                   wakeupCh, failures, workerVars, runVars, dirty, failStreak>>

-----------------------------------------------------------------------------
(* A worker goroutine: worker loops on handleQueueItem, which calls        *)
(* getNextItem and then handleQueueItemObject.                             *)

\* getNextItem acquires the semaphore.  Acquire(ctx, 1) fails once ctx is
\* done; with the semaphore free, whether it still succeeds depends on the
\* x/sync version built in, so both outcomes are allowed (AcquireFails).
Acquire(w) ==
    /\ pc[w] = "acquire" /\ sem = NoWorker
    /\ sem' = w /\ pc' = [pc EXCEPT ![w] = "check"]
    /\ UNCHANGED <<clockVars, queueVars, deadline, current, runVars, auxVars>>

\* getNextItem returns ctx.Err(); handleQueueItem returns false and the
\* worker exits.
AcquireFails(w) ==
    /\ pc[w] = "acquire" /\ ctxDone
    /\ pc' = [pc EXCEPT ![w] = "done"]
    /\ UNCHANGED <<clockVars, queueVars, sem, deadline, current, runVars,
                   auxVars>>

\* Mutation: the head is not deleted from itemsInQueue.
TakeHeadKeepIndex(w) ==
    LET qi == Head(items) IN
    /\ itemsBeingProcessed' = Store(itemsBeingProcessed, qi.key, qi)
    /\ items' = Tail(items)
    /\ UNCHANGED itemsInQueue
    /\ sem' = NoWorker
    /\ pc' = [pc EXCEPT ![w] = "handling"]
    /\ current' = [current EXCEPT ![w] = qi.key]
    /\ dirty' = [dirty EXCEPT ![qi.key] = FALSE]
    /\ UNCHANGED <<deadline, failStreak>>

\* The due head moves to itemsBeingProcessed; the semaphore is released.
TakeHead(w) ==
    LET qi == Head(items) IN
    /\ itemsBeingProcessed' = Store(itemsBeingProcessed, qi.key, qi)
    /\ items' = Tail(items)
    /\ itemsInQueue' = itemsInQueue \ {qi.key}
    /\ sem' = NoWorker
    /\ pc' = [pc EXCEPT ![w] = "handling"]
    /\ current' = [current EXCEPT ![w] = qi.key]
    /\ dirty' = [dirty EXCEPT ![qi.key] = FALSE]
    /\ UNCHANGED <<deadline, failStreak>>

\* One pass of the loop of getNextItem under the lock: wait for a wakeup
\* on an empty list, take a due head, or arm a timer for the head.
Check(w) ==
    /\ pc[w] = "check"
    /\ \/ /\ items = <<>>
          /\ pc' = [pc EXCEPT ![w] = "waitEmpty"]
          /\ UNCHANGED <<items, itemsInQueue, itemsBeingProcessed, sem,
                         deadline, current, dirty, failStreak>>
       \/ /\ items # <<>>
          /\ Head(items).plannedToStartWorkAt - wall <= 0
          /\ TakeHead(w)
       \/ /\ items # <<>>
          /\ Head(items).plannedToStartWorkAt - wall > 0
          /\ pc' = [pc EXCEPT ![w] = "waitTimer"]
          /\ deadline' = [deadline EXCEPT ![w] =
                             now + (Head(items).plannedToStartWorkAt - wall)]
          /\ UNCHANGED <<items, itemsInQueue, itemsBeingProcessed, sem,
                         current, dirty, failStreak>>
    /\ UNCHANGED <<clockVars, wakeupCh, failures, panicked, runVars, calls>>

\* The selects of getNextItem.  Go picks at random among ready cases.
WakeUp(w) ==
    /\ pc[w] \in {"waitEmpty", "waitTimer"} /\ wakeupCh
    /\ wakeupCh' = FALSE
    /\ pc' = [pc EXCEPT ![w] = "check"]
    /\ deadline' = [deadline EXCEPT ![w] = Zero]
    /\ UNCHANGED <<clockVars, items, itemsInQueue, itemsBeingProcessed,
                   failures, panicked, sem, current, runVars, auxVars>>

TimerFires(w) ==
    /\ pc[w] = "waitTimer" /\ now >= deadline[w]
    /\ pc' = [pc EXCEPT ![w] = "check"]
    /\ deadline' = [deadline EXCEPT ![w] = Zero]
    /\ UNCHANGED <<clockVars, queueVars, sem, current, runVars, auxVars>>

\* Mutation: the timed select has no ctx.Done() case.
WaitCancelledEmptyOnly(w) ==
    /\ pc[w] = "waitEmpty" /\ ctxDone
    /\ sem' = NoWorker
    /\ pc' = [pc EXCEPT ![w] = "done"]
    /\ deadline' = [deadline EXCEPT ![w] = Zero]
    /\ UNCHANGED <<clockVars, queueVars, current, runVars, auxVars>>

\* Mutation: the select on an empty list has no ctx.Done() case.
WaitCancelledTimerOnly(w) ==
    /\ pc[w] = "waitTimer" /\ ctxDone
    /\ sem' = NoWorker
    /\ pc' = [pc EXCEPT ![w] = "done"]
    /\ deadline' = [deadline EXCEPT ![w] = Zero]
    /\ UNCHANGED <<clockVars, queueVars, current, runVars, auxVars>>

\* ctx.Done() is ready: getNextItem returns the error (releasing the
\* semaphore by its defer) and the worker exits.
WaitCancelled(w) ==
    /\ pc[w] \in {"waitEmpty", "waitTimer"} /\ ctxDone
    /\ sem' = NoWorker
    /\ pc' = [pc EXCEPT ![w] = "done"]
    /\ deadline' = [deadline EXCEPT ![w] = Zero]
    /\ UNCHANGED <<clockVars, queueVars, current, runVars, auxVars>>

\* ratelimiter.Forget(key) and the item is gone (lines 465-469, 485).
Drop(k, ibp) ==
    /\ failures' = ForgetKey(failures, k)
    /\ itemsBeingProcessed' = ibp
    /\ UNCHANGED <<items, itemsInQueue, wakeupCh, panicked>>

\* Mutation: the retry cap is tested with requeues < MaxRetries.
RetryOffByOne(qi, failed) == failed /\ qi.requeues < MaxRetries

\* A failed call is retried while requeues + 1 < MaxRetries (line 472).
Retry(qi, failed) == failed /\ qi.requeues + 1 < MaxRetries

\* Mutation: the requeued item does not carry requeues + 1.
RequeueResetsCount(qi, ibp, n) == Insert(ibp, failures, qi.key, TRUE, 0, 0)

\* Mutation: the rate limiter is told to Forget the key before the retry.
RequeueForgetsBackoff(qi, ibp, n) ==
    Insert(ibp, ForgetKey(failures, qi.key), qi.key, TRUE, 0, n)

\* insert(key, true, 0) and newQI.requeues = n (lines 475-476): the rate
\* limiter keeps counting the key's failures.
Requeue(qi, ibp, n) == Insert(ibp, failures, qi.key, TRUE, 0, n)

\* ratelimiter.Forget, then the re-dirty is re-inserted with
\* time.Until(redirtiedAt) (lines 485-488).
Reinsert(qi, ibp) ==
    Insert(ibp, ForgetKey(failures, qi.key), qi.key, qi.redirtiedWithRatelimit,
           qi.redirtiedAt - wall, 0)

\* Mutation: the re-dirty is looked at before the forget flag.
CompleteRedirtyFirst(qi, ibp, failed) ==
    CASE qi.redirtiedAt # Zero /\ ~Retry(qi, failed) -> Reinsert(qi, ibp)
      [] qi.forget -> Drop(qi.key, ibp)
      [] Retry(qi, failed) -> Requeue(qi, ibp, qi.requeues + 1)
      [] OTHER -> Drop(qi.key, ibp)

Complete(qi, ibp, failed) ==
    CASE qi.forget -> Drop(qi.key, ibp)
      [] Retry(qi, failed) -> Requeue(qi, ibp, qi.requeues + 1)
      [] qi.redirtiedAt # Zero -> Reinsert(qi, ibp)
      [] OTHER -> Drop(qi.key, ibp)

\* Auxiliary: a failed handler call of a live item extends the key's streak
\* of failures; a successful or forgotten one ends it.  A call made while
\* the key is in flight restarts the count after the running handler (-1).
CountCall(streak, qi, failed) ==
    IF failed /\ ~qi.forget THEN IF streak > MaxRetries THEN streak ELSE streak + 1
    ELSE 0

\* Mutation: the completion does not delete the key from
\* itemsBeingProcessed.
HandlerReturnsNoDelete(w) ==
    LET qi == itemsBeingProcessed[current[w]] IN
    /\ pc[w] = "handling"
    /\ \E failed \in BOOLEAN :
         /\ Complete(qi, itemsBeingProcessed, failed)
         /\ failStreak' = [failStreak EXCEPT ![qi.key] = CountCall(@, qi, failed)]
    /\ pc' = [pc EXCEPT ![w] = "acquire"]
    /\ current' = [current EXCEPT ![w] = NoKey]
    /\ UNCHANGED <<clockVars, sem, deadline, runVars, calls, dirty>>

\* The handler returns (successfully or with an error) and the completion
\* runs under the lock; handleQueueItem returns true and the worker loops.
HandlerReturns(w) ==
    LET qi == itemsBeingProcessed[current[w]] IN
    /\ pc[w] = "handling"
    /\ \E failed \in BOOLEAN :
         /\ Complete(qi, Delete(itemsBeingProcessed, current[w]), failed)
         /\ failStreak' = [failStreak EXCEPT ![qi.key] = CountCall(@, qi, failed)]
    /\ pc' = [pc EXCEPT ![w] = "acquire"]
    /\ current' = [current EXCEPT ![w] = NoKey]
    /\ UNCHANGED <<clockVars, sem, deadline, runVars, calls, dirty>>

-----------------------------------------------------------------------------
(* Run, and its caller cancelling the context.                             *)

\* Run sets running and starts the workers (a second concurrent Run would
\* panic; callers do not make one).
RunStart ==
    /\ ~running /\ runs < MaxRuns
    /\ running' = TRUE /\ ctxDone' = FALSE /\ runs' = runs + 1
    /\ pc' = [w \in Workers |-> "acquire"]
    /\ UNCHANGED <<clockVars, queueVars, sem, deadline, current, auxVars>>

Cancel ==
    /\ running /\ ~ctxDone
    /\ ctxDone' = TRUE
    /\ UNCHANGED <<clockVars, queueVars, workerVars, running, runs, auxVars>>

\* Run's defers: group.Wait() for every worker, then running = false.
RunReturns ==
    /\ running /\ ctxDone
    /\ \A w \in Workers : pc[w] = "done"
    /\ running' = FALSE
    /\ UNCHANGED <<clockVars, queueVars, workerVars, ctxDone, runs, auxVars>>

\* q.clock advances freely up to MaxTime, and beyond it only while some
\* pending item is still in its future.  With RealClock the wall clock is
\* the same clock; a fake clock moves only on the test's command, and the
\* wall clock moves on its own (WallTick).
Tick ==
    /\ \/ now < MaxTime
       \/ \E i \in 1..Len(items) : items[i].plannedToStartWorkAt > now
    /\ now' = now + 1
    /\ wall' = IF FakeClock THEN wall ELSE wall + 1
    /\ UNCHANGED <<queueVars, workerVars, runVars, auxVars>>

\* Real time passes under a fake q.clock, bounded like Tick.
WallTick ==
    /\ FakeClock
    /\ \/ wall < MaxTime
       \/ \E i \in 1..Len(items) : items[i].plannedToStartWorkAt > wall
    /\ wall' = wall + 1
    /\ UNCHANGED <<now, queueVars, workerVars, runVars, auxVars>>

-----------------------------------------------------------------------------

Init ==
    /\ now = Zero + 1 /\ wall = now
    /\ items = <<>>
    /\ itemsInQueue = {}
    /\ itemsBeingProcessed = [k \in {} |-> NewItem(k, 0, 0)]
    /\ wakeupCh = FALSE
    /\ sem = NoWorker
    /\ pc = [w \in Workers |-> "idle"]
    /\ deadline = [w \in Workers |-> Zero]
    /\ current = [w \in Workers |-> NoKey]
    /\ running = FALSE /\ ctxDone = FALSE /\ runs = 0
    /\ failures = [k \in Keys |-> 0]
    /\ panicked = FALSE
    /\ calls = 0
    /\ dirty = [k \in Keys |-> FALSE]
    /\ failStreak = [k \in Keys |-> 0]

Worker(w) ==
    \/ Acquire(w) \/ AcquireFails(w) \/ Check(w) \/ WakeUp(w)
    \/ TimerFires(w) \/ WaitCancelled(w) \/ HandlerReturns(w)

Producer ==
    \/ \E k \in Keys :
        \/ Enqueue(k)
        \/ EnqueueWithoutRateLimit(k)
        \/ \E d \in Delays : EnqueueWithoutRateLimitWithDelay(k, d)
        \/ Forget(k)
    \/ QueueLen

\* The bounded callers are done and nothing is left for the queue to do:
\* the behaviour ends here.
Finished ==
    /\ calls = MaxCalls
    /\ DOMAIN itemsBeingProcessed = {}
    /\ items = <<>> \/ (~running /\ runs = MaxRuns)
    /\ UNCHANGED vars

\* A panic in a caller or a worker goroutine is not recovered anywhere in
\* the package: the process dies and nothing runs after it.
Crashed ==
    /\ panicked
    /\ UNCHANGED vars

Next ==
    \/ /\ ~panicked
       /\ \/ Producer
          \/ \E w \in Workers : Worker(w)
          \/ RunStart \/ Cancel \/ RunReturns \/ Tick \/ WallTick
    \/ Finished
    \/ Crashed

Spec == Init /\ [][Next]_vars

\* Goroutines are scheduled, real time passes (so timers on RealClock
\* fire), handlers return and Run returns after its workers: weak fairness
\* for each worker, for real time and for Run, while the process lives.
\* Callers (producers, RunStart, Cancel) are not assumed to act, and
\* neither is the test that advances a fake q.clock.
FairSpec ==
    /\ Spec
    /\ \A w \in Workers : WF_vars(~panicked /\ Worker(w))
    /\ ~FakeClock => WF_vars(~panicked /\ Tick)
    /\ WF_vars(~panicked /\ WallTick) /\ WF_vars(~panicked /\ RunReturns)

-----------------------------------------------------------------------------
(* The refinement mapping to QueueSpec: a key's status is read off the    *)
(* two maps, and its marks off the item being processed.                  *)

AbsStatus(k) ==
    IF k \in DOMAIN itemsBeingProcessed THEN "inFlight"
    ELSE IF k \in itemsInQueue THEN "pending" ELSE "absent"

InFlightMark(k, mark(_)) ==
    k \in DOMAIN itemsBeingProcessed /\ mark(itemsBeingProcessed[k])

Abstract == INSTANCE QueueSpec WITH
    status  <- [k \in Keys |-> AbsStatus(k)],
    redirty <- [k \in Keys |-> InFlightMark(k, LAMBDA qi : qi.redirtiedAt # Zero)],
    forget  <- [k \in Keys |-> InFlightMark(k, LAMBDA qi : qi.forget)]

-----------------------------------------------------------------------------
(* Properties.                                                             *)

\* The list and the index itemsInQueue agree: every key of the list is in
\* the map and the list holds each key once, so items.Len() equals
\* len(itemsInQueue) and Len() never panics ("Internally inconsistent
\* state").  Forget, insert and getNextItem must each update both.
IndexConsistent ==
    /\ itemsInQueue = KeysOf(items)
    /\ Len(items) = Cardinality(itemsInQueue)

\* A key is never both pending and being processed: insert checks
\* itemsBeingProcessed first, getNextItem moves an item from one to the
\* other under one lock, and the completion deletes before re-inserting.
NotPendingWhileProcessing ==
    itemsInQueue \cap DOMAIN itemsBeingProcessed = {}

InFlightHeldByOneWorker ==
    /\ \A k \in DOMAIN itemsBeingProcessed :
         \E w \in Workers : pc[w] = "handling" /\ current[w] = k
    /\ \A w \in Workers : pc[w] = "handling" =>
         current[w] \in DOMAIN itemsBeingProcessed
    /\ \A v, w \in Workers :
         v # w /\ pc[v] = "handling" /\ pc[w] = "handling"
           => current[v] # current[w]

\* The pending list is ordered by plannedToStartWorkAt, so the head that
\* getNextItem looks at is the earliest item, across inserts, moves
\* forward by adjustPosition, removals and re-inserts on completion.
PendingSorted ==
    IsSorted(items, LAMBDA a, b :
                      a.plannedToStartWorkAt <= b.plannedToStartWorkAt)

\* insert never meets a positive delay with rate limiting: the re-insert
\* of a re-dirtied item passes redirtiedWithRatelimit together with
\* time.Until(redirtiedAt), and no sequence of enqueues while in flight
\* makes that delay positive with the flag set.
NoPanic == ~panicked

\* A key whose handler keeps failing is handed to the handler at most
\* MaxRetries times in a row unless a caller enqueues it again (spec S7):
\* the completion requeues with rate limiting while requeues + 1 <
\* MaxRetries, each requeue carrying the count, and then gives up.
RetriesBounded == \A k \in Keys : failStreak[k] <= MaxRetries

\* The rate limiter keeps counting while a key's handler keeps failing:
\* the n-th retry of a key, pending or being handled, finds at least
\* n failures (up to the limiter's cap) counted for it, so its backoff is
\* never shorter than the previous retry's.  Only the end of the lineage
\* (success, an in-flight Forget, the retry cap) may call
\* ratelimiter.Forget; Forget of a pending key does not (spec 9).
BackoffGrowsWithRetries ==
    /\ \A i \in 1..Len(items) :
         Min({items[i].requeues, RLCap}) <= failures[items[i].key]
    /\ \A k \in DOMAIN itemsBeingProcessed :
         Min({itemsBeingProcessed[k].requeues, RLCap}) <= failures[k]

\* The queue implements QueueSpec: every step of a caller, a worker or Run
\* moves each key along the per-key state machine of the queue (an enqueue
\* while in flight is kept as a re-dirty, a forget wins over it, a
\* completion never drops a re-dirtied key and never revives a forgotten
\* one), whatever the list order, the timers and the rate limiter do.
ImplementsQueueSpec == Abstract!Spec

\* Every enqueue is eventually followed by a worker taking the key, unless
\* it is forgotten or Run's context is cancelled: no wakeup is lost between
\* getNextItem's look at the list and its select, no timer sleeps past a
\* head brought forward, and no re-dirty is dropped on completion.
DirtyEventuallyTaken ==
    \A k \in Keys :
        (dirty[k] /\ running /\ ~ctxDone) ~> (~dirty[k] \/ ctxDone)

\* Once the context is cancelled, Run eventually returns unless the
\* process has crashed: every worker, whether blocked on the semaphore,
\* in either select of getNextItem or in its handler, gets out, and
\* group.Wait() completes.  Under a fake q.clock that the test no longer
\* advances, a worker asleep on its timer leaves only through ctx.Done().
RunEventuallyReturns == (running /\ ctxDone) ~> (~running \/ panicked)

\* adjustPosition "will not further delay items if when is later than the
\* original time" and insert keeps FIFO order among ties: two pending
\* items whose planned times do not change keep their relative order.
OrderKeptAmongUnchanged ==
    [][\A a, b \in KeysOf(items) \cap KeysOf(items') :
         /\ a # b /\ Before(items, a, b)
         /\ PlannedOf(items', a) = PlannedOf(items, a)
         /\ PlannedOf(items', b) = PlannedOf(items, b)
         => Before(items', a, b)]_vars

\* "Ties between items share the relative order in which they were
\* inserted" (FIFO): an item newly inserted goes after every pending item
\* planned for the same time or earlier.
FifoAmongTies ==
    [][\A n \in KeysOf(items') \ KeysOf(items) :
         \A a \in KeysOf(items) \cap KeysOf(items') :
           PlannedOf(items, a) <= PlannedOf(items', n) => Before(items', a, n)]_vars

\* "The queue must consult the clock for every time comparison": a worker
\* takes a pending item only once q.clock has reached its planned time,
\* so with a fake clock an item runs when the test advances the clock to
\* its time, and not before.
NoStartBeforePlanned ==
    [][\A k \in KeysOf(items) \ KeysOf(items') :
         k \in DOMAIN itemsBeingProcessed' => PlannedOf(items, k) <= now]_vars

\* Once Run's context is cancelled, workers stop after the handler call
\* they are in: no worker takes a new item and starts its handler.
NoHandlerStartAfterCancel ==
    [][ctxDone => \A w \in Workers :
                    ~(pc[w] # "handling" /\ pc'[w] = "handling")]_vars

\* "Workers stop after completing their current handler call; in-flight
\* items are dropped without requeue": once Run's context is cancelled, no
\* completion puts a key back on the pending list (only callers may).
NoRequeueAfterCancel ==
    [][ctxDone /\ calls' = calls => KeysOf(items') \subseteq KeysOf(items)]_vars

=============================================================================
