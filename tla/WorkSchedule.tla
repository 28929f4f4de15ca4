---------------------------- MODULE WorkSchedule ----------------------------
(***************************************************************************)
(* work_schedule: the schedulers of one kind of work in several processes  *)
(* over one database, with the notifications of the pool and the locks in  *)
(* Redis (cache/redis_cache).                                              *)
(*                                                                         *)
(* A row holds a work until it is done.  A scheduler claims the rows that  *)
(* are due by moving their next time ahead (the lease), puts them into a   *)
(* queue in memory, and its worker goroutines run them under a lock that   *)
(* expires.  Any database access and any use of a lock or of a channel is  *)
(* one step; a transaction is one step, at its commit.                     *)
(*                                                                         *)
(* Time is not counted.  The rows whose next time has passed are in "due", *)
(* in the order in which it passed, and leases and locks run out whenever  *)
(* they may.  A tick of the reader may come at any moment too, so that the *)
(* signals of readNextWorks, which only bring the next scan forward, need  *)
(* no state.                                                               *)
(***************************************************************************)
EXTENDS Integers, FiniteSets, SequencesExt

CONSTANTS
    Scheduler,     \* processes with one scheduler each
    Job,           \* worker goroutines of a scheduler (PARALLEL_JOBS)
    Work,          \* references: what a work is about
    Publisher,     \* schedulers that post with PoolWorkPublisher as invoker
    Subscriber,    \* schedulers with a PoolWorkSubscriber
    BUCKET_SIZE,
    PostMode,      \* modes PostWork is called with
    MaxPosts,      \* bound: calls of PostWork
    MaxCancels,    \* bound: requests cancelled in a call of PostWork
    MaxTroubles    \* bound: these, processes that end, failed accesses, leases and
                   \* locks that run out too early, works rescheduled or removed

Feeder == {"reader", "handler", "poster"}  \* goroutines that fill the queue
Thread == Job \cup {"handler", "poster"}   \* goroutines that run works

ASSUME WorkScheduleAssumption ==
    /\ Publisher \subseteq Scheduler /\ Subscriber \subseteq Scheduler
    /\ IsFiniteSet(Job) /\ Job \cap Feeder = {}
    /\ BUCKET_SIZE \in Nat \ {0}
    /\ PostMode \subseteq {"SCHEDULE", "DIRECT", "QUEUED"}
    /\ {MaxPosts, MaxCancels, MaxTroubles} \subseteq Nat

VARIABLES
    rows,      \* the works in the database, a function of references
    due,       \* references of the rows whose next time has passed
    lock,      \* lock[w]: who holds the lock of reference w
    status,    \* of a process: "down", "up", or "stopping" (stop is closed)
    queue,     \* contents of the channel between feeders and workers
    messages,  \* notifications of the pool the handler has not read
    workQueueSize,
    runningWorkCount,
    feed,      \* feed[s][g]: what feeder g of process s is doing
    doing,     \* doing[s][x]: the call of DoWork in thread x
    posts, cancels, troubles,  \* counted by the bounds
    overrun,   \* history: threads whose lock ran out, and who took it over
    claims,    \* history: claims of a row since its next time passed
    asked,     \* history: works rescheduled since they were claimed or run
    finished,  \* history: works whose rows were deleted because they were done
    abandoned  \* history: sends a process gave up since it started

database == <<rows, due>>
counters == <<posts, cancels, troubles>>
history == <<overrun, claims, asked, finished, abandoned>>
vars == <<database, lock, status, queue, messages, workQueueSize,
          runningWorkCount, feed, doing, counters, history>>

\* A work in memory: its reference and the id of its row.  A work that is
\* posted without a row (IsNoDb) has the id NoDb, a row from before the start
\* has OldId.
NoDb == 0
OldId == MaxPosts + 1
Item == [work: Work, id: NoDb .. OldId]
Saved(item) == item.work \in DOMAIN rows /\ rows[item.work].id = item.id

Free == <<"free">>
Lost == <<"lost">>  \* held by a process that crashed, or by a failed release
Owner == Scheduler \X Thread

Resting == [pc |-> "idle", works |-> <<>>]
NotWorking == [pc |-> "idle"]
Exited == [pc |-> "exited"]
Listed(works) == [pc |-> "listed", works |-> works]
Enqueuing(works) == IF works = <<>> THEN Resting ELSE [pc |-> "enqueue", works |-> works]
DoWork(item) == [pc |-> "lock", item |-> item]

Holds(s, x) == doing[s][x].pc \in {"probe", "reset", "run", "update", "release"}
Runs(s, x, w) == doing[s][x].pc \in {"run", "update"} /\ doing[s][x].item.work = w
QueueClosed(s) == feed[s]["reader"].pc = "exited"
IsIdle(s, g) == feed[s][g].pc = "idle" /\ (g # "reader" => doing[s][g].pc = "idle")

Trouble == troubles < MaxTroubles /\ troubles' = troubles + 1 /\ UNCHANGED <<posts, cancels>>
Feed(s, g, next) == feed' = [feed EXCEPT ![s][g] = next]
Goto(s, x, pc) == doing' = [doing EXCEPT ![s][x].pc = pc]

(***************************************************************************)
(* The database.                                                           *)
(***************************************************************************)
WithRow(w, row) == [v \in DOMAIN rows \cup {w} |-> IF v = w THEN row ELSE rows[v]]
WithoutRow(w) == [v \in DOMAIN rows \ {w} |-> rows[v]]

\* works without those in set, in the order they had.
Without(works, set) ==
    LET kept[i \in 0 .. Len(works)] ==
            IF i = 0 THEN <<>>
            ELSE IF works[i] \in set THEN kept[i - 1] ELSE Append(kept[i - 1], works[i])
    IN  kept[Len(works)]
NotDue(set) == Without(due, set)
BecomesDue(w) == due' = Append(NotDue({w}), w) /\ claims' = [claims EXCEPT ![w] = 0]

\* Whether a process still has the work of a row in its memory.
InMemory(w) ==
    \E s \in Scheduler :
        \/ \E i \in DOMAIN queue[s] : queue[s][i].work = w
        \/ \E g \in Feeder : \E i \in DOMAIN feed[s][g].works : feed[s][g].works[i].work = w
        \/ \E x \in Thread : doing[s][x].pc \notin {"idle", "exited"} /\ doing[s][x].item.work = w

\* The next time of a row passes: it was posted for later, its lease ran
\* out, or its interval is over.
TimePasses(w) ==
    /\ w \in DOMAIN rows /\ w \notin ToSet(due)
    /\ IF rows[w].next = "held" /\ InMemory(w) THEN Trouble ELSE UNCHANGED counters
    /\ BecomesDue(w)
    /\ UNCHANGED <<rows, lock, status, queue, messages, workQueueSize, runningWorkCount,
                   feed, doing, overrun, asked, finished, abandoned>>

UpdateWorkNextTime(w) ==
    /\ w \in DOMAIN rows
    /\ Trouble
    /\ rows' = [rows EXCEPT ![w].next = "explicit", ![w].set = TRUE]
    /\ due' = NotDue({w})
    /\ asked' = asked \cup {w}
    /\ UNCHANGED <<lock, status, queue, messages, workQueueSize, runningWorkCount,
                   feed, doing, overrun, claims, finished, abandoned>>

RemoveWork(w) ==
    /\ w \in DOMAIN rows
    /\ Trouble
    /\ rows' = WithoutRow(w)
    /\ due' = NotDue({w})
    /\ asked' = asked \ {w}
    /\ UNCHANGED <<lock, status, queue, messages, workQueueSize, runningWorkCount,
                   feed, doing, overrun, claims, finished, abandoned>>

(***************************************************************************)
(* PostWork and its invokers.                                              *)
(***************************************************************************)

\* CreateDup leaves a row that is there as it is; the work in memory then has
\* the id of no row.
CreateDup(item, mode) ==
    IF item.work \in DOMAIN rows
    THEN UNCHANGED <<database, claims>>
    ELSE /\ rows' = WithRow(item.work, [id |-> item.id, next |-> "posted", set |-> FALSE])
         /\ IF mode = "SCHEDULE" THEN UNCHANGED <<due, claims>> ELSE BecomesDue(item.work)

\* Inside a transaction of the caller the invoker is not called.
PostWork(s, w, mode, inTransaction) ==
    LET item == [work |-> w, id |-> posts + 1] IN
    /\ status[s] # "down" /\ IsIdle(s, "poster")
    /\ posts < MaxPosts /\ posts' = posts + 1 /\ UNCHANGED <<cancels, troubles>>
    /\ CreateDup(item, mode)
    /\ feed' = IF mode = "SCHEDULE" \/ inTransaction THEN feed
               ELSE [feed EXCEPT ![s]["poster"] = [pc |-> mode, works |-> <<item>>]]
    /\ UNCHANGED <<lock, status, queue, messages, workQueueSize, runningWorkCount,
                   doing, overrun, asked, finished, abandoned>>

PostNoDb(s, w, mode) ==
    /\ status[s] # "down" /\ IsIdle(s, "poster") /\ mode # "SCHEDULE"
    /\ posts < MaxPosts /\ posts' = posts + 1 /\ UNCHANGED <<cancels, troubles>>
    /\ Feed(s, "poster", [pc |-> mode, works |-> <<[work |-> w, id |-> NoDb]>>])
    /\ UNCHANGED <<database, lock, status, queue, messages, workQueueSize, runningWorkCount,
                   doing, history>>

\* WorkSchedule.InvokeWork: run the work in this goroutine or queue it.
InvokeWork(s, g, item, mode) ==
    IF mode = "DIRECT"
    THEN doing' = [doing EXCEPT ![s][g] = DoWork(item)] /\ Feed(s, g, Resting)
    ELSE UNCHANGED doing /\ Feed(s, g, Enqueuing(<<item>>))

\* PoolWorkPublisher.InvokeWork: the message reaches some of the subscribers.
PublishSelfPool(item, mode) ==
    \E receivers \in SUBSET {r \in Subscriber : status[r] # "down"} :
        messages' = [r \in Scheduler |->
            IF r \in receivers THEN Append(messages[r], [item |-> item, mode |-> mode])
            ELSE messages[r]]

Invoke(s) ==
    LET mode == feed[s]["poster"].pc
        item == Head(feed[s]["poster"].works) IN
    /\ mode \in {"DIRECT", "QUEUED"}
    /\ IF s \in Publisher
       THEN PublishSelfPool(item, mode) /\ Feed(s, "poster", Resting) /\ UNCHANGED doing
       ELSE InvokeWork(s, "poster", item, mode) /\ UNCHANGED messages
    /\ UNCHANGED <<database, lock, status, queue, workQueueSize, runningWorkCount,
                   counters, history>>

(***************************************************************************)
(* ClaimDueWorks, called by the reader goroutine and by the handler of the *)
(* pool's notifications.                                                   *)
(***************************************************************************)
Limit(s) == BUCKET_SIZE - runningWorkCount[s] - workQueueSize[s]
DueItems(n) ==
    LET first == SubSeq(due, 1, IF n < Len(due) THEN n ELSE Len(due)) IN
    [i \in DOMAIN first |-> [work |-> first[i], id |-> rows[first[i]].id]]
ListDue(s, g) ==
    IF Limit(s) <= 0 \/ due = <<>> THEN Feed(s, g, Resting)
    ELSE Feed(s, g, Listed(DueItems(Limit(s))))

ReadWorks(s) ==
    /\ status[s] = "up" /\ IsIdle(s, "reader")
    /\ due # <<>> /\ Limit(s) > 0
    /\ ListDue(s, "reader")
    /\ UNCHANGED <<database, lock, status, queue, messages, workQueueSize, runningWorkCount,
                   doing, counters, history>>

Handle(s) ==
    /\ status[s] # "down" /\ IsIdle(s, "handler") /\ messages[s] # <<>>
    /\ messages' = [messages EXCEPT ![s] = Tail(@)]
    /\ LET msg == Head(messages[s]) IN
       IF msg.item.id = NoDb THEN InvokeWork(s, "handler", msg.item, msg.mode)
       ELSE ListDue(s, "handler") /\ UNCHANGED doing
    /\ UNCHANGED <<database, lock, status, queue, workQueueSize, runningWorkCount,
                   counters, history>>

\* The rows of the list that are still due under their row locks.  (A row
\* that was claimed and whose lease ran out since the list counts as due
\* here; the code takes it in its next scan.)
StillDue(items) == {item \in ToSet(items) : Saved(item) /\ item.work \in ToSet(due)}

\* The transaction that holds them; they are read again in any order.
HoldWorks(s, g) ==
    LET items == StillDue(feed[s][g].works)
        works == {item.work : item \in items} IN
    /\ feed[s][g].pc = "listed"
    /\ rows' = [w \in DOMAIN rows |->
           IF w \in works THEN [rows[w] EXCEPT !.next = "held", !.set = FALSE] ELSE rows[w]]
    /\ due' = NotDue(works)
    /\ claims' = [w \in Work |-> IF w \in works THEN claims[w] + 1 ELSE claims[w]]
    /\ asked' = asked \ works
    /\ \E order \in SetToSeqs(items) : Feed(s, g, Enqueuing(order))
    /\ UNCHANGED <<lock, status, queue, messages, workQueueSize, runningWorkCount,
                   doing, counters, overrun, finished, abandoned>>

HoldFails(s, g) ==
    /\ feed[s][g].pc = "listed"
    /\ Trouble
    /\ Feed(s, g, Resting)
    /\ UNCHANGED <<database, lock, status, queue, messages, workQueueSize, runningWorkCount,
                   doing, history>>

(***************************************************************************)
(* enqueuWork: the counter, then a send that waits for room in the queue,  *)
(* for the end of the request or for stop.                                 *)
(***************************************************************************)
Enqueue(s, g) ==
    /\ feed[s][g].pc = "enqueue"
    /\ workQueueSize' = [workQueueSize EXCEPT ![s] = @ + 1]
    /\ Feed(s, g, [feed[s][g] EXCEPT !.pc = "send"])
    /\ UNCHANGED <<database, lock, status, queue, messages, runningWorkCount,
                   doing, counters, history>>

Send(s, g) ==
    /\ feed[s][g].pc = "send"
    /\ ~QueueClosed(s) /\ Len(queue[s]) < BUCKET_SIZE
    /\ queue' = [queue EXCEPT ![s] = Append(@, Head(feed[s][g].works))]
    /\ Feed(s, g, Enqueuing(Tail(feed[s][g].works)))
    /\ UNCHANGED <<database, lock, status, messages, workQueueSize, runningWorkCount,
                   doing, counters, history>>

\* A send that is given up does not take its work off the counter.  The
\* reader ends its scan, the handler goes on with the next work.
GiveUp(s, g) ==
    /\ feed[s][g].pc = "send"
    /\ Feed(s, g, IF g = "handler" THEN Enqueuing(Tail(feed[s][g].works)) ELSE Resting)
    /\ abandoned' = [abandoned EXCEPT ![s] = @ + 1]
    /\ UNCHANGED <<database, lock, status, queue, messages, workQueueSize, runningWorkCount,
                   doing, overrun, claims, asked, finished>>

SendStopped(s, g) == status[s] = "stopping" /\ GiveUp(s, g) /\ UNCHANGED counters

\* The caller of PostWork cancels its request.
SendCancelled(s) ==
    /\ troubles < MaxTroubles /\ troubles' = troubles + 1
    /\ cancels < MaxCancels /\ cancels' = cancels + 1
    /\ GiveUp(s, "poster")
    /\ UNCHANGED posts

(***************************************************************************)
(* The worker goroutines, and DoWork in any goroutine.                     *)
(***************************************************************************)
TakeWork(s, j) ==
    /\ doing[s][j].pc = "idle" /\ queue[s] # <<>>
    /\ queue' = [queue EXCEPT ![s] = Tail(@)]
    /\ workQueueSize' = [workQueueSize EXCEPT ![s] = @ - 1]
    /\ doing' = [doing EXCEPT ![s][j] = DoWork(Head(queue[s]))]
    /\ UNCHANGED <<database, lock, status, messages, runningWorkCount, feed, counters, history>>

\* Faulty variant: the lock is not looked at.
AcquireLockAnyway(s, x) ==
    LET item == doing[s][x].item IN
    /\ doing[s][x].pc = "lock"
    /\ lock' = [lock EXCEPT ![item.work] = <<s, x>>]
    /\ runningWorkCount' = [runningWorkCount EXCEPT ![s] = @ + 1]
    /\ Goto(s, x, IF item.id = NoDb THEN "reset" ELSE "probe")
    /\ UNCHANGED <<database, status, queue, messages, workQueueSize, feed, counters, history>>

\* LockObject, and the counter if the lock is obtained.
AcquireLock(s, x) ==
    LET item == doing[s][x].item IN
    /\ doing[s][x].pc = "lock"
    /\ IF lock[item.work] = Free
       THEN /\ lock' = [lock EXCEPT ![item.work] = <<s, x>>]
            /\ runningWorkCount' = [runningWorkCount EXCEPT ![s] = @ + 1]
            /\ Goto(s, x, IF item.id = NoDb THEN "reset" ELSE "probe")
            /\ overrun' = IF \E o \in overrun : doing[o[1]][o[2]].item.work = item.work
                          THEN overrun \cup {<<s, x>>} ELSE overrun
       ELSE /\ doing' = [doing EXCEPT ![s][x] = NotWorking]
            /\ UNCHANGED <<lock, runningWorkCount, overrun>>
    /\ UNCHANGED <<database, status, queue, messages, workQueueSize, feed, counters,
                   claims, asked, finished, abandoned>>

\* Faulty variant: the row may be gone.
ProbeRowIgnored(s, x) ==
    /\ doing[s][x].pc = "probe"
    /\ Goto(s, x, "reset")
    /\ UNCHANGED <<database, lock, status, queue, messages, workQueueSize, runningWorkCount,
                   feed, counters, history>>

\* Whether the row is still there, under the lock.
ProbeRow(s, x) ==
    /\ doing[s][x].pc = "probe"
    /\ Goto(s, x, IF Saved(doing[s][x].item) THEN "reset" ELSE "release")
    /\ UNCHANGED <<database, lock, status, queue, messages, workQueueSize, runningWorkCount,
                   feed, counters, history>>

ResetNextTimeSet(s, x) ==
    LET item == doing[s][x].item IN
    /\ doing[s][x].pc = "reset"
    /\ Goto(s, x, "run")
    /\ IF Saved(item)
       THEN rows' = [rows EXCEPT ![item.work].set = FALSE] /\ asked' = asked \ {item.work}
       ELSE UNCHANGED <<rows, asked>>
    /\ UNCHANGED <<due, lock, status, queue, messages, workQueueSize, runningWorkCount,
                   feed, counters, overrun, claims, finished, abandoned>>

\* The runner of the application returns, whether with an error or not.
RunReturns(s, x, done) ==
    /\ doing[s][x].pc = "run"
    /\ doing' = [doing EXCEPT ![s][x] = [pc |-> "update", item |-> @.item, done |-> done]]
    /\ UNCHANGED <<database, lock, status, queue, messages, workQueueSize, runningWorkCount,
                   feed, counters, history>>

\* Faulty variant: whoever set the next time, it is overwritten.
SaveNextTimeAlways(w) ==
    /\ rows' = [rows EXCEPT ![w].next = "interval", ![w].set = TRUE]
    /\ due' = NotDue({w})
    /\ UNCHANGED <<asked, finished>>

\* The next time of the row is the runner's unless it was set meanwhile.
SaveNextTime(w) ==
    /\ IF rows[w].set THEN UNCHANGED database
       ELSE /\ rows' = [rows EXCEPT ![w].next = "interval", ![w].set = TRUE]
            /\ due' = NotDue({w})
    /\ UNCHANGED <<asked, finished>>

DeleteDone(item) ==
    /\ rows' = WithoutRow(item.work)
    /\ due' = NotDue({item.work})
    /\ asked' = asked \ {item.work}
    /\ finished' = finished \cup {item}

UpdateProcessedWork(s, x) ==
    LET item == doing[s][x].item IN
    /\ doing[s][x].pc = "update"
    /\ IF ~Saved(item) THEN UNCHANGED <<database, asked, finished>>
       ELSE IF doing[s][x].done THEN DeleteDone(item)
       ELSE SaveNextTime(item.work)
    /\ doing' = [doing EXCEPT ![s][x] = [pc |-> "release", item |-> item]]
    /\ UNCHANGED <<lock, status, queue, messages, workQueueSize, runningWorkCount,
                   feed, counters, overrun, claims, abandoned>>

\* Redis deletes a lock only for the token it was obtained with.
Unlock(s, x) ==
    LET w == doing[s][x].item.work IN
    lock' = IF lock[w] = <<s, x>> THEN [lock EXCEPT ![w] = Free] ELSE lock

\* Faulty variant: the work stays on the counter of running works.
ReleaseWorkUncounted(s, x) ==
    /\ doing[s][x].pc = "release"
    /\ Unlock(s, x)
    /\ doing' = [doing EXCEPT ![s][x] = NotWorking]
    /\ overrun' = overrun \ {<<s, x>>}
    /\ UNCHANGED <<database, status, queue, messages, workQueueSize, runningWorkCount, feed,
                   counters, claims, asked, finished, abandoned>>

ReleaseWork(s, x) ==
    /\ doing[s][x].pc = "release"
    /\ Unlock(s, x)
    /\ runningWorkCount' = [runningWorkCount EXCEPT ![s] = @ - 1]
    /\ doing' = [doing EXCEPT ![s][x] = NotWorking]
    /\ overrun' = overrun \ {<<s, x>>}
    /\ UNCHANGED <<database, status, queue, messages, workQueueSize, feed, counters,
                   claims, asked, finished, abandoned>>

\* An access fails: the work is skipped, or its lock released; a lock that
\* is not released waits for its time to live.
AccessFails(s, x) ==
    LET w == doing[s][x].item.work IN
    /\ Trouble
    /\ \/ /\ doing[s][x].pc = "lock"
          /\ doing' = [doing EXCEPT ![s][x] = NotWorking]
          /\ UNCHANGED <<lock, runningWorkCount, overrun>>
       \/ /\ doing[s][x].pc \in {"probe", "reset", "update"}
          /\ doing' = [doing EXCEPT ![s][x] = [pc |-> "release", item |-> @.item]]
          /\ UNCHANGED <<lock, runningWorkCount, overrun>>
       \/ /\ doing[s][x].pc = "release"
          /\ lock' = IF lock[w] = <<s, x>> THEN [lock EXCEPT ![w] = Lost] ELSE lock
          /\ runningWorkCount' = [runningWorkCount EXCEPT ![s] = @ - 1]
          /\ doing' = [doing EXCEPT ![s][x] = NotWorking]
          /\ overrun' = overrun \ {<<s, x>>}
    /\ UNCHANGED <<database, status, queue, messages, workQueueSize, feed,
                   claims, asked, finished, abandoned>>

\* Faulty variant: a lock is obtained without a time to live.
LockNeverExpires(w) == FALSE

\* LOCK_TTL_SECONDS pass: nothing renews a lock while its work runs.
LockExpires(w) ==
    /\ lock[w] # Free
    /\ lock' = [lock EXCEPT ![w] = Free]
    /\ IF lock[w] = Lost THEN UNCHANGED <<overrun, counters>>
       ELSE overrun' = overrun \cup {lock[w]} /\ Trouble
    /\ UNCHANGED <<database, status, queue, messages, workQueueSize, runningWorkCount,
                   feed, doing, claims, asked, finished, abandoned>>

(***************************************************************************)
(* Processes: Run, Shutdown, and the end of a process.                     *)
(***************************************************************************)
Run(s) ==
    /\ status[s] = "down"
    /\ status' = [status EXCEPT ![s] = "up"]
    /\ UNCHANGED <<database, lock, queue, messages, workQueueSize, runningWorkCount,
                   feed, doing, counters, history>>

Shutdown(s) ==
    /\ status[s] = "up"
    /\ Trouble
    /\ status' = [status EXCEPT ![s] = "stopping"]
    /\ UNCHANGED <<database, lock, queue, messages, workQueueSize, runningWorkCount,
                   feed, doing, history>>

ReaderExits(s) ==
    /\ status[s] = "stopping" /\ feed[s]["reader"].pc = "idle"
    /\ Feed(s, "reader", [pc |-> "exited", works |-> <<>>])
    /\ UNCHANGED <<database, lock, status, queue, messages, workQueueSize, runningWorkCount,
                   doing, counters, history>>

WorkerExits(s, j) ==
    /\ status[s] = "stopping" /\ doing[s][j].pc = "idle"
    /\ doing' = [doing EXCEPT ![s][j] = Exited]
    /\ UNCHANGED <<database, lock, status, queue, messages, workQueueSize, runningWorkCount,
                   feed, counters, history>>

\* Everything in memory is gone; locks that the process holds stay in Redis.
ProcessEnds(s) ==
    /\ status' = [status EXCEPT ![s] = "down"]
    /\ lock' = [w \in Work |-> IF lock[w] \in {s} \X Thread THEN Lost ELSE lock[w]]
    /\ queue' = [queue EXCEPT ![s] = <<>>]
    /\ messages' = [messages EXCEPT ![s] = <<>>]
    /\ workQueueSize' = [workQueueSize EXCEPT ![s] = 0]
    /\ runningWorkCount' = [runningWorkCount EXCEPT ![s] = 0]
    /\ feed' = [feed EXCEPT ![s] = [g \in Feeder |-> Resting]]
    /\ doing' = [doing EXCEPT ![s] = [x \in Thread |-> NotWorking]]
    /\ overrun' = overrun \ ({s} \X Thread)
    /\ abandoned' = [abandoned EXCEPT ![s] = 0]
    /\ UNCHANGED <<database, claims, asked, finished>>

\* Shutdown waits for the reader and the workers, not for other goroutines.
ShutdownReturns(s) ==
    /\ status[s] = "stopping"
    /\ QueueClosed(s) /\ \A j \in Job : doing[s][j].pc = "exited"
    /\ ProcessEnds(s) /\ UNCHANGED counters

\* A send on the closed queue panics.
SendPanics(s, g) == feed[s][g].pc = "send" /\ QueueClosed(s) /\ ProcessEnds(s) /\ UNCHANGED counters

Crash(s) == status[s] = "up" /\ Trouble /\ ProcessEnds(s)
-----------------------------------------------------------------------------
Init ==
    /\ \E saved \in SUBSET Work :
           rows = [w \in saved |-> [id |-> OldId, next |-> "posted", set |-> FALSE]]
    /\ due = <<>>
    /\ lock = [w \in Work |-> Free]
    /\ status = [s \in Scheduler |-> "down"]
    /\ queue = [s \in Scheduler |-> <<>>]
    /\ messages = [s \in Scheduler |-> <<>>]
    /\ workQueueSize = [s \in Scheduler |-> 0]
    /\ runningWorkCount = [s \in Scheduler |-> 0]
    /\ feed = [s \in Scheduler |-> [g \in Feeder |-> Resting]]
    /\ doing = [s \in Scheduler |-> [x \in Thread |-> NotWorking]]
    /\ posts = 0 /\ cancels = 0 /\ troubles = 0
    /\ overrun = {} /\ asked = {} /\ finished = {}
    /\ claims = [w \in Work |-> 0]
    /\ abandoned = [s \in Scheduler |-> 0]

Users ==
    \/ \E w \in Work : UpdateWorkNextTime(w) \/ RemoveWork(w)
    \/ \E s \in Scheduler, w \in Work, mode \in PostMode :
           PostNoDb(s, w, mode) \/ \E inTransaction \in BOOLEAN : PostWork(s, w, mode, inTransaction)
    \/ \E s \in Scheduler : SendCancelled(s)

Failures ==
    \/ \E s \in Scheduler : Shutdown(s) \/ Crash(s)
    \/ \E s \in Scheduler, g \in Feeder : HoldFails(s, g) \/ SendPanics(s, g)
    \/ \E s \in Scheduler, x \in Thread : AccessFails(s, x)

FeederStep(s, g) ==
    \/ g = "reader" /\ (ReadWorks(s) \/ ReaderExits(s))
    \/ g = "handler" /\ Handle(s)
    \/ g = "poster" /\ Invoke(s)
    \/ HoldWorks(s, g) \/ Enqueue(s, g) \/ Send(s, g) \/ SendStopped(s, g)

ThreadStep(s, x) ==
    \/ x \in Job /\ (TakeWork(s, x) \/ WorkerExits(s, x))
    \/ AcquireLock(s, x) \/ ProbeRow(s, x) \/ ResetNextTimeSet(s, x)
    \/ \E done \in BOOLEAN : RunReturns(s, x, done)
    \/ UpdateProcessedWork(s, x) \/ ReleaseWork(s, x)

Next ==
    \/ Users \/ Failures
    \/ \E w \in Work : TimePasses(w) \/ LockExpires(w)
    \/ \E s \in Scheduler : Run(s) \/ ShutdownReturns(s)
    \/ \E s \in Scheduler, g \in Feeder : FeederStep(s, g)
    \/ \E s \in Scheduler, x \in Thread : ThreadStep(s, x)

\* Time passes and goroutines run; runners return; a process that stopped is
\* started again; a lock whose holder is gone runs out.
Fairness ==
    /\ \A w \in Work : WF_vars(TimePasses(w)) /\ WF_vars(lock[w] = Lost /\ LockExpires(w))
    /\ \A s \in Scheduler : WF_vars(Run(s)) /\ WF_vars(ShutdownReturns(s))
    /\ \A s \in Scheduler, g \in Feeder : WF_vars(FeederStep(s, g))
    /\ \A s \in Scheduler, x \in Thread : WF_vars(ThreadStep(s, x))

Spec == Init /\ [][Next]_vars /\ Fairness
-----------------------------------------------------------------------------
\* A row is handed out at most once from the moment its next time passes,
\* although schedulers and handlers list the same rows at the same time
\* (ClaimDueWorks, work_schedule.go:502), and two goroutines, of whatever
\* processes and however they came by the work, run it at the same time only
\* if a lock ran out before the run it protects was over (AcquireWork,
\* work_schedule.go:340).
OneRunner ==
    \A w \in Work :
        /\ claims[w] <= 1
        /\ \A a, b \in Owner :
               a # b /\ Runs(a[1], a[2], w) /\ Runs(b[1], b[2], w) => overrun \cap {a, b} # {}

\* AcquireWork (work_schedule.go:341): a copy of a work that waits in a queue
\* while another copy is run to its end is not run; the exception is a
\* goroutine that got the lock because it ran out.
NotRunAgain ==
    \A s \in Scheduler, x \in Thread :
        /\ doing[s][x].pc = "run"
        /\ doing[s][x].item \in finished
        => <<s, x>> \in overrun

\* The counters that ClaimDueWorks subtracts from BUCKET_SIZE
\* (work_schedule.go:519) are the works that run and the works on their way
\* through the queue, on every path of AcquireWork, DoWork and enqueuWork,
\* except that each send that was given up is counted for ever.
CountersExact ==
    \A s \in Scheduler :
        /\ runningWorkCount[s] = Cardinality({x \in Thread : Holds(s, x)})
        /\ workQueueSize[s] = Len(queue[s]) + Cardinality({g \in Feeder : feed[s][g].pc = "send"})
                              + abandoned[s]

\* A next time that UpdateWorkNextTime sets while a work runs is not
\* overwritten when the run is over (work_schedule.go:765).
RescheduleKept == \A w \in asked : rows[w].next = "explicit"

\* No work is forgotten: a work that is due is run or removed, through
\* crashes, restarts, lost locks, lost notifications and failed accesses, as
\* long as fewer than BUCKET_SIZE sends were given up.
DueIsRun ==
    \A w \in Work :
        w \in ToSet(due) ~> \/ w \notin DOMAIN rows
                            \/ \E s \in Scheduler, x \in Thread : Runs(s, x, w)
=============================================================================
