------------------------- MODULE WorkScheduleProofs -------------------------
(***************************************************************************)
(* Theorems about WorkSchedule for any number of processes, workers, works *)
(* and failures.                                                           *)
(***************************************************************************)
EXTENDS WorkSchedule, FiniteSetTheorems, SequenceTheorems, WellFoundedInduction, TLAPS

Row == [id : 1 .. OldId, next : {"posted", "explicit", "held", "interval"}, set : BOOLEAN]

FeedRecord ==
    [pc : {"idle", "exited", "listed", "enqueue", "send", "DIRECT", "QUEUED"}, works : Seq(Item)]

DoingRecord ==
    [pc : {"idle", "exited"}]
      \cup [pc : {"lock", "probe", "reset", "run", "release"}, item : Item]
      \cup [pc : {"update"}, item : Item, done : BOOLEAN]

Message == [item : Item, mode : {"DIRECT", "QUEUED"}]

(* The database and what the histories say of it.                          *)
DatabaseOK ==
    /\ DOMAIN rows \subseteq Work
    /\ rows \in [DOMAIN rows -> Row]
    /\ posts \in 0 .. MaxPosts
    /\ \A w \in DOMAIN rows : rows[w].id \in 1 .. posts \cup {OldId}
    /\ due \in Seq(DOMAIN rows)
    /\ claims \in [Work -> Nat]

(* A row that is due was not handed out since.                             *)
ClaimedOnce ==
    \A w \in Work : claims[w] <= 1 /\ (w \in ToSet(due) => claims[w] = 0)

(* A work that somebody asked to reschedule carries the mark that keeps    *)
(* SaveNextTime from its row.                                              *)
AskedAreSet ==
    /\ asked \subseteq DOMAIN rows
    /\ \A w \in asked : rows[w].next = "explicit" /\ rows[w].set

(* The row of a work that is done never comes back.                        *)
FinishedAreGone ==
    /\ finished \subseteq Item
    /\ \A item \in finished : ~Saved(item) /\ item.id \in 1 .. posts \cup {OldId}

MemoryOK ==
    /\ status \in [Scheduler -> {"down", "up", "stopping"}]
    /\ queue \in [Scheduler -> Seq(Item)]
    /\ messages \in [Scheduler -> Seq(Message)]
    /\ feed \in [Scheduler -> [Feeder -> FeedRecord]]
    /\ \A s \in Scheduler : \A g \in Feeder :
          feed[s][g].pc \notin {"idle", "exited", "listed"} => feed[s][g].works # <<>>

DoingOK == doing \in [Scheduler -> [Thread -> DoingRecord]]

LocksOK ==
    /\ lock \in [Work -> Owner \cup {Free, Lost}]
    /\ overrun \subseteq Owner

WorkOf(s, x) == doing[s][x].item.work

(* Who works under a lock holds it, or it ran out.                         *)
LockHeld ==
    \A s \in Scheduler, x \in Thread :
       Holds(s, x) => lock[WorkOf(s, x)] = <<s, x>> \/ <<s, x>> \in overrun

(* Two goroutines work under one lock only when it ran out, and then both  *)
(* are known to.                                                           *)
TwoOverrun ==
    \A s, t \in Scheduler, x, y \in Thread :
       Holds(s, x) /\ Holds(t, y) /\ WorkOf(s, x) = WorkOf(t, y) /\ <<s, x>> # <<t, y>>
          => <<s, x>> \in overrun

(* A work that is done is not run, from the test of its row on.            *)
NotAgain ==
    \A s \in Scheduler, x \in Thread :
       doing[s][x].pc \in {"reset", "run"} /\ doing[s][x].item \in finished => <<s, x>> \in overrun

(* Whoever posts a work is not running one.                                *)
PosterFree ==
    \A s \in Scheduler :
       feed[s]["poster"].pc \in {"DIRECT", "QUEUED"} => doing[s]["poster"].pc = "idle"

CountersOK ==
    /\ workQueueSize \in [Scheduler -> Int] /\ runningWorkCount \in [Scheduler -> Int]
    /\ abandoned \in [Scheduler -> Nat]
    /\ CountersExact

IInv ==
    /\ DatabaseOK /\ ClaimedOnce /\ AskedAreSet /\ FinishedAreGone
    /\ MemoryOK /\ DoingOK /\ LocksOK
    /\ LockHeld /\ TwoOverrun /\ NotAgain
    /\ PosterFree /\ CountersOK

-----------------------------------------------------------------------------
(* A set of naturals that is not empty has a least element.                *)
LEMMA LeastNatural ==
    ASSUME NEW T \in SUBSET Nat, T # {}
    PROVE  \E n \in T : \A m \in T : n <= m
<1>1. PICK n \in T : \A m \in T : ~ (<<m, n>> \in OpToRel(<, Nat))
  BY NatLessThanWellFounded, WFMin
<1>2. ASSUME NEW m \in T PROVE n <= m
  <2>1. m \in Nat /\ n \in Nat
    OBVIOUS
  <2>2. ~ (<<m, n>> \in {p \in Nat \X Nat : p[1] < p[2]})
    BY <1>1 DEF OpToRel
  <2>3. ~ (m < n)
    BY <2>1, <2>2
  <2> QED
    BY <2>1, <2>3
<1> QED
  BY <1>2

(* Removing works from the sequence of due ones keeps the others.  The     *)
(* function that Without defines exists, step by step, and every one of    *)
(* its values is made of works that stay.                                  *)
LEMMA WithoutIs ==
    ASSUME NEW S, NEW q \in Seq(S), NEW set
    PROVE  Without(q, set) \in Seq(ToSet(q) \ set)
<1> DEFINE T == ToSet(q) \ set
<1> DEFINE Step(f, i) == IF i = 0 THEN <<>>
                         ELSE IF q[i] \in set THEN f[i - 1] ELSE Append(f[i - 1], q[i])
<1>0. Len(q) \in Nat /\ DOMAIN q = 1 .. Len(q)
  OBVIOUS
<1>1. \A i \in 1 .. Len(q) : q[i] \notin set => q[i] \in T
  BY <1>0 DEF ToSet
<1> HIDE DEF T
<1> DEFINE Good(n) == \E f \in [0 .. n -> Seq(T)] : \A i \in 0 .. n : f[i] = Step(f, i)
<1> DEFINE Bad == {n \in 0 .. Len(q) : ~Good(n)}
<1>2. Bad = {}
  <2> SUFFICES ASSUME Bad # {} PROVE FALSE
    OBVIOUS
  <2>1. PICK n \in Bad : \A m \in Bad : n <= m
    <3>1. Bad \in SUBSET Nat
      BY <1>0
    <3> HIDE DEF Bad
    <3> QED
      BY <3>1, LeastNatural
  <2>2. CASE n = 0
    <3> DEFINE f == [i \in 0 .. 0 |-> <<>>]
    <3>1. f \in [0 .. 0 -> Seq(T)] /\ \A i \in 0 .. 0 : f[i] = Step(f, i)
      OBVIOUS
    <3> HIDE DEF f
    <3>2. Good(0)
      BY <3>1
    <3> QED
      BY <2>1, <2>2, <3>2
  <2>3. CASE n # 0
    <3>0. n \in 0 .. Len(q)
      BY <2>1
    <3>1. n \in 1 .. Len(q) /\ n - 1 \in 0 .. Len(q)
      BY <1>0, <2>3, <3>0
    <3>9. n - 1 \notin Bad
      <4> HIDE DEF Bad
      <4> QED
        BY <1>0, <2>1, <3>1
    <3>10. Good(n - 1)
      <4> HIDE DEF Good
      <4> QED
        BY <3>1, <3>9
    <3>2. PICK f \in [0 .. n - 1 -> Seq(T)] : \A i \in 0 .. n - 1 : f[i] = Step(f, i)
      BY <3>10
    <3> DEFINE v == Step(f, n)
    <3>3. v \in Seq(T)
      <4>1. f[n - 1] \in Seq(T)
        BY <3>1, <3>2
      <4> QED
        BY <1>1, <2>3, <3>1, <4>1
    <3> HIDE DEF v
    <3> DEFINE h == [i \in 0 .. n |-> IF i = n THEN v ELSE f[i]]
    <3>4. h \in [0 .. n -> Seq(T)]
      BY <3>1, <3>2, <3>3
    <3>5. \A i \in 0 .. n - 1 : h[i] = f[i]
      BY <3>1
    <3>6. h[n] = v
      BY <3>1
    <3> HIDE DEF h
    <3>7. \A i \in 0 .. n : h[i] = Step(h, i)
      <4>1. h[n] = Step(h, n)
        BY <2>3, <3>1, <3>5, <3>6 DEF v
      <4>2. ASSUME NEW i \in 0 .. n - 1 PROVE h[i] = Step(h, i)
        <5>1. i = 0 \/ i - 1 \in 0 .. n - 1
          BY <3>1, <4>2
        <5> QED
          BY <3>2, <3>5, <4>2, <5>1
      <4>3. \A i \in 0 .. n : i = n \/ i \in 0 .. n - 1
        BY <3>1
      <4> QED
        BY <4>1, <4>2, <4>3
    <3>8. Good(n)
      BY <3>4, <3>7
    <3> QED
      BY <2>1, <3>8
  <2> QED
    BY <2>2, <2>3
<1>3. PICK f \in [0 .. Len(q) -> Seq(T)] : \A i \in 0 .. Len(q) : f[i] = Step(f, i)
  <2>1. Good(Len(q))
    <3> HIDE DEF Good
    <3> QED
      BY <1>0, <1>2
  <2> QED
    BY <2>1
<1> DEFINE kept == CHOOSE g : g = [i \in 0 .. Len(q) |-> Step(g, i)]
<1>4. kept = [i \in 0 .. Len(q) |-> Step(kept, i)]
  <2>1. f = [i \in 0 .. Len(q) |-> Step(f, i)]
    BY <1>3
  <2> QED
    BY <2>1
<1>5. Without(q, set) = kept[Len(q)]
  BY DEF Without
<1> HIDE DEF kept
<1> DEFINE Odd == {n \in 0 .. Len(q) : kept[n] # f[n]}
<1>6. Odd = {}
  <2> SUFFICES ASSUME Odd # {} PROVE FALSE
    OBVIOUS
  <2>1. PICK n \in Odd : \A m \in Odd : n <= m
    <3>1. Odd \in SUBSET Nat
      BY <1>0
    <3> HIDE DEF Odd
    <3> QED
      BY <3>1, LeastNatural
  <2>2. kept[n] = Step(kept, n) /\ f[n] = Step(f, n)
    BY <1>3, <1>4
  <2>3. n # 0 => kept[n - 1] = f[n - 1]
    <3>1. n # 0 => n - 1 \in 0 .. Len(q) /\ n - 1 \notin Odd
      BY <1>0, <2>1
    <3> QED
      BY <3>1
  <2>4. kept[n] = f[n]
    BY <2>2, <2>3
  <2> QED
    BY <2>4
<1>7. kept[Len(q)] \in Seq(T)
  BY <1>0, <1>3, <1>6
<1> QED
  BY <1>5, <1>7 DEF T

-----------------------------------------------------------------------------
(* Sequences and the sets of their elements.                               *)
LEMMA SeqWiden ==
    ASSUME NEW A, NEW B, A \subseteq B, NEW q \in Seq(A)
    PROVE  q \in Seq(B) /\ ToSet(q) \subseteq A
<1>1. q \in Seq(B)
  OBVIOUS
<1>2. ToSet(q) \subseteq A
  BY DEF ToSet
<1> QED
  BY <1>1, <1>2

LEMMA AppendIs ==
    ASSUME NEW A, NEW q \in Seq(A), NEW a \in A
    PROVE  Append(q, a) \in Seq(A) /\ ToSet(Append(q, a)) = ToSet(q) \cup {a}
<1>1. Append(q, a) \in Seq(A)
  OBVIOUS
<1>2. DOMAIN Append(q, a) = 1 .. Len(q) + 1 /\ DOMAIN q = 1 .. Len(q) /\ Len(q) \in Nat
  BY AppendProperties
<1>3. \A i \in 1 .. Len(q) : Append(q, a)[i] = q[i]
  BY AppendProperties
<1>4. Append(q, a)[Len(q) + 1] = a
  BY AppendProperties
<1>5. \A i \in 1 .. Len(q) + 1 : i \in 1 .. Len(q) \/ i = Len(q) + 1
  BY <1>2
<1>6. Len(q) + 1 \in 1 .. Len(q) + 1 /\ \A i \in 1 .. Len(q) : i \in 1 .. Len(q) + 1
  BY <1>2
<1>7. ToSet(Append(q, a)) = ToSet(q) \cup {a}
  <2>1. ToSet(Append(q, a)) = {Append(q, a)[i] : i \in 1 .. Len(q) + 1}
    BY <1>2 DEF ToSet
  <2>2. ToSet(q) = {q[i] : i \in 1 .. Len(q)}
    BY <1>2 DEF ToSet
  <2> HIDE DEF ToSet
  <2>3. ASSUME NEW v \in ToSet(Append(q, a)) PROVE v \in ToSet(q) \cup {a}
    <3>1. PICK i \in 1 .. Len(q) + 1 : v = Append(q, a)[i]
      BY <2>1
    <3> QED
      BY <1>3, <1>4, <1>5, <2>2, <3>1
  <2>4. ASSUME NEW v \in ToSet(q) PROVE v \in ToSet(Append(q, a))
    <3>1. PICK i \in 1 .. Len(q) : v = q[i]
      BY <2>2
    <3> QED
      BY <1>3, <1>6, <2>1, <3>1
  <2>5. a \in ToSet(Append(q, a))
    BY <1>4, <1>6, <2>1
  <2> QED
    BY <2>3, <2>4, <2>5
<1> QED
  BY <1>1, <1>7

(* NotDue takes the given works off, and no others come in.                *)
LEMMA NotDueIs ==
    ASSUME NEW D, due \in Seq(D), NEW set
    PROVE  /\ NotDue(set) \in Seq(D \ set)
           /\ NotDue(set) \in Seq(D)
           /\ ToSet(NotDue(set)) \subseteq ToSet(due) \ set
<1> DEFINE kept == NotDue(set)
<1>1. kept \in Seq(ToSet(due) \ set)
  BY WithoutIs DEF NotDue
<1>2. ToSet(due) \subseteq D
  BY SeqWiden
<1> HIDE DEF kept
<1>3. ToSet(due) \ set \subseteq D \ set /\ ToSet(due) \ set \subseteq D
  BY <1>2
<1>4. kept \in Seq(D \ set) /\ kept \in Seq(D)
  BY <1>1, <1>3, SeqWiden
<1>5. ToSet(kept) \subseteq ToSet(due) \ set
  BY <1>1, SeqWiden
<1> QED
  BY <1>4, <1>5 DEF kept

(* Works in memory have a reference and an id.                             *)
LEMMA OldIdIs == MaxPosts \in Nat /\ OldId \in Nat /\ OldId = MaxPosts + 1 /\ NoDb = 0
BY WorkScheduleAssumption DEF OldId, NoDb

LEMMA ItemIs ==
    ASSUME NEW item \in Item
    PROVE  item.work \in Work /\ item.id \in 0 .. OldId
BY OldIdIs DEF Item

LEMMA ItemMade ==
    ASSUME NEW w \in Work, NEW n \in 0 .. OldId
    PROVE  /\ [work |-> w, id |-> n] \in Item
           /\ [work |-> w, id |-> n].work = w /\ [work |-> w, id |-> n].id = n
BY OldIdIs DEF Item

-----------------------------------------------------------------------------
(* The actions of Next, one by one.                                        *)
LEMMA NextCases ==
    ASSUME [Next]_vars
    PROVE  \/ UNCHANGED vars
           \/ \E w \in Work : \/ TimePasses(w) \/ LockExpires(w)
                              \/ UpdateWorkNextTime(w) \/ RemoveWork(w)
           \/ \E s \in Scheduler, w \in Work, mode \in PostMode :
                 PostNoDb(s, w, mode) \/ \E t \in BOOLEAN : PostWork(s, w, mode, t)
           \/ \E s \in Scheduler : \/ SendCancelled(s) \/ Shutdown(s) \/ Crash(s)
                                   \/ Run(s) \/ ShutdownReturns(s)
                                   \/ ReadWorks(s) \/ ReaderExits(s) \/ Handle(s) \/ Invoke(s)
           \/ \E s \in Scheduler, g \in Feeder :
                 \/ HoldFails(s, g) \/ SendPanics(s, g)
                 \/ HoldWorks(s, g) \/ Enqueue(s, g) \/ Send(s, g) \/ SendStopped(s, g)
           \/ \E s \in Scheduler, x \in Thread :
                 \/ AccessFails(s, x) \/ (x \in Job /\ (TakeWork(s, x) \/ WorkerExits(s, x)))
                 \/ AcquireLock(s, x) \/ ProbeRow(s, x) \/ ResetNextTimeSet(s, x)
                 \/ UpdateProcessedWork(s, x) \/ ReleaseWork(s, x)
                 \/ \E done \in BOOLEAN : RunReturns(s, x, done)
<1>1. CASE UNCHANGED vars
  BY <1>1
<1>2. CASE Users
  BY <1>2 DEF Users
<1>3. CASE Failures
  <2>1. CASE \E s \in Scheduler : Shutdown(s) \/ Crash(s)
    BY <2>1
  <2>2. CASE \E s \in Scheduler, g \in Feeder : HoldFails(s, g) \/ SendPanics(s, g)
    BY <2>2
  <2>3. CASE \E s \in Scheduler, x \in Thread : AccessFails(s, x)
    BY <2>3
  <2> QED
    BY <1>3, <2>1, <2>2, <2>3 DEF Failures
<1>4. ASSUME NEW s \in Scheduler, NEW g \in Feeder, FeederStep(s, g)
      PROVE  \/ ReadWorks(s) \/ ReaderExits(s) \/ Handle(s) \/ Invoke(s)
             \/ HoldWorks(s, g) \/ Enqueue(s, g) \/ Send(s, g) \/ SendStopped(s, g)
  BY <1>4 DEF FeederStep
<1>5. ASSUME NEW s \in Scheduler, NEW x \in Thread, ThreadStep(s, x)
      PROVE  \/ x \in Job /\ (TakeWork(s, x) \/ WorkerExits(s, x))
             \/ AcquireLock(s, x) \/ ProbeRow(s, x) \/ ResetNextTimeSet(s, x)
             \/ UpdateProcessedWork(s, x) \/ ReleaseWork(s, x)
             \/ \E done \in BOOLEAN : RunReturns(s, x, done)
  BY <1>5 DEF ThreadStep
<1>6. CASE \E s \in Scheduler, g \in Feeder : FeederStep(s, g)
  BY <1>4, <1>6
<1>7. CASE \E s \in Scheduler, x \in Thread : ThreadStep(s, x)
  BY <1>5, <1>7
<1>8. CASE \E w \in Work : TimePasses(w) \/ LockExpires(w)
  BY <1>8
<1>9. CASE \E s \in Scheduler : Run(s) \/ ShutdownReturns(s)
  BY <1>9
<1> QED
  BY <1>1, <1>2, <1>3, <1>6, <1>7, <1>8, <1>9 DEF Next

-----------------------------------------------------------------------------
(* The database.                                                           *)
DatabaseInv == DatabaseOK /\ ClaimedOnce /\ AskedAreSet /\ FinishedAreGone

LEMMA DatabaseFrame ==
    ASSUME DatabaseInv, UNCHANGED <<rows, due, posts, claims, asked, finished>>
    PROVE  DatabaseInv'
BY DEF DatabaseInv, DatabaseOK, ClaimedOnce, AskedAreSet, FinishedAreGone, Saved

(* A row that is changed keeps its id.                                     *)
LEMMA RowChanges ==
    ASSUME DatabaseInv, NEW w \in DOMAIN rows, NEW r \in Row, r.id = rows[w].id,
           rows' = [rows EXCEPT ![w] = r]
    PROVE  /\ DOMAIN rows' = DOMAIN rows /\ rows' \in [DOMAIN rows' -> Row]
           /\ \A v \in DOMAIN rows : rows'[v].id = rows[v].id
           /\ \A v \in DOMAIN rows : v # w => rows'[v] = rows[v]
           /\ rows'[w] = r
           /\ \A item : Saved(item)' = Saved(item)
<1>1. rows \in [DOMAIN rows -> Row]
  BY DEF DatabaseInv, DatabaseOK
<1>2. DOMAIN rows' = DOMAIN rows /\ rows' \in [DOMAIN rows' -> Row]
  BY <1>1
<1>3. rows'[w] = r /\ \A v \in DOMAIN rows : v # w => rows'[v] = rows[v]
  BY <1>1
<1>4. \A v \in DOMAIN rows : rows'[v].id = rows[v].id
  BY <1>3
<1>5. \A item : Saved(item)' = Saved(item)
  BY <1>2, <1>4 DEF Saved
<1> QED
  BY <1>2, <1>3, <1>4, <1>5

(* A row that is deleted leaves the others as they are.                    *)
LEMMA RowGoes ==
    ASSUME DatabaseInv, NEW w, rows' = WithoutRow(w)
    PROVE  /\ DOMAIN rows' = DOMAIN rows \ {w} /\ rows' \in [DOMAIN rows' -> Row]
           /\ \A v \in DOMAIN rows' : rows'[v] = rows[v]
           /\ \A item : Saved(item)' => Saved(item) /\ item.work # w
<1>1. rows \in [DOMAIN rows -> Row]
  BY DEF DatabaseInv, DatabaseOK
<1>2. DOMAIN rows' = DOMAIN rows \ {w} /\ \A v \in DOMAIN rows' : rows'[v] = rows[v]
  BY DEF WithoutRow
<1>3. rows' \in [DOMAIN rows' -> Row]
  BY <1>1 DEF WithoutRow
<1> QED
  BY <1>2, <1>3 DEF Saved

(* What is left to show for a change of rows and due only.                 *)
LEMMA DueShrinks ==
    ASSUME DatabaseInv, NEW set, due' = NotDue(set), claims' = claims,
           DOMAIN rows \ set \subseteq DOMAIN rows'
    PROVE  due' \in Seq(DOMAIN rows') /\ ClaimedOnce'
<1>1. due \in Seq(DOMAIN rows)
  BY DEF DatabaseInv, DatabaseOK
<1>2. due' \in Seq(DOMAIN rows \ set) /\ ToSet(due') \subseteq ToSet(due)
  BY <1>1, NotDueIs
<1>3. due' \in Seq(DOMAIN rows')
  BY <1>2, SeqWiden
<1>4. ClaimedOnce'
  BY <1>2 DEF ClaimedOnce, DatabaseInv
<1> QED
  BY <1>3, <1>4

LEMMA TimePassesDb ==
    ASSUME DatabaseInv, NEW w \in Work, TimePasses(w)
    PROVE  DatabaseInv'
<1>1. due \in Seq(DOMAIN rows) /\ claims \in [Work -> Nat] /\ w \in DOMAIN rows
  BY DEF DatabaseInv, DatabaseOK, TimePasses
<1>2. /\ due' = Append(NotDue({w}), w) /\ claims' = [claims EXCEPT ![w] = 0]
      /\ UNCHANGED <<rows, posts, asked, finished>>
  BY DEF TimePasses, BecomesDue, Trouble, counters
<1>3. NotDue({w}) \in Seq(DOMAIN rows) /\ ToSet(NotDue({w})) \subseteq ToSet(due)
  BY <1>1, NotDueIs
<1>4. due' \in Seq(DOMAIN rows) /\ ToSet(due') \subseteq ToSet(due) \cup {w}
  <2> DEFINE kept == NotDue({w})
  <2>1. due' = Append(kept, w) /\ kept \in Seq(DOMAIN rows) /\ ToSet(kept) \subseteq ToSet(due)
    BY <1>2, <1>3
  <2> HIDE DEF kept
  <2>2. Append(kept, w) \in Seq(DOMAIN rows) /\ ToSet(Append(kept, w)) = ToSet(kept) \cup {w}
    BY <1>1, <2>1, AppendIs
  <2> QED
    BY <2>1, <2>2
<1>5. claims' \in [Work -> Nat] /\ claims'[w] = 0 /\ \A v \in Work : v # w => claims'[v] = claims[v]
  BY <1>1, <1>2
<1>6. DatabaseOK'
  BY <1>2, <1>4, <1>5 DEF DatabaseInv, DatabaseOK
<1>7. ClaimedOnce'
  BY <1>4, <1>5 DEF DatabaseInv, ClaimedOnce
<1>8. AskedAreSet' /\ FinishedAreGone'
  BY <1>2 DEF DatabaseInv, AskedAreSet, FinishedAreGone, Saved
<1> QED
  BY <1>6, <1>7, <1>8 DEF DatabaseInv

LEMMA UpdateNextTimeDb ==
    ASSUME DatabaseInv, NEW w \in Work, UpdateWorkNextTime(w)
    PROVE  DatabaseInv'
<1> DEFINE r == [rows[w] EXCEPT !.next = "explicit", !.set = TRUE]
<1>1. /\ w \in DOMAIN rows /\ due' = NotDue({w}) /\ asked' = asked \cup {w}
      /\ UNCHANGED <<posts, claims, finished>>
  BY DEF UpdateWorkNextTime, Trouble
<1>2. rows' = [rows EXCEPT ![w] = r]
  BY DEF UpdateWorkNextTime
<1>3. rows[w] \in Row
  BY <1>1 DEF DatabaseInv, DatabaseOK
<1>4. r \in Row /\ r.id = rows[w].id /\ r.next = "explicit" /\ r.set = TRUE
  BY <1>3 DEF Row
<1> HIDE DEF r
<1>5. /\ DOMAIN rows' = DOMAIN rows /\ rows' \in [DOMAIN rows' -> Row]
      /\ \A v \in DOMAIN rows : rows'[v].id = rows[v].id
      /\ \A v \in DOMAIN rows : v # w => rows'[v] = rows[v]
      /\ rows'[w] = r
      /\ \A item : Saved(item)' = Saved(item)
  BY <1>1, <1>2, <1>4, RowChanges
<1>6. due' \in Seq(DOMAIN rows') /\ ClaimedOnce'
  BY <1>1, <1>5, DueShrinks
<1>7. DatabaseOK'
  BY <1>1, <1>5, <1>6 DEF DatabaseInv, DatabaseOK
<1>8. AskedAreSet'
  BY <1>1, <1>4, <1>5 DEF DatabaseInv, AskedAreSet
<1>9. FinishedAreGone'
  BY <1>1, <1>5 DEF DatabaseInv, FinishedAreGone
<1> QED
  BY <1>6, <1>7, <1>8, <1>9 DEF DatabaseInv

LEMMA RemoveWorkDb ==
    ASSUME DatabaseInv, NEW w \in Work, RemoveWork(w)
    PROVE  DatabaseInv'
<1>1. /\ rows' = WithoutRow(w) /\ due' = NotDue({w}) /\ asked' = asked \ {w}
      /\ UNCHANGED <<posts, claims, finished>>
  BY DEF RemoveWork, Trouble
<1>5. /\ DOMAIN rows' = DOMAIN rows \ {w} /\ rows' \in [DOMAIN rows' -> Row]
      /\ \A v \in DOMAIN rows' : rows'[v] = rows[v]
      /\ \A item : Saved(item)' => Saved(item)
  BY <1>1, RowGoes
<1>6. due' \in Seq(DOMAIN rows') /\ ClaimedOnce'
  BY <1>1, <1>5, DueShrinks
<1>7. DatabaseOK'
  BY <1>1, <1>5, <1>6 DEF DatabaseInv, DatabaseOK
<1>8. AskedAreSet'
  BY <1>1, <1>5 DEF DatabaseInv, AskedAreSet
<1>9. FinishedAreGone'
  BY <1>1, <1>5 DEF DatabaseInv, FinishedAreGone
<1> QED
  BY <1>6, <1>7, <1>8, <1>9 DEF DatabaseInv

LEMMA PostsCount ==
    ASSUME DatabaseInv, posts < MaxPosts, posts' = posts + 1
    PROVE  /\ posts' \in 0 .. MaxPosts /\ posts + 1 \in 1 .. MaxPosts
           /\ \A n \in 1 .. posts \cup {OldId} : n \in 1 .. posts' \cup {OldId} /\ n # posts + 1
BY OldIdIs DEF DatabaseInv, DatabaseOK

LEMMA PostNoDbDb ==
    ASSUME DatabaseInv, NEW s \in Scheduler, NEW w \in Work, NEW mode, PostNoDb(s, w, mode)
    PROVE  DatabaseInv'
<1>1. /\ posts < MaxPosts /\ posts' = posts + 1
      /\ UNCHANGED <<rows, due, claims, asked, finished>>
  BY DEF PostNoDb, database, history
<1>2. posts' \in 0 .. MaxPosts /\ \A n \in 1 .. posts \cup {OldId} : n \in 1 .. posts' \cup {OldId}
  BY <1>1, PostsCount
<1>3. DatabaseOK'
  BY <1>1, <1>2 DEF DatabaseInv, DatabaseOK
<1>4. ClaimedOnce' /\ AskedAreSet'
  BY <1>1 DEF DatabaseInv, ClaimedOnce, AskedAreSet
<1>5. FinishedAreGone'
  BY <1>1, <1>2 DEF DatabaseInv, FinishedAreGone, Saved
<1> QED
  BY <1>3, <1>4, <1>5 DEF DatabaseInv

LEMMA PostWorkDb ==
    ASSUME DatabaseInv, NEW s \in Scheduler, NEW w \in Work, NEW mode, NEW t,
           PostWork(s, w, mode, t)
    PROVE  DatabaseInv'
<1> DEFINE item == [work |-> w, id |-> posts + 1]
<1>1. /\ posts < MaxPosts /\ posts' = posts + 1 /\ CreateDup(item, mode)
      /\ UNCHANGED <<asked, finished>>
  BY DEF PostWork
<1>2. /\ posts' \in 0 .. MaxPosts /\ posts + 1 \in 1 .. MaxPosts
      /\ \A n \in 1 .. posts \cup {OldId} : n \in 1 .. posts' \cup {OldId} /\ n # posts + 1
  BY <1>1, PostsCount
<1>3. due \in Seq(DOMAIN rows) /\ claims \in [Work -> Nat] /\ rows \in [DOMAIN rows -> Row]
  BY DEF DatabaseInv, DatabaseOK
<1>4. CASE w \in DOMAIN rows
  <2>1. UNCHANGED <<rows, due, claims>>
    BY <1>1, <1>4 DEF CreateDup, database
  <2>2. DatabaseOK'
    BY <1>1, <1>2, <2>1 DEF DatabaseInv, DatabaseOK
  <2>3. ClaimedOnce' /\ AskedAreSet'
    BY <1>1, <2>1 DEF DatabaseInv, ClaimedOnce, AskedAreSet
  <2>4. FinishedAreGone'
    BY <1>1, <1>2, <2>1 DEF DatabaseInv, FinishedAreGone, Saved
  <2> QED
    BY <2>2, <2>3, <2>4 DEF DatabaseInv
<1>5. CASE w \notin DOMAIN rows
  <2> DEFINE r == [id |-> posts + 1, next |-> "posted", set |-> FALSE]
  <2>1. /\ rows' = WithRow(w, r)
        /\ IF mode = "SCHEDULE" THEN UNCHANGED <<due, claims>> ELSE BecomesDue(w)
    BY <1>1, <1>5 DEF CreateDup
  <2>2. r \in Row /\ r.id = posts + 1
    BY <1>2, OldIdIs DEF Row
  <2> HIDE DEF r
  <2>3. /\ DOMAIN rows' = DOMAIN rows \cup {w} /\ rows'[w] = r
        /\ \A v \in DOMAIN rows : rows'[v] = rows[v]
    BY <1>5, <2>1 DEF WithRow
  <2>4. rows' \in [DOMAIN rows' -> Row]
    BY <1>3, <1>5, <2>1, <2>2, <2>3 DEF WithRow
  <2>5. /\ due' \in Seq(DOMAIN rows') /\ claims' \in [Work -> Nat]
        /\ ToSet(due') \subseteq ToSet(due) \cup {w}
        /\ \A v \in Work : claims'[v] = claims[v] \/ claims'[v] = 0
        /\ w \in ToSet(due') => claims'[w] = 0
    <3>1. CASE mode = "SCHEDULE"
      <4>1. UNCHANGED <<due, claims>>
        BY <2>1, <3>1
      <4>2. due \in Seq(DOMAIN rows') /\ ToSet(due) \subseteq DOMAIN rows
        BY <1>3, <2>3, SeqWiden
      <4> QED
        BY <1>3, <1>5, <4>1, <4>2
    <3>2. CASE mode # "SCHEDULE"
      <4> DEFINE kept == NotDue({w})
      <4>1. due' = Append(kept, w) /\ claims' = [claims EXCEPT ![w] = 0]
        BY <2>1, <3>2 DEF BecomesDue
      <4>2. kept \in Seq(DOMAIN rows) /\ ToSet(kept) \subseteq ToSet(due)
        BY <1>3, NotDueIs
      <4> HIDE DEF kept
      <4>3. kept \in Seq(DOMAIN rows') /\ w \in DOMAIN rows'
        BY <2>3, <4>2, SeqWiden
      <4>4. /\ Append(kept, w) \in Seq(DOMAIN rows')
            /\ ToSet(Append(kept, w)) = ToSet(kept) \cup {w}
        BY <4>3, AppendIs
      <4>5. claims' \in [Work -> Nat] /\ claims'[w] = 0 /\ \A v \in Work : v # w => claims'[v] = claims[v]
        BY <1>3, <4>1
      <4> QED
        BY <4>1, <4>2, <4>4, <4>5
    <3> QED
      BY <3>1, <3>2
  <2>6. DatabaseOK'
    <3>1. DOMAIN rows' \subseteq Work
      BY <2>3 DEF DatabaseInv, DatabaseOK
    <3>2. posts + 1 \in 1 .. posts' \cup {OldId}
      BY <1>1, <1>2
    <3>3. \A v \in DOMAIN rows' : rows'[v].id \in 1 .. posts' \cup {OldId}
      BY <1>2, <2>2, <2>3, <3>2 DEF DatabaseInv, DatabaseOK
    <3> QED
      BY <1>2, <2>4, <2>5, <3>1, <3>3 DEF DatabaseOK
  <2>7. ClaimedOnce'
    BY <1>3, <2>5 DEF DatabaseInv, ClaimedOnce
  <2>8. AskedAreSet'
    BY <1>1, <1>5, <2>3 DEF DatabaseInv, AskedAreSet
  <2>9. FinishedAreGone'
    <3> SUFFICES ASSUME NEW i \in finished
                 PROVE  ~Saved(i)' /\ i.id \in 1 .. posts' \cup {OldId}
      BY <1>1 DEF FinishedAreGone, DatabaseInv
    <3>1. ~Saved(i) /\ i.id \in 1 .. posts \cup {OldId}
      BY DEF FinishedAreGone, DatabaseInv
    <3>2. i.id # posts + 1 /\ i.id \in 1 .. posts' \cup {OldId}
      BY <1>2, <3>1
    <3> QED
      BY <2>2, <2>3, <3>1, <3>2 DEF Saved
  <2> QED
    BY <2>6, <2>7, <2>8, <2>9 DEF DatabaseInv
<1> QED
  BY <1>4, <1>5

LEMMA HoldWorksDb ==
    ASSUME DatabaseInv, NEW s \in Scheduler, NEW g \in Feeder, HoldWorks(s, g)
    PROVE  DatabaseInv'
<1> DEFINE items == StillDue(feed[s][g].works)
<1> DEFINE works == {item.work : item \in items}
<1>1. /\ rows' = [w \in DOMAIN rows |->
             IF w \in works THEN [rows[w] EXCEPT !.next = "held", !.set = FALSE] ELSE rows[w]]
      /\ due' = NotDue(works)
      /\ claims' = [w \in Work |-> IF w \in works THEN claims[w] + 1 ELSE claims[w]]
      /\ asked' = asked \ works /\ UNCHANGED <<posts, finished>>
  BY DEF HoldWorks, counters
<1>2. works \subseteq DOMAIN rows /\ works \subseteq ToSet(due)
  BY DEF StillDue, Saved
<1> HIDE DEF works
<1>3. due \in Seq(DOMAIN rows) /\ claims \in [Work -> Nat] /\ rows \in [DOMAIN rows -> Row]
  BY DEF DatabaseInv, DatabaseOK
<1>4. \A v \in DOMAIN rows : [rows[v] EXCEPT !.next = "held", !.set = FALSE] \in Row
                             /\ [rows[v] EXCEPT !.next = "held", !.set = FALSE].id = rows[v].id
  BY <1>3 DEF Row
<1>5. DOMAIN rows' = DOMAIN rows /\ rows' \in [DOMAIN rows' -> Row]
  BY <1>1, <1>3, <1>4
<1>6. /\ \A v \in DOMAIN rows : rows'[v].id = rows[v].id
      /\ \A v \in DOMAIN rows : v \notin works => rows'[v] = rows[v]
  BY <1>1, <1>4
<1>7. \A item : Saved(item)' = Saved(item)
  BY <1>5, <1>6 DEF Saved
<1>8. due' \in Seq(DOMAIN rows) /\ ToSet(due') \subseteq ToSet(due) \ works
  BY <1>1, <1>3, NotDueIs
<1>9. claims' \in [Work -> Nat]
  <2>1. \A v \in Work : claims[v] \in Nat /\ claims[v] + 1 \in Nat
    BY <1>3
  <2>2. \A v \in Work : (IF v \in works THEN claims[v] + 1 ELSE claims[v]) \in Nat
    BY <2>1
  <2> QED
    BY <1>1, <2>2
<1>10. \A v \in Work : claims'[v] = IF v \in works THEN claims[v] + 1 ELSE claims[v]
  BY <1>1
<1>11. DatabaseOK'
  BY <1>1, <1>5, <1>6, <1>8, <1>9 DEF DatabaseInv, DatabaseOK
<1>12. ClaimedOnce'
  BY <1>2, <1>3, <1>8, <1>10 DEF DatabaseInv, ClaimedOnce
<1>13. AskedAreSet'
  BY <1>1, <1>5, <1>6 DEF DatabaseInv, AskedAreSet
<1>14. FinishedAreGone'
  BY <1>1, <1>7 DEF DatabaseInv, FinishedAreGone
<1> QED
  BY <1>11, <1>12, <1>13, <1>14 DEF DatabaseInv

LEMMA ResetDb ==
    ASSUME DatabaseInv, NEW s \in Scheduler, NEW x \in Thread, ResetNextTimeSet(s, x)
    PROVE  DatabaseInv'
<1> DEFINE item == doing[s][x].item
<1> DEFINE w == item.work
<1>1. UNCHANGED <<due, posts, claims, finished>>
  BY DEF ResetNextTimeSet, counters
<1>2. CASE ~Saved(item)
  <2>1. UNCHANGED <<rows, asked>>
    BY <1>2 DEF ResetNextTimeSet
  <2> QED
    BY <1>1, <2>1, DatabaseFrame
<1>3. CASE Saved(item)
  <2> DEFINE r == [rows[w] EXCEPT !.set = FALSE]
  <2>1. w \in DOMAIN rows
    BY <1>3 DEF Saved
  <2>2. rows' = [rows EXCEPT ![w] = r] /\ asked' = asked \ {w}
    BY <1>3 DEF ResetNextTimeSet
  <2>3. rows[w] \in Row
    BY <2>1 DEF DatabaseInv, DatabaseOK
  <2>4. r \in Row /\ r.id = rows[w].id
    BY <2>3 DEF Row
  <2> HIDE DEF r, w
  <2>5. /\ DOMAIN rows' = DOMAIN rows /\ rows' \in [DOMAIN rows' -> Row]
        /\ \A v \in DOMAIN rows : rows'[v].id = rows[v].id
        /\ \A v \in DOMAIN rows : v # w => rows'[v] = rows[v]
        /\ \A i : Saved(i)' = Saved(i)
    BY <2>1, <2>2, <2>4, RowChanges
  <2>6. DatabaseOK'
    BY <1>1, <2>5 DEF DatabaseInv, DatabaseOK
  <2>7. ClaimedOnce'
    BY <1>1 DEF DatabaseInv, ClaimedOnce
  <2>8. AskedAreSet'
    BY <2>2, <2>5 DEF DatabaseInv, AskedAreSet
  <2>9. FinishedAreGone'
    BY <1>1, <2>5 DEF DatabaseInv, FinishedAreGone
  <2> QED
    BY <2>6, <2>7, <2>8, <2>9 DEF DatabaseInv
<1> QED
  BY <1>2, <1>3

LEMMA UpdateProcessedDb ==
    ASSUME DatabaseInv, NEW s \in Scheduler, NEW x \in Thread, UpdateProcessedWork(s, x),
           doing[s][x].item \in Item
    PROVE  DatabaseInv'
<1> DEFINE item == doing[s][x].item
<1> DEFINE w == item.work
<1>1. UNCHANGED <<posts, claims>>
  BY DEF UpdateProcessedWork, counters
<1>2. CASE ~Saved(item)
  <2>1. UNCHANGED <<rows, due, asked, finished>>
    BY <1>2 DEF UpdateProcessedWork, database
  <2> QED
    BY <1>1, <2>1, DatabaseFrame
<1>3. CASE Saved(item) /\ doing[s][x].done
  <2>1. DeleteDone(item)
    BY <1>3 DEF UpdateProcessedWork
  <2>2. /\ rows' = WithoutRow(w) /\ due' = NotDue({w}) /\ asked' = asked \ {w}
        /\ finished' = finished \cup {item}
    BY <2>1 DEF DeleteDone
  <2>3. item.id \in 1 .. posts \cup {OldId}
    BY <1>3 DEF Saved, DatabaseInv, DatabaseOK
  <2>4. item \in Item
    OBVIOUS
  <2>5. /\ DOMAIN rows' = DOMAIN rows \ {w} /\ rows' \in [DOMAIN rows' -> Row]
        /\ \A v \in DOMAIN rows' : rows'[v] = rows[v]
        /\ \A i : Saved(i)' => Saved(i) /\ i.work # w
    BY <2>2, RowGoes
  <2> HIDE DEF item
  <2>6. due' \in Seq(DOMAIN rows') /\ ClaimedOnce'
    BY <1>1, <2>2, <2>5, DueShrinks
  <2>7. DatabaseOK'
    BY <1>1, <2>5, <2>6 DEF DatabaseInv, DatabaseOK
  <2>8. AskedAreSet'
    BY <2>2, <2>5 DEF DatabaseInv, AskedAreSet
  <2>9. FinishedAreGone'
    BY <1>1, <2>2, <2>3, <2>4, <2>5 DEF DatabaseInv, FinishedAreGone
  <2> QED
    BY <2>6, <2>7, <2>8, <2>9 DEF DatabaseInv
<1>4. CASE Saved(item) /\ ~doing[s][x].done
  <2>1. SaveNextTime(w)
    BY <1>4 DEF UpdateProcessedWork
  <2>2. w \in DOMAIN rows
    BY <1>4 DEF Saved
  <2> HIDE DEF w
  <2>3. CASE rows[w].set
    <3>1. UNCHANGED <<rows, due, asked, finished>>
      BY <2>1, <2>3 DEF SaveNextTime, database
    <3> QED
      BY <1>1, <3>1, DatabaseFrame
  <2>4. CASE ~rows[w].set
    <3> DEFINE r == [rows[w] EXCEPT !.next = "interval", !.set = TRUE]
    <3>1. /\ rows' = [rows EXCEPT ![w] = r] /\ due' = NotDue({w})
          /\ UNCHANGED <<asked, finished>>
      BY <2>1, <2>4 DEF SaveNextTime
    <3>3. rows[w] \in Row
      BY <2>2 DEF DatabaseInv, DatabaseOK
    <3>4. r \in Row /\ r.id = rows[w].id
      BY <3>3 DEF Row
    <3> HIDE DEF r
    <3>5. /\ DOMAIN rows' = DOMAIN rows /\ rows' \in [DOMAIN rows' -> Row]
          /\ \A v \in DOMAIN rows : rows'[v].id = rows[v].id
          /\ \A v \in DOMAIN rows : v # w => rows'[v] = rows[v]
          /\ \A i : Saved(i)' = Saved(i)
      BY <2>2, <3>1, <3>4, RowChanges
    <3>6. due' \in Seq(DOMAIN rows') /\ ClaimedOnce'
      BY <1>1, <3>1, <3>5, DueShrinks
    <3>7. DatabaseOK'
      BY <1>1, <3>5, <3>6 DEF DatabaseInv, DatabaseOK
    <3>8. w \notin asked
      BY <2>4 DEF DatabaseInv, AskedAreSet
    <3>9. AskedAreSet'
      BY <3>1, <3>5, <3>8 DEF DatabaseInv, AskedAreSet
    <3>10. FinishedAreGone'
      BY <3>1, <1>1, <3>5 DEF DatabaseInv, FinishedAreGone
    <3> QED
      BY <3>6, <3>7, <3>9, <3>10 DEF DatabaseInv
  <2> QED
    BY <2>3, <2>4
<1> QED
  BY <1>2, <1>3, <1>4

(* A row is touched by eight actions, and every one keeps the database     *)
(* part of the invariant.                                                  *)
LEMMA DatabaseStep ==
    ASSUME DatabaseInv, DoingOK, [Next]_vars
    PROVE  DatabaseInv'
<1> DEFINE Same == UNCHANGED <<rows, due, posts, claims, asked, finished>>
<1>1. Same => DatabaseInv'
  BY DatabaseFrame
<1> HIDE DEF Same
<1>2. CASE UNCHANGED vars
  BY <1>1, <1>2 DEF Same, vars, database, counters, history
<1>3. ASSUME NEW w \in Work,
             \/ TimePasses(w) \/ LockExpires(w)
             \/ UpdateWorkNextTime(w) \/ RemoveWork(w)
      PROVE  DatabaseInv'
  <2>1. LockExpires(w) => Same
    BY DEF LockExpires, Same, database, counters, Trouble
  <2> QED
    BY <1>1, <1>3, <2>1, TimePassesDb, UpdateNextTimeDb, RemoveWorkDb
<1>4. ASSUME NEW s \in Scheduler, NEW w \in Work, NEW mode \in PostMode,
             PostNoDb(s, w, mode) \/ \E t \in BOOLEAN : PostWork(s, w, mode, t)
      PROVE  DatabaseInv'
  BY <1>4, PostNoDbDb, PostWorkDb
<1>5. ASSUME NEW s \in Scheduler,
             \/ SendCancelled(s) \/ Shutdown(s) \/ Crash(s)
             \/ Run(s) \/ ShutdownReturns(s)
             \/ ReadWorks(s) \/ ReaderExits(s) \/ Handle(s) \/ Invoke(s)
      PROVE  DatabaseInv'
  <2>1. SendCancelled(s) => Same
    BY DEF SendCancelled, GiveUp, Same, database
  <2>2. Shutdown(s) \/ Run(s) => Same
    BY DEF Shutdown, Run, Trouble, Same, database, counters, history
  <2>3. Crash(s) \/ ShutdownReturns(s) => Same
    BY DEF Crash, ShutdownReturns, ProcessEnds, Trouble, Same, database, counters
  <2>4. ReadWorks(s) \/ ReaderExits(s) => Same
    BY DEF ReadWorks, ReaderExits, Same, database, counters, history
  <2>5. Handle(s) \/ Invoke(s) => Same
    BY DEF Handle, Invoke, Same, database, counters, history
  <2> QED
    BY <1>1, <1>5, <2>1, <2>2, <2>3, <2>4, <2>5
<1>6. ASSUME NEW s \in Scheduler, NEW g \in Feeder,
             \/ HoldFails(s, g) \/ SendPanics(s, g)
             \/ HoldWorks(s, g) \/ Enqueue(s, g) \/ Send(s, g) \/ SendStopped(s, g)
      PROVE  DatabaseInv'
  <2>1. HoldFails(s, g) => Same
    BY DEF HoldFails, Trouble, Same, database, history
  <2>2. SendPanics(s, g) => Same
    BY DEF SendPanics, ProcessEnds, Same, database, counters
  <2>3. Enqueue(s, g) \/ Send(s, g) => Same
    BY DEF Enqueue, Send, Same, database, counters, history
  <2>4. SendStopped(s, g) => Same
    BY DEF SendStopped, GiveUp, Same, database, counters
  <2> QED
    BY <1>1, <1>6, <2>1, <2>2, <2>3, <2>4, HoldWorksDb
<1>7. ASSUME NEW s \in Scheduler, NEW x \in Thread,
             \/ AccessFails(s, x) \/ (x \in Job /\ (TakeWork(s, x) \/ WorkerExits(s, x)))
             \/ AcquireLock(s, x) \/ ProbeRow(s, x) \/ ResetNextTimeSet(s, x)
             \/ UpdateProcessedWork(s, x) \/ ReleaseWork(s, x)
             \/ \E done \in BOOLEAN : RunReturns(s, x, done)
      PROVE  DatabaseInv'
  <2>1. AccessFails(s, x) => Same
    BY DEF AccessFails, Trouble, Same, database
  <2>2. TakeWork(s, x) \/ WorkerExits(s, x) => Same
    BY DEF TakeWork, WorkerExits, Same, database, counters, history
  <2>3. AcquireLock(s, x) \/ ReleaseWork(s, x) => Same
    BY DEF AcquireLock, ReleaseWork, Same, database, counters
  <2>4. ProbeRow(s, x) => Same
    BY DEF ProbeRow, Same, database, counters, history
  <2>5. (\E done \in BOOLEAN : RunReturns(s, x, done)) => Same
    BY DEF RunReturns, Same, database, counters, history
  <2>6. UpdateProcessedWork(s, x) => doing[s][x].item \in Item
    <3>1. doing[s][x] \in DoingRecord
      BY DEF DoingOK
    <3>2. ASSUME UpdateProcessedWork(s, x) PROVE doing[s][x].pc = "update"
      BY <3>2 DEF UpdateProcessedWork
    <3> QED
      BY <3>1, <3>2 DEF DoingRecord
  <2> QED
    BY <1>1, <1>7, <2>1, <2>2, <2>3, <2>4, <2>5, <2>6, ResetDb, UpdateProcessedDb
<1> QED
  BY <1>2, <1>3, <1>4, <1>5, <1>6, <1>7, NextCases

-----------------------------------------------------------------------------
(* The memory of the processes: what the feeders carry, the queues and the *)
(* notifications.                                                          *)
Fits(r) ==
    /\ r \in FeedRecord
    /\ r.pc \notin {"idle", "exited", "listed"} => r.works # <<>>

LEMMA FeedIs ==
    ASSUME MemoryOK, NEW s \in Scheduler, NEW g \in Feeder
    PROVE  /\ Fits(feed[s][g]) /\ feed[s][g].works \in Seq(Item)
           /\ feed[s][g].pc \in {"idle", "exited", "listed", "enqueue", "send", "DIRECT", "QUEUED"}
<1>1. feed[s][g] \in FeedRecord
  BY DEF MemoryOK
<1>2. Fits(feed[s][g])
  BY <1>1 DEF MemoryOK, Fits
<1> QED
  BY <1>1, <1>2 DEF FeedRecord

LEMMA FitsResting == Fits(Resting)
<1>1. <<>> \in Seq(Item)
  BY EmptySeq
<1> QED
  BY <1>1 DEF Fits, Resting, FeedRecord

LEMMA FitsExited == Fits([pc |-> "exited", works |-> <<>>])
<1>1. <<>> \in Seq(Item)
  BY EmptySeq
<1> QED
  BY <1>1 DEF Fits, FeedRecord

LEMMA FitsListed ==
    ASSUME NEW q \in Seq(Item)
    PROVE  Fits(Listed(q))
BY DEF Fits, Listed, FeedRecord

LEMMA FitsEnqueuing ==
    ASSUME NEW q \in Seq(Item)
    PROVE  Fits(Enqueuing(q)) /\ Enqueuing(q).pc \in {"idle", "enqueue"}
<1>1. CASE q = <<>>
  BY <1>1, FitsResting DEF Enqueuing, Resting
<1>2. CASE q # <<>>
  BY <1>2 DEF Enqueuing, Fits, FeedRecord
<1> QED
  BY <1>1, <1>2

LEMMA FitsPosted ==
    ASSUME NEW item \in Item, NEW mode \in {"DIRECT", "QUEUED"}
    PROVE  Fits([pc |-> mode, works |-> <<item>>])
<1>1. <<item>> \in Seq(Item) /\ <<item>> # <<>>
  OBVIOUS
<1> QED
  BY <1>1 DEF Fits, FeedRecord

LEMMA HeadTailIs ==
    ASSUME NEW A, NEW q \in Seq(A), q # <<>>
    PROVE  Head(q) \in A /\ Tail(q) \in Seq(A) /\ Len(Tail(q)) = Len(q) - 1 /\ Len(q) \in Nat
BY HeadTailProperties

(* One feeder goes on; the others stay.                                    *)
LEMMA FeedMoves ==
    ASSUME MemoryOK, NEW s \in Scheduler, NEW g \in Feeder, NEW r, Fits(r), Feed(s, g, r)
    PROVE  /\ feed' \in [Scheduler -> [Feeder -> FeedRecord]]
           /\ \A t \in Scheduler : \A h \in Feeder : Fits(feed'[t][h])
           /\ feed'[s][g] = r
           /\ \A h \in Feeder : h # g => feed'[s][h] = feed[s][h]
           /\ \A t \in Scheduler : t # s => feed'[t] = feed[t]
<1>1. feed \in [Scheduler -> [Feeder -> FeedRecord]]
  BY DEF MemoryOK
<1>2. feed' = [feed EXCEPT ![s][g] = r]
  BY DEF Feed
<1>3. /\ feed'[s][g] = r
      /\ \A h \in Feeder : h # g => feed'[s][h] = feed[s][h]
      /\ \A t \in Scheduler : t # s => feed'[t] = feed[t]
  BY <1>1, <1>2
<1>4. r \in FeedRecord
  BY DEF Fits
<1>5. feed' \in [Scheduler -> [Feeder -> FeedRecord]]
  BY <1>1, <1>2, <1>4
<1>6. ASSUME NEW t \in Scheduler, NEW h \in Feeder PROVE Fits(feed'[t][h])
  <2>1. Fits(feed[t][h])
    BY FeedIs
  <2> QED
    BY <1>3, <2>1
<1> QED
  BY <1>3, <1>5, <1>6

LEMMA MemoryFeed ==
    ASSUME MemoryOK, NEW s \in Scheduler, NEW g \in Feeder, NEW r, Fits(r), Feed(s, g, r),
           status' \in [Scheduler -> {"down", "up", "stopping"}],
           queue' \in [Scheduler -> Seq(Item)], messages' \in [Scheduler -> Seq(Message)]
    PROVE  MemoryOK'
<1>1. /\ feed' \in [Scheduler -> [Feeder -> FeedRecord]]
      /\ \A t \in Scheduler : \A h \in Feeder : Fits(feed'[t][h])
  BY FeedMoves
<1> QED
  BY <1>1 DEF MemoryOK, Fits

LEMMA MemoryFrame ==
    ASSUME MemoryOK, UNCHANGED feed,
           status' \in [Scheduler -> {"down", "up", "stopping"}],
           queue' \in [Scheduler -> Seq(Item)], messages' \in [Scheduler -> Seq(Message)]
    PROVE  MemoryOK'
BY DEF MemoryOK

(* What a scan of the due rows returns.                                    *)
LEMMA DueItemsAre ==
    ASSUME DatabaseInv, NEW n \in Int, n > 0
    PROVE  DueItems(n) \in Seq(Item)
<1> DEFINE k == IF n < Len(due) THEN n ELSE Len(due)
<1> DEFINE first == SubSeq(due, 1, k)
<1>1. due \in Seq(DOMAIN rows) /\ rows \in [DOMAIN rows -> Row] /\ DOMAIN rows \subseteq Work
  BY DEF DatabaseInv, DatabaseOK
<1>2. Len(due) \in Nat /\ DOMAIN due = 1 .. Len(due) /\ \A i \in 1 .. Len(due) : due[i] \in DOMAIN rows
  BY <1>1
<1>3. k \in Nat /\ k <= Len(due)
  BY <1>2
<1> HIDE DEF k
<1>4. \A i \in 1 .. k : due[i] \in DOMAIN rows
  BY <1>2, <1>3
<1>5. first \in Seq(DOMAIN rows)
  BY <1>3, <1>4, SubSeqProperties
<1> HIDE DEF first
<1>6. DOMAIN first = 1 .. Len(first) /\ Len(first) \in Nat /\ \A i \in DOMAIN first : first[i] \in DOMAIN rows
  BY <1>5
<1>7. \A v \in DOMAIN rows : rows[v].id \in 0 .. OldId /\ v \in Work
  BY <1>1, OldIdIs DEF Row
<1>8. \A i \in DOMAIN first : [work |-> first[i], id |-> rows[first[i]].id] \in Item
  BY <1>6, <1>7, ItemMade
<1> DEFINE items == [i \in DOMAIN first |-> [work |-> first[i], id |-> rows[first[i]].id]]
<1>9. items \in [1 .. Len(first) -> Item]
  BY <1>6, <1>8
<1>10. DueItems(n) = items
  BY DEF DueItems, first, k
<1> HIDE DEF items
<1> QED
  BY <1>6, <1>9, <1>10

LEMMA ListFits ==
    ASSUME DatabaseInv, CountersOK, NEW s \in Scheduler, NEW g \in Feeder, ListDue(s, g)
    PROVE  \E r : Fits(r) /\ Feed(s, g, r) /\ r.pc \in {"idle", "listed"}
<1>1. Limit(s) \in Int
  BY WorkScheduleAssumption DEF CountersOK, Limit
<1>2. CASE Limit(s) <= 0 \/ due = <<>>
  <2>1. Feed(s, g, Resting)
    BY <1>2 DEF ListDue
  <2>2. Resting.pc = "idle"
    BY DEF Resting
  <2> QED
    BY <2>1, <2>2, FitsResting
<1>3. CASE ~(Limit(s) <= 0 \/ due = <<>>)
  <2> DEFINE q == DueItems(Limit(s))
  <2>1. Feed(s, g, Listed(q))
    BY <1>3 DEF ListDue
  <2>2. q \in Seq(Item)
    BY <1>1, <1>3, DueItemsAre
  <2> HIDE DEF q
  <2>3. Listed(q).pc = "listed"
    BY DEF Listed
  <2> QED
    BY <2>1, <2>2, <2>3, FitsListed
<1> QED
  BY <1>2, <1>3

LEMMA FiniteElements ==
    ASSUME NEW A, NEW q \in Seq(A)
    PROVE  IsFiniteSet(ToSet(q))
<1>1. Len(q) \in Nat /\ DOMAIN q = 1 .. Len(q) /\ q \in [1 .. Len(q) -> A]
  OBVIOUS
<1>2. ToSet(q) = {q[i] : i \in 1 .. Len(q)}
  BY <1>1 DEF ToSet
<1>3. q \in Surjection(1 .. Len(q), ToSet(q))
  BY <1>1, <1>2 DEF Surjection
<1>4. IsFiniteSet(1 .. Len(q))
  BY <1>1, FS_Interval
<1> QED
  BY <1>3, <1>4, FS_Surjection

(* The transaction of ClaimDueWorks hands on a sequence of works.          *)
LEMMA HoldFits ==
    ASSUME MemoryOK, NEW s \in Scheduler, NEW g \in Feeder, HoldWorks(s, g)
    PROVE  \E r : Fits(r) /\ Feed(s, g, r) /\ r.pc \in {"idle", "enqueue"}
<1> DEFINE items == StillDue(feed[s][g].works)
<1>1. PICK order \in SetToSeqs(items) : Feed(s, g, Enqueuing(order))
  BY DEF HoldWorks
<1>2. feed[s][g].works \in Seq(Item)
  BY FeedIs
<1>3. IsFiniteSet(ToSet(feed[s][g].works)) /\ ToSet(feed[s][g].works) \subseteq Item
  BY <1>2, FiniteElements, SeqWiden
<1>4. items \subseteq ToSet(feed[s][g].works)
  BY DEF StillDue
<1> HIDE DEF items
<1>5. IsFiniteSet(items) /\ items \subseteq Item
  BY <1>3, <1>4, FS_Subset
<1>6. Cardinality(items) \in Nat
  BY <1>5, FS_CardinalityType
<1>7. order \in [1 .. Cardinality(items) -> items]
  BY <1>1 DEF SetToSeqs
<1>8. order \in Seq(Item)
  <2>1. order \in [1 .. Cardinality(items) -> Item]
    BY <1>5, <1>7
  <2> QED
    BY <1>6, <2>1
<1> QED
  BY <1>1, <1>8, FitsEnqueuing

(* WorkSchedule.InvokeWork leaves its goroutine with a work to run or with *)
(* one to queue.                                                           *)
LEMMA InvokeFits ==
    ASSUME NEW s \in Scheduler, NEW g \in Feeder, NEW item \in Item, NEW mode,
           InvokeWork(s, g, item, mode)
    PROVE  \E r : Fits(r) /\ Feed(s, g, r) /\ r.pc \in {"idle", "enqueue"}
<1>1. CASE mode = "DIRECT"
  <2>1. Feed(s, g, Resting)
    BY <1>1 DEF InvokeWork
  <2>2. Resting.pc = "idle"
    BY DEF Resting
  <2> QED
    BY <2>1, <2>2, FitsResting
<1>2. CASE mode # "DIRECT"
  <2>1. Feed(s, g, Enqueuing(<<item>>))
    BY <1>2 DEF InvokeWork
  <2>2. <<item>> \in Seq(Item)
    OBVIOUS
  <2> QED
    BY <2>1, <2>2, FitsEnqueuing
<1> QED
  BY <1>1, <1>2

LEMMA MessageIs ==
    ASSUME NEW m \in Message
    PROVE  m.item \in Item /\ m.mode \in {"DIRECT", "QUEUED"}
BY DEF Message

LEMMA HandleFits ==
    ASSUME DatabaseInv, CountersOK, MemoryOK, NEW s \in Scheduler, Handle(s)
    PROVE  \E r : Fits(r) /\ Feed(s, "handler", r) /\ r.pc \in {"idle", "listed", "enqueue"}
<1> DEFINE msg == Head(messages[s])
<1>1. messages[s] # <<>> /\ messages[s] \in Seq(Message)
  BY DEF Handle, MemoryOK
<1>2. msg.item \in Item
  BY <1>1, HeadTailIs, MessageIs
<1>3. "handler" \in Feeder
  BY DEF Feeder
<1>4. InvokeWork(s, "handler", msg.item, msg.mode) \/ ListDue(s, "handler")
  BY DEF Handle
<1> HIDE DEF msg
<1> QED
  BY <1>2, <1>3, <1>4, InvokeFits, ListFits

LEMMA PosterItem ==
    ASSUME MemoryOK, NEW s \in Scheduler, feed[s]["poster"].pc \in {"DIRECT", "QUEUED"}
    PROVE  Head(feed[s]["poster"].works) \in Item
<1>1. Fits(feed[s]["poster"]) /\ feed[s]["poster"].works \in Seq(Item)
  BY FeedIs DEF Feeder
<1>2. feed[s]["poster"].works # <<>>
  BY <1>1 DEF Fits
<1> QED
  BY <1>1, <1>2, HeadTailIs

LEMMA InvokeStepFits ==
    ASSUME MemoryOK, NEW s \in Scheduler, Invoke(s)
    PROVE  /\ \E r : Fits(r) /\ Feed(s, "poster", r) /\ r.pc \in {"idle", "enqueue"}
           /\ messages' \in [Scheduler -> Seq(Message)]
<1> DEFINE mode == feed[s]["poster"].pc
<1> DEFINE item == Head(feed[s]["poster"].works)
<1>1. mode \in {"DIRECT", "QUEUED"}
  BY DEF Invoke
<1>2. item \in Item
  BY <1>1, PosterItem
<1>3. \/ PublishSelfPool(item, mode) /\ Feed(s, "poster", Resting)
      \/ InvokeWork(s, "poster", item, mode) /\ UNCHANGED messages
  BY DEF Invoke
<1> HIDE DEF mode, item
<1>4. messages \in [Scheduler -> Seq(Message)] /\ "poster" \in Feeder
  BY DEF MemoryOK, Feeder
<1>5. CASE PublishSelfPool(item, mode) /\ Feed(s, "poster", Resting)
  <2> DEFINE m == [item |-> item, mode |-> mode]
  <2>1. m \in Message
    BY <1>1, <1>2 DEF Message
  <2>2. PICK receivers : messages' = [r \in Scheduler |->
            IF r \in receivers THEN Append(messages[r], m) ELSE messages[r]]
    BY <1>5 DEF PublishSelfPool
  <2> HIDE DEF m
  <2>3. \A r \in Scheduler : Append(messages[r], m) \in Seq(Message) /\ messages[r] \in Seq(Message)
    BY <1>4, <2>1
  <2>4. messages' \in [Scheduler -> Seq(Message)]
    BY <2>2, <2>3
  <2>5. Resting.pc = "idle"
    BY DEF Resting
  <2> QED
    BY <1>5, <2>4, <2>5, FitsResting
<1>6. CASE InvokeWork(s, "poster", item, mode) /\ UNCHANGED messages
  BY <1>2, <1>4, <1>6, InvokeFits
<1> QED
  BY <1>3, <1>5, <1>6

LEMMA SendingIs ==
    ASSUME MemoryOK, NEW s \in Scheduler, NEW g \in Feeder, feed[s][g].pc = "send"
    PROVE  /\ Head(feed[s][g].works) \in Item
           /\ Fits(Enqueuing(Tail(feed[s][g].works)))
           /\ Enqueuing(Tail(feed[s][g].works)).pc \in {"idle", "enqueue"}
<1>1. Fits(feed[s][g]) /\ feed[s][g].works \in Seq(Item)
  BY FeedIs
<1>2. feed[s][g].works # <<>>
  BY <1>1 DEF Fits
<1>3. Head(feed[s][g].works) \in Item /\ Tail(feed[s][g].works) \in Seq(Item)
  BY <1>1, <1>2, HeadTailIs
<1> QED
  BY <1>3, FitsEnqueuing

LEMMA EnqueueFits ==
    ASSUME MemoryOK, NEW s \in Scheduler, NEW g \in Feeder, feed[s][g].pc = "enqueue"
    PROVE  Fits([feed[s][g] EXCEPT !.pc = "send"]) /\ [feed[s][g] EXCEPT !.pc = "send"].pc = "send"
<1>1. Fits(feed[s][g]) /\ feed[s][g] \in FeedRecord
  BY FeedIs DEF Fits
<1> QED
  BY <1>1 DEF Fits, FeedRecord

(* The end of a process empties its memory.                                *)
LEMMA ProcessEndsMemory ==
    ASSUME MemoryOK, NEW s \in Scheduler, ProcessEnds(s)
    PROVE  /\ MemoryOK'
           /\ feed'[s] = [g \in Feeder |-> Resting] /\ queue'[s] = <<>>
           /\ \A t \in Scheduler : t # s => feed'[t] = feed[t] /\ queue'[t] = queue[t]
<1>1. /\ status \in [Scheduler -> {"down", "up", "stopping"}]
      /\ queue \in [Scheduler -> Seq(Item)]
      /\ messages \in [Scheduler -> Seq(Message)]
      /\ feed \in [Scheduler -> [Feeder -> FeedRecord]]
  BY DEF MemoryOK
<1>2. /\ status' = [status EXCEPT ![s] = "down"] /\ queue' = [queue EXCEPT ![s] = <<>>]
      /\ messages' = [messages EXCEPT ![s] = <<>>]
      /\ feed' = [feed EXCEPT ![s] = [g \in Feeder |-> Resting]]
  BY DEF ProcessEnds
<1>3. <<>> \in Seq(Item) /\ <<>> \in Seq(Message)
  BY EmptySeq
<1>4. Resting \in FeedRecord /\ Fits(Resting)
  BY FitsResting DEF Fits
<1>5. status' \in [Scheduler -> {"down", "up", "stopping"}]
  BY <1>1, <1>2
<1>6. queue' \in [Scheduler -> Seq(Item)] /\ messages' \in [Scheduler -> Seq(Message)]
  BY <1>1, <1>2, <1>3
<1>7. feed'[s] = [g \in Feeder |-> Resting] /\ \A t \in Scheduler : t # s => feed'[t] = feed[t]
  BY <1>1, <1>2
<1>8. feed' \in [Scheduler -> [Feeder -> FeedRecord]]
  BY <1>1, <1>2, <1>4
<1>9. ASSUME NEW t \in Scheduler, NEW g \in Feeder PROVE Fits(feed'[t][g])
  <2>1. Fits(feed[t][g])
    BY FeedIs
  <2> QED
    BY <1>4, <1>7, <2>1
<1>10. queue'[s] = <<>> /\ \A t \in Scheduler : t # s => queue'[t] = queue[t]
  BY <1>1, <1>2
<1>11. MemoryOK'
  BY <1>5, <1>6, <1>8, <1>9 DEF MemoryOK, Fits
<1> QED
  BY <1>7, <1>10, <1>11

LEMMA PostFits ==
    ASSUME DatabaseInv, MemoryOK, NEW s \in Scheduler, NEW w \in Work, NEW mode \in PostMode,
           PostNoDb(s, w, mode) \/ \E t \in BOOLEAN : PostWork(s, w, mode, t)
    PROVE  \/ UNCHANGED feed
           \/ \E r : Fits(r) /\ Feed(s, "poster", r) /\ r.pc \in {"DIRECT", "QUEUED"}
<1>1. mode \in {"SCHEDULE", "DIRECT", "QUEUED"}
  BY WorkScheduleAssumption
<1>2. posts \in Nat /\ (posts < MaxPosts => posts + 1 \in 0 .. OldId) /\ NoDb \in 0 .. OldId
  BY OldIdIs DEF DatabaseInv, DatabaseOK
<1>3. CASE PostNoDb(s, w, mode)
  <2> DEFINE item == [work |-> w, id |-> NoDb]
  <2>1. mode # "SCHEDULE" /\ Feed(s, "poster", [pc |-> mode, works |-> <<item>>])
    BY <1>3 DEF PostNoDb
  <2>2. item \in Item
    BY <1>2, ItemMade
  <2> HIDE DEF item
  <2>3. Fits([pc |-> mode, works |-> <<item>>])
    BY <1>1, <2>1, <2>2, FitsPosted
  <2> QED
    BY <1>1, <2>1, <2>3
<1>4. ASSUME NEW t \in BOOLEAN, PostWork(s, w, mode, t)
      PROVE  \/ UNCHANGED feed
             \/ \E r : Fits(r) /\ Feed(s, "poster", r) /\ r.pc \in {"DIRECT", "QUEUED"}
  <2> DEFINE item == [work |-> w, id |-> posts + 1]
  <2>1. posts < MaxPosts
    BY <1>4 DEF PostWork
  <2>2. item \in Item
    BY <1>2, <2>1, ItemMade
  <2>3. \/ UNCHANGED feed
        \/ mode # "SCHEDULE" /\ Feed(s, "poster", [pc |-> mode, works |-> <<item>>])
    BY <1>4 DEF PostWork, Feed
  <2> HIDE DEF item
  <2>4. CASE mode # "SCHEDULE" /\ Feed(s, "poster", [pc |-> mode, works |-> <<item>>])
    <3>1. Fits([pc |-> mode, works |-> <<item>>])
      BY <1>1, <2>2, <2>4, FitsPosted
    <3> QED
      BY <1>1, <2>4, <3>1
  <2> QED
    BY <2>3, <2>4
<1> QED
  BY <1>3, <1>4

LEMMA SendQueue ==
    ASSUME MemoryOK, NEW s \in Scheduler, NEW g \in Feeder, Send(s, g)
    PROVE  /\ queue' \in [Scheduler -> Seq(Item)] /\ Len(queue'[s]) = Len(queue[s]) + 1
           /\ \A t \in Scheduler : t # s => queue'[t] = queue[t]
<1> DEFINE h == Head(feed[s][g].works)
<1>1. queue' = [queue EXCEPT ![s] = Append(@, h)] /\ feed[s][g].pc = "send"
  BY DEF Send
<1>2. h \in Item
  BY <1>1, SendingIs
<1> HIDE DEF h
<1>3. queue \in [Scheduler -> Seq(Item)]
  BY DEF MemoryOK
<1>4. Append(queue[s], h) \in Seq(Item) /\ Len(Append(queue[s], h)) = Len(queue[s]) + 1
  BY <1>2, <1>3, AppendProperties
<1> QED
  BY <1>1, <1>3, <1>4

LEMMA TakeQueue ==
    ASSUME MemoryOK, NEW s \in Scheduler, NEW x \in Thread, TakeWork(s, x)
    PROVE  /\ queue' \in [Scheduler -> Seq(Item)] /\ Len(queue'[s]) = Len(queue[s]) - 1
           /\ \A t \in Scheduler : t # s => queue'[t] = queue[t]
           /\ Head(queue[s]) \in Item
<1>1. queue' = [queue EXCEPT ![s] = Tail(@)] /\ queue[s] # <<>>
  BY DEF TakeWork
<1>2. queue \in [Scheduler -> Seq(Item)]
  BY DEF MemoryOK
<1>3. Head(queue[s]) \in Item /\ Tail(queue[s]) \in Seq(Item) /\ Len(Tail(queue[s])) = Len(queue[s]) - 1
  BY <1>1, <1>2, HeadTailIs
<1> QED
  BY <1>1, <1>2, <1>3

LEMMA MemoryStep ==
    ASSUME DatabaseInv, MemoryOK, CountersOK, [Next]_vars
    PROVE  MemoryOK'
<1> DEFINE Same == UNCHANGED <<feed, queue, messages, status>>
<1>0. /\ status \in [Scheduler -> {"down", "up", "stopping"}]
      /\ queue \in [Scheduler -> Seq(Item)]
      /\ messages \in [Scheduler -> Seq(Message)]
      /\ "reader" \in Feeder /\ "handler" \in Feeder /\ "poster" \in Feeder
  BY DEF MemoryOK, Feeder
<1>1. Same => MemoryOK'
  BY <1>0, MemoryFrame
<1> HIDE DEF Same
<1>2. CASE UNCHANGED vars
  BY <1>1, <1>2 DEF Same, vars
<1>3. ASSUME NEW w \in Work,
             \/ TimePasses(w) \/ LockExpires(w)
             \/ UpdateWorkNextTime(w) \/ RemoveWork(w)
      PROVE  MemoryOK'
  BY <1>1, <1>3 DEF Same, TimePasses, LockExpires, UpdateWorkNextTime, RemoveWork
<1>4. ASSUME NEW s \in Scheduler, NEW w \in Work, NEW mode \in PostMode,
             PostNoDb(s, w, mode) \/ \E t \in BOOLEAN : PostWork(s, w, mode, t)
      PROVE  MemoryOK'
  <2>1. UNCHANGED <<queue, messages, status>>
    BY <1>4 DEF PostNoDb, PostWork
  <2>2. \/ UNCHANGED feed
        \/ \E r : Fits(r) /\ Feed(s, "poster", r)
    BY <1>4, PostFits
  <2> QED
    BY <1>0, <2>1, <2>2, MemoryFrame, MemoryFeed
<1>5. ASSUME NEW s \in Scheduler,
             \/ SendCancelled(s) \/ Shutdown(s) \/ Crash(s)
             \/ Run(s) \/ ShutdownReturns(s)
             \/ ReadWorks(s) \/ ReaderExits(s) \/ Handle(s) \/ Invoke(s)
      PROVE  MemoryOK'
  <2>1. CASE SendCancelled(s)
    <3>1. UNCHANGED <<queue, messages, status>> /\ Feed(s, "poster", Resting)
      BY <2>1 DEF SendCancelled, GiveUp
    <3> QED
      BY <1>0, <3>1, FitsResting, MemoryFeed
  <2>2. CASE Shutdown(s) \/ Run(s)
    <3>1. UNCHANGED <<queue, messages, feed>>
      BY <2>2 DEF Shutdown, Run
    <3>2. status' \in [Scheduler -> {"down", "up", "stopping"}]
      BY <1>0, <2>2 DEF Shutdown, Run
    <3> QED
      BY <1>0, <3>1, <3>2, MemoryFrame
  <2>3. CASE Crash(s) \/ ShutdownReturns(s)
    BY <2>3, ProcessEndsMemory DEF Crash, ShutdownReturns
  <2>4. CASE ReadWorks(s)
    <3>1. UNCHANGED <<queue, messages, status>> /\ ListDue(s, "reader")
      BY <2>4 DEF ReadWorks
    <3> QED
      BY <1>0, <3>1, ListFits, MemoryFeed
  <2>5. CASE ReaderExits(s)
    <3>1. /\ UNCHANGED <<queue, messages, status>>
          /\ Feed(s, "reader", [pc |-> "exited", works |-> <<>>])
      BY <2>5 DEF ReaderExits
    <3> QED
      BY <1>0, <3>1, FitsExited, MemoryFeed
  <2>6. CASE Handle(s)
    <3>1. /\ UNCHANGED <<queue, status>> /\ messages[s] # <<>>
          /\ messages' = [messages EXCEPT ![s] = Tail(@)]
      BY <2>6 DEF Handle
    <3>2. Tail(messages[s]) \in Seq(Message)
      BY <1>0, <3>1, HeadTailIs
    <3>3. messages' \in [Scheduler -> Seq(Message)]
      BY <1>0, <3>1, <3>2
    <3> QED
      BY <1>0, <2>6, <3>1, <3>3, HandleFits, MemoryFeed
  <2>7. CASE Invoke(s)
    <3>1. UNCHANGED <<queue, status>>
      BY <2>7 DEF Invoke
    <3> QED
      BY <1>0, <2>7, <3>1, InvokeStepFits, MemoryFeed
  <2> QED
    BY <1>5, <2>1, <2>2, <2>3, <2>4, <2>5, <2>6, <2>7
<1>6. ASSUME NEW s \in Scheduler, NEW g \in Feeder,
             \/ HoldFails(s, g) \/ SendPanics(s, g)
             \/ HoldWorks(s, g) \/ Enqueue(s, g) \/ Send(s, g) \/ SendStopped(s, g)
      PROVE  MemoryOK'
  <2>1. CASE HoldFails(s, g)
    <3>1. UNCHANGED <<queue, messages, status>> /\ Feed(s, g, Resting)
      BY <2>1 DEF HoldFails
    <3> QED
      BY <1>0, <3>1, FitsResting, MemoryFeed
  <2>2. CASE SendPanics(s, g)
    BY <2>2, ProcessEndsMemory DEF SendPanics
  <2>3. CASE HoldWorks(s, g)
    <3>1. UNCHANGED <<queue, messages, status>>
      BY <2>3 DEF HoldWorks
    <3> QED
      BY <1>0, <2>3, <3>1, HoldFits, MemoryFeed
  <2>4. CASE Enqueue(s, g)
    <3>1. /\ UNCHANGED <<queue, messages, status>> /\ feed[s][g].pc = "enqueue"
          /\ Feed(s, g, [feed[s][g] EXCEPT !.pc = "send"])
      BY <2>4 DEF Enqueue
    <3> QED
      BY <1>0, <3>1, EnqueueFits, MemoryFeed
  <2>5. CASE Send(s, g)
    <3>1. /\ UNCHANGED <<messages, status>> /\ feed[s][g].pc = "send"
          /\ Feed(s, g, Enqueuing(Tail(feed[s][g].works)))
      BY <2>5 DEF Send
    <3>2. queue' \in [Scheduler -> Seq(Item)]
      BY <2>5, SendQueue
    <3> QED
      BY <1>0, <3>1, <3>2, SendingIs, MemoryFeed
  <2>6. CASE SendStopped(s, g)
    <3>1. /\ UNCHANGED <<queue, messages, status>> /\ feed[s][g].pc = "send"
          /\ Feed(s, g, Enqueuing(Tail(feed[s][g].works))) \/ Feed(s, g, Resting)
      BY <2>6 DEF SendStopped, GiveUp
    <3> QED
      BY <1>0, <3>1, SendingIs, FitsResting, MemoryFeed
  <2> QED
    BY <1>6, <2>1, <2>2, <2>3, <2>4, <2>5, <2>6
<1>7. ASSUME NEW s \in Scheduler, NEW x \in Thread,
             \/ AccessFails(s, x) \/ (x \in Job /\ (TakeWork(s, x) \/ WorkerExits(s, x)))
             \/ AcquireLock(s, x) \/ ProbeRow(s, x) \/ ResetNextTimeSet(s, x)
             \/ UpdateProcessedWork(s, x) \/ ReleaseWork(s, x)
             \/ \E done \in BOOLEAN : RunReturns(s, x, done)
      PROVE  MemoryOK'
  <2>1. CASE TakeWork(s, x)
    <3>1. UNCHANGED <<feed, messages, status>>
      BY <2>1 DEF TakeWork
    <3> QED
      BY <1>0, <2>1, <3>1, TakeQueue, MemoryFrame
  <2>2. AccessFails(s, x) \/ WorkerExits(s, x) \/ AcquireLock(s, x) => Same
    BY DEF AccessFails, WorkerExits, AcquireLock, Same
  <2>3. ProbeRow(s, x) \/ ResetNextTimeSet(s, x) => Same
    BY DEF ProbeRow, ResetNextTimeSet, Same
  <2>4. UpdateProcessedWork(s, x) \/ ReleaseWork(s, x) => Same
    BY DEF UpdateProcessedWork, ReleaseWork, Same
  <2>5. (\E done \in BOOLEAN : RunReturns(s, x, done)) => Same
    BY DEF RunReturns, Same
  <2> QED
    BY <1>1, <1>7, <2>1, <2>2, <2>3, <2>4, <2>5
<1> QED
  BY <1>2, <1>3, <1>4, <1>5, <1>6, <1>7, NextCases

-----------------------------------------------------------------------------
(* The locks and those who work under them.                                *)
LockInv == DoingOK /\ LocksOK /\ LockHeld /\ TwoOverrun /\ NotAgain

UnderLock == {"probe", "reset", "run", "update", "release"}

LEMMA NoOwner == \A s, x : Free # <<s, x>> /\ Lost # <<s, x>>
<1> SUFFICES ASSUME NEW s, NEW x PROVE Free # <<s, x>> /\ Lost # <<s, x>>
  OBVIOUS
<1>1. Len(<<"free">>) = 1 /\ Len(<<"lost">>) = 1 /\ Len(<<s, x>>) = 2
  OBVIOUS
<1> QED
  BY <1>1 DEF Free, Lost

LEMMA DoingIs ==
    ASSUME DoingOK, NEW s \in Scheduler, NEW x \in Thread
    PROVE  /\ doing[s][x] \in DoingRecord
           /\ doing[s][x].pc \in {"idle", "exited", "lock"} \cup UnderLock
           /\ doing[s][x].pc \notin {"idle", "exited"} =>
                 doing[s][x].item \in Item /\ WorkOf(s, x) \in Work
           /\ Holds(s, x) <=> doing[s][x].pc \in UnderLock
<1>1. doing[s][x] \in DoingRecord
  BY DEF DoingOK
<1>2. doing[s][x].pc \in {"idle", "exited", "lock"} \cup UnderLock
  BY <1>1 DEF DoingRecord, UnderLock
<1>3. doing[s][x].pc \notin {"idle", "exited"} => doing[s][x].item \in Item
  BY <1>1 DEF DoingRecord
<1>4. Holds(s, x) <=> doing[s][x].pc \in UnderLock
  BY DEF Holds, UnderLock
<1> QED
  BY <1>1, <1>2, <1>3, <1>4, ItemIs DEF WorkOf

LEMMA DoingMoves ==
    ASSUME DoingOK, NEW s \in Scheduler, NEW x \in Thread, NEW d \in DoingRecord,
           doing' = [doing EXCEPT ![s][x] = d]
    PROVE  /\ DoingOK' /\ doing'[s][x] = d
           /\ \A y \in Thread : y # x => doing'[s][y] = doing[s][y]
           /\ \A t \in Scheduler : t # s => doing'[t] = doing[t]
BY DEF DoingOK

(* The records DoWork goes through.                                        *)
LEMMA DoingMade ==
    /\ NotWorking \in DoingRecord /\ NotWorking.pc = "idle"
    /\ Exited \in DoingRecord /\ Exited.pc = "exited"
    /\ \A item \in Item : DoWork(item) \in DoingRecord /\ DoWork(item).pc = "lock"
    /\ \A item \in Item : /\ [pc |-> "release", item |-> item] \in DoingRecord
                          /\ [pc |-> "release", item |-> item].pc = "release"
                          /\ [pc |-> "release", item |-> item].item = item
    /\ \A item \in Item, done \in BOOLEAN :
          /\ [pc |-> "update", item |-> item, done |-> done] \in DoingRecord
          /\ [pc |-> "update", item |-> item, done |-> done].pc = "update"
          /\ [pc |-> "update", item |-> item, done |-> done].item = item
BY DEF NotWorking, Exited, DoWork, DoingRecord

LEMMA GotoIs ==
    ASSUME DoingOK, NEW s \in Scheduler, NEW x \in Thread,
           doing[s][x].pc \in {"lock", "probe", "reset"},
           NEW q \in {"probe", "reset", "run", "release"}, Goto(s, x, q)
    PROVE  \E d \in DoingRecord : /\ doing' = [doing EXCEPT ![s][x] = d]
                                  /\ d.pc = q /\ d.item = doing[s][x].item
<1> DEFINE d == [doing[s][x] EXCEPT !.pc = q]
<1>1. doing[s][x] \in DoingRecord
  BY DEF DoingOK
<1>2. doing[s][x] \in [pc : {"lock", "probe", "reset", "run", "release"}, item : Item]
  BY <1>1 DEF DoingRecord
<1>3. d \in [pc : {"lock", "probe", "reset", "run", "release"}, item : Item]
  BY <1>2
<1>4. d.pc = q /\ d.item = doing[s][x].item
  BY <1>2
<1>5. d \in DoingRecord
  BY <1>3 DEF DoingRecord
<1>6. doing' = [doing EXCEPT ![s][x] = d]
  BY DEF Goto
<1> HIDE DEF d
<1> QED
  BY <1>4, <1>5, <1>6

(* A goroutine moves outside the lock.                                     *)
LEMMA Outside ==
    ASSUME LockInv, NEW s \in Scheduler, NEW x \in Thread, NEW d \in DoingRecord,
           doing' = [doing EXCEPT ![s][x] = d],
           ~Holds(s, x), d.pc \notin UnderLock,
           UNCHANGED <<lock, overrun, finished>>
    PROVE  LockInv'
<1>1. DoingOK
  BY DEF LockInv
<1>2. /\ DoingOK' /\ doing'[s][x] = d
      /\ \A y \in Thread : y # x => doing'[s][y] = doing[s][y]
      /\ \A t \in Scheduler : t # s => doing'[t] = doing[t]
  BY <1>1, DoingMoves
<1>3. \A t \in Scheduler, y \in Thread : <<t, y>> # <<s, x>> => doing'[t][y] = doing[t][y]
  BY <1>2
<1>4. ~Holds(s, x)' /\ doing'[s][x].pc \notin {"reset", "run"}
  BY <1>2 DEF Holds, UnderLock
<1>5. \A t \in Scheduler, y \in Thread :
         Holds(t, y)' => <<t, y>> # <<s, x>> /\ Holds(t, y) /\ WorkOf(t, y)' = WorkOf(t, y)
  BY <1>3, <1>4 DEF Holds, WorkOf
<1>6. LocksOK'
  BY DEF LockInv, LocksOK
<1>7. LockHeld'
  BY <1>5 DEF LockInv, LockHeld
<1>8. TwoOverrun'
  BY <1>5 DEF LockInv, TwoOverrun
<1>9. NotAgain'
  BY <1>3, <1>4 DEF LockInv, NotAgain
<1> QED
  BY <1>2, <1>6, <1>7, <1>8, <1>9 DEF LockInv

(* A goroutine moves under the lock; its work may come to its end.         *)
LEMMA Inside ==
    ASSUME LockInv, NEW s \in Scheduler, NEW x \in Thread, NEW d \in DoingRecord,
           doing' = [doing EXCEPT ![s][x] = d],
           Holds(s, x), d.pc \in UnderLock, d.item = doing[s][x].item,
           UNCHANGED <<lock, overrun>>,
           finished' = finished \/ finished' = finished \cup {d.item},
           d.pc \in {"reset", "run"} /\ d.item \in finished' => <<s, x>> \in overrun
    PROVE  LockInv'
<1>1. DoingOK
  BY DEF LockInv
<1>2. /\ DoingOK' /\ doing'[s][x] = d
      /\ \A y \in Thread : y # x => doing'[s][y] = doing[s][y]
      /\ \A t \in Scheduler : t # s => doing'[t] = doing[t]
  BY <1>1, DoingMoves
<1>3. \A t \in Scheduler, y \in Thread : <<t, y>> # <<s, x>> => doing'[t][y] = doing[t][y]
  BY <1>2
<1>4. Holds(s, x)' /\ WorkOf(s, x)' = WorkOf(s, x)
  BY <1>2 DEF Holds, UnderLock, WorkOf
<1>5. \A t \in Scheduler, y \in Thread :
         Holds(t, y)' => Holds(t, y) /\ WorkOf(t, y)' = WorkOf(t, y)
  BY <1>3, <1>4 DEF Holds, WorkOf
<1>6. LocksOK'
  BY DEF LockInv, LocksOK
<1>7. LockHeld'
  BY <1>5 DEF LockInv, LockHeld
<1>8. TwoOverrun'
  BY <1>5 DEF LockInv, TwoOverrun
<1>9. NotAgain'
  <2> SUFFICES ASSUME NEW t \in Scheduler, NEW y \in Thread,
                      doing'[t][y].pc \in {"reset", "run"}, doing'[t][y].item \in finished'
               PROVE  <<t, y>> \in overrun
    BY DEF NotAgain
  <2>1. CASE <<t, y>> = <<s, x>>
    BY <1>2, <2>1
  <2>2. CASE <<t, y>> # <<s, x>> /\ doing'[t][y].item \in finished
    BY <1>3, <2>2 DEF LockInv, NotAgain
  <2>3. CASE <<t, y>> # <<s, x>> /\ doing'[t][y].item = d.item
    <3>1. doing[t][y].pc \in {"reset", "run"} /\ doing[t][y].item = d.item
      BY <1>3, <2>3
    <3>2. Holds(t, y) /\ WorkOf(t, y) = WorkOf(s, x)
      BY <3>1 DEF Holds, WorkOf
    <3> QED
      BY <2>3, <3>2 DEF LockInv, TwoOverrun
  <2> QED
    BY <2>1, <2>2, <2>3
<1> QED
  BY <1>2, <1>6, <1>7, <1>8, <1>9 DEF LockInv

(* A goroutine obtains a lock.                                             *)
LEMMA Enters ==
    ASSUME LockInv, NEW s \in Scheduler, NEW x \in Thread, NEW d \in DoingRecord,
           doing' = [doing EXCEPT ![s][x] = d],
           doing[s][x].pc = "lock", d.pc \in UnderLock, d.item = doing[s][x].item,
           lock[WorkOf(s, x)] = Free,
           lock' = [lock EXCEPT ![WorkOf(s, x)] = <<s, x>>],
           overrun' = IF \E o \in overrun : doing[o[1]][o[2]].item.work = WorkOf(s, x)
                      THEN overrun \cup {<<s, x>>} ELSE overrun,
           UNCHANGED finished,
           d.pc \in {"reset", "run"} => d.item \notin finished
    PROVE  LockInv'
<1> DEFINE w == WorkOf(s, x)
<1>1. DoingOK /\ lock \in [Work -> Owner \cup {Free, Lost}] /\ overrun \subseteq Owner
  BY DEF LockInv, LocksOK
<1>2. /\ DoingOK' /\ doing'[s][x] = d
      /\ \A y \in Thread : y # x => doing'[s][y] = doing[s][y]
      /\ \A t \in Scheduler : t # s => doing'[t] = doing[t]
  BY <1>1, DoingMoves
<1>3. \A t \in Scheduler, y \in Thread : <<t, y>> # <<s, x>> => doing'[t][y] = doing[t][y]
  BY <1>2
<1>4. w \in Work
  BY <1>1, DoingIs
<1>5. Holds(s, x)' /\ WorkOf(s, x)' = w /\ ~Holds(s, x)
  BY <1>2 DEF Holds, UnderLock, WorkOf
<1>6. \A t \in Scheduler, y \in Thread : <<t, y>> # <<s, x>> /\ Holds(t, y)' =>
         Holds(t, y) /\ WorkOf(t, y)' = WorkOf(t, y) /\ WorkOf(t, y) \in Work
  <2>1. \A t \in Scheduler, y \in Thread : Holds(t, y) => WorkOf(t, y) \in Work
    BY <1>1, DoingIs DEF UnderLock
  <2> QED
    BY <1>3, <2>1 DEF Holds, WorkOf
<1>7. <<s, x>> \in Owner /\ overrun \subseteq overrun'
  BY DEF Owner
<1> HIDE DEF w
<1>8. LocksOK'
  <2>1. lock' \in [Work -> Owner \cup {Free, Lost}]
    BY <1>1, <1>4, <1>7 DEF w
  <2>2. overrun' \subseteq Owner
    BY <1>1, <1>7
  <2> QED
    BY <2>1, <2>2 DEF LocksOK
<1>9. lock'[w] = <<s, x>> /\ \A v \in Work : v # w => lock'[v] = lock[v]
  BY <1>1, <1>4 DEF w
<1>10. ASSUME NEW t \in Scheduler, NEW y \in Thread,
              <<t, y>> # <<s, x>>, Holds(t, y)', WorkOf(t, y)' = w
       PROVE  <<t, y>> \in overrun /\ <<s, x>> \in overrun'
  <2>1. Holds(t, y) /\ WorkOf(t, y) = w
    BY <1>6, <1>10
  <2>2. <<t, y>> \in overrun
    BY <2>1, NoOwner DEF LockInv, LockHeld, w
  <2>3. doing[<<t, y>>[1]][<<t, y>>[2]].item.work = w
    BY <2>1 DEF WorkOf
  <2>4. \E o \in overrun : doing[o[1]][o[2]].item.work = w
    BY <2>2, <2>3
  <2> QED
    BY <2>2, <2>4 DEF w
<1>11. LockHeld'
  <2> SUFFICES ASSUME NEW t \in Scheduler, NEW y \in Thread, Holds(t, y)'
               PROVE  lock'[WorkOf(t, y)'] = <<t, y>> \/ <<t, y>> \in overrun'
    BY DEF LockHeld
  <2>1. CASE <<t, y>> = <<s, x>>
    BY <1>5, <1>9, <2>1
  <2>2. CASE <<t, y>> # <<s, x>> /\ WorkOf(t, y)' = w
    BY <1>7, <1>10, <2>2
  <2>3. CASE <<t, y>> # <<s, x>> /\ WorkOf(t, y)' # w
    <3>1. Holds(t, y) /\ WorkOf(t, y)' = WorkOf(t, y) /\ WorkOf(t, y) \in Work
      BY <1>6, <2>3
    <3>2. lock[WorkOf(t, y)] = <<t, y>> \/ <<t, y>> \in overrun
      BY <3>1 DEF LockInv, LockHeld
    <3> QED
      BY <1>7, <1>9, <2>3, <3>1, <3>2
  <2> QED
    BY <2>1, <2>2, <2>3
<1>12. TwoOverrun'
  <2> SUFFICES ASSUME NEW t \in Scheduler, NEW y \in Thread, NEW u \in Scheduler, NEW z \in Thread,
                      Holds(t, y)', Holds(u, z)', WorkOf(t, y)' = WorkOf(u, z)',
                      <<t, y>> # <<u, z>>
               PROVE  <<t, y>> \in overrun'
    BY DEF TwoOverrun
  <2>1. CASE <<t, y>> = <<s, x>>
    BY <1>5, <1>10, <2>1
  <2>2. CASE <<t, y>> # <<s, x>> /\ <<u, z>> = <<s, x>>
    BY <1>5, <1>7, <1>10, <2>2
  <2>3. CASE <<t, y>> # <<s, x>> /\ <<u, z>> # <<s, x>>
    BY <1>6, <1>7, <2>3 DEF LockInv, TwoOverrun
  <2> QED
    BY <2>1, <2>2, <2>3
<1>13. NotAgain'
  <2> SUFFICES ASSUME NEW t \in Scheduler, NEW y \in Thread,
                      doing'[t][y].pc \in {"reset", "run"}, doing'[t][y].item \in finished
               PROVE  <<t, y>> \in overrun'
    BY DEF NotAgain
  <2>1. CASE <<t, y>> = <<s, x>>
    BY <1>2, <2>1
  <2>2. CASE <<t, y>> # <<s, x>>
    BY <1>3, <1>7, <2>2 DEF LockInv, NotAgain
  <2> QED
    BY <2>1, <2>2
<1> QED
  BY <1>2, <1>8, <1>11, <1>12, <1>13 DEF LockInv

(* A goroutine is done with a lock, which becomes free or is lost.         *)
LEMMA Leaves ==
    ASSUME LockInv, NEW s \in Scheduler, NEW x \in Thread, NEW v \in {Free, Lost},
           doing' = [doing EXCEPT ![s][x] = NotWorking],
           Holds(s, x),
           lock' = IF lock[WorkOf(s, x)] = <<s, x>> THEN [lock EXCEPT ![WorkOf(s, x)] = v] ELSE lock,
           overrun' = overrun \ {<<s, x>>}, UNCHANGED finished
    PROVE  LockInv'
<1>1. DoingOK /\ lock \in [Work -> Owner \cup {Free, Lost}] /\ overrun \subseteq Owner
  BY DEF LockInv, LocksOK
<1>2. /\ DoingOK' /\ doing'[s][x] = NotWorking
      /\ \A y \in Thread : y # x => doing'[s][y] = doing[s][y]
      /\ \A t \in Scheduler : t # s => doing'[t] = doing[t]
  BY <1>1, DoingMoves, DoingMade
<1>3. \A t \in Scheduler, y \in Thread : <<t, y>> # <<s, x>> => doing'[t][y] = doing[t][y]
  BY <1>2
<1>4. ~Holds(s, x)' /\ doing'[s][x].pc \notin {"reset", "run"}
  BY <1>2 DEF Holds, NotWorking
<1>5. \A t \in Scheduler, y \in Thread : Holds(t, y)' =>
         /\ <<t, y>> # <<s, x>> /\ Holds(t, y)
         /\ WorkOf(t, y)' = WorkOf(t, y) /\ WorkOf(t, y) \in Work
  <2>1. \A t \in Scheduler, y \in Thread : Holds(t, y) => WorkOf(t, y) \in Work
    BY <1>1, DoingIs DEF UnderLock
  <2> QED
    BY <1>3, <1>4, <2>1 DEF Holds, WorkOf
<1>6. LocksOK'
  <2>1. lock' \in [Work -> Owner \cup {Free, Lost}]
    BY <1>1
  <2> QED
    BY <1>1, <2>1 DEF LocksOK
<1>7. \A u \in Work : lock[u] # <<s, x>> => lock'[u] = lock[u]
  BY <1>1
<1>8. LockHeld'
  BY <1>5, <1>7 DEF LockInv, LockHeld
<1>9. TwoOverrun'
  BY <1>5 DEF LockInv, TwoOverrun
<1>10. NotAgain'
  BY <1>3, <1>4 DEF LockInv, NotAgain
<1> QED
  BY <1>2, <1>6, <1>8, <1>9, <1>10 DEF LockInv

LEMMA LockExpiresLocks ==
    ASSUME LockInv, NEW w \in Work, LockExpires(w)
    PROVE  LockInv'
<1>1. DoingOK /\ lock \in [Work -> Owner \cup {Free, Lost}] /\ overrun \subseteq Owner
  BY DEF LockInv, LocksOK
<1>2. /\ lock[w] # Free /\ lock' = [lock EXCEPT ![w] = Free]
      /\ lock[w] = Lost \/ overrun' = overrun \cup {lock[w]}
      /\ lock[w] = Lost => overrun' = overrun
      /\ UNCHANGED <<doing, finished>>
  BY DEF LockExpires
<1>3. overrun \subseteq overrun' /\ overrun' \subseteq Owner
  BY <1>1, <1>2
<1>4. lock' \in [Work -> Owner \cup {Free, Lost}]
  BY <1>1, <1>2
<1>5. \A v \in Work : v # w => lock'[v] = lock[v]
  BY <1>1, <1>2
<1>6. \A t \in Scheduler, y \in Thread :
         /\ Holds(t, y)' = Holds(t, y) /\ WorkOf(t, y)' = WorkOf(t, y)
         /\ Holds(t, y) => WorkOf(t, y) \in Work
  <2>1. \A t \in Scheduler, y \in Thread : Holds(t, y) => WorkOf(t, y) \in Work
    BY <1>1, DoingIs DEF UnderLock
  <2> QED
    BY <1>2, <2>1 DEF Holds, WorkOf
<1>7. LockHeld'
  <2> SUFFICES ASSUME NEW t \in Scheduler, NEW y \in Thread, Holds(t, y)
               PROVE  lock'[WorkOf(t, y)] = <<t, y>> \/ <<t, y>> \in overrun'
    BY <1>6 DEF LockHeld
  <2>1. lock[WorkOf(t, y)] = <<t, y>> \/ <<t, y>> \in overrun
    BY DEF LockInv, LockHeld
  <2>2. CASE lock[w] = <<t, y>>
    BY <1>2, <2>2, NoOwner
  <2>3. CASE lock[w] # <<t, y>>
    BY <1>3, <1>5, <1>6, <2>1, <2>3
  <2> QED
    BY <2>2, <2>3
<1>8. TwoOverrun'
  BY <1>3, <1>6 DEF LockInv, TwoOverrun
<1>9. NotAgain'
  BY <1>2, <1>3 DEF LockInv, NotAgain
<1>10. DoingOK' /\ LocksOK'
  BY <1>1, <1>2, <1>3, <1>4 DEF DoingOK, LocksOK
<1> QED
  BY <1>7, <1>8, <1>9, <1>10 DEF LockInv

LEMMA ProcessEndsLocks ==
    ASSUME LockInv, NEW s \in Scheduler, ProcessEnds(s)
    PROVE  /\ LockInv' /\ \A x \in Thread : ~Holds(s, x)'
           /\ \A t \in Scheduler : t # s => doing'[t] = doing[t]
<1>1. DoingOK /\ lock \in [Work -> Owner \cup {Free, Lost}] /\ overrun \subseteq Owner
  BY DEF LockInv, LocksOK
<1>2. /\ lock' = [w \in Work |-> IF lock[w] \in {s} \X Thread THEN Lost ELSE lock[w]]
      /\ doing' = [doing EXCEPT ![s] = [x \in Thread |-> NotWorking]]
      /\ overrun' = overrun \ ({s} \X Thread) /\ UNCHANGED finished
  BY DEF ProcessEnds
<1>3. /\ \A x \in Thread : doing'[s][x] = NotWorking
      /\ \A t \in Scheduler : t # s => doing'[t] = doing[t]
  BY <1>1, <1>2 DEF DoingOK
<1>4. DoingOK'
  BY <1>1, <1>2, DoingMade DEF DoingOK
<1>5. \A x \in Thread : ~Holds(s, x)' /\ doing'[s][x].pc \notin {"reset", "run"}
  BY <1>3 DEF Holds, NotWorking
<1>6. \A t \in Scheduler, y \in Thread : Holds(t, y)' =>
         t # s /\ Holds(t, y) /\ WorkOf(t, y)' = WorkOf(t, y) /\ WorkOf(t, y) \in Work
  <2>1. \A t \in Scheduler, y \in Thread : Holds(t, y) => WorkOf(t, y) \in Work
    BY <1>1, DoingIs DEF UnderLock
  <2> QED
    BY <1>3, <1>5, <2>1 DEF Holds, WorkOf
<1>7. \A t, y : t # s => <<t, y>> \notin {s} \X Thread
  OBVIOUS
<1>8. LocksOK'
  <2>1. lock' \in [Work -> Owner \cup {Free, Lost}]
    BY <1>1, <1>2
  <2>2. overrun' \subseteq Owner
    BY <1>1, <1>2
  <2> QED
    BY <2>1, <2>2 DEF LocksOK
<1>9. LockHeld'
  <2> SUFFICES ASSUME NEW t \in Scheduler, NEW y \in Thread, Holds(t, y)'
               PROVE  lock'[WorkOf(t, y)'] = <<t, y>> \/ <<t, y>> \in overrun'
    BY DEF LockHeld
  <2>1. t # s /\ Holds(t, y) /\ WorkOf(t, y)' = WorkOf(t, y) /\ WorkOf(t, y) \in Work
    BY <1>6
  <2>2. lock[WorkOf(t, y)] = <<t, y>> \/ <<t, y>> \in overrun
    BY <2>1 DEF LockInv, LockHeld
  <2> QED
    BY <1>2, <1>7, <2>1, <2>2
<1>10. TwoOverrun'
  BY <1>2, <1>6, <1>7 DEF LockInv, TwoOverrun
<1>11. NotAgain'
  <2> SUFFICES ASSUME NEW t \in Scheduler, NEW y \in Thread,
                      doing'[t][y].pc \in {"reset", "run"}, doing'[t][y].item \in finished
               PROVE  <<t, y>> \in overrun'
    BY <1>2 DEF NotAgain
  <2>1. t # s
    BY <1>5
  <2>2. <<t, y>> \in overrun
    BY <1>3, <2>1 DEF LockInv, NotAgain
  <2> QED
    BY <1>2, <1>7, <2>1, <2>2
<1> QED
  BY <1>3, <1>4, <1>5, <1>8, <1>9, <1>10, <1>11 DEF LockInv

LEMMA LockFrame ==
    ASSUME LockInv, UNCHANGED <<doing, lock, overrun, finished>>
    PROVE  LockInv'
BY DEF LockInv, DoingOK, LocksOK, LockHeld, TwoOverrun, NotAgain, Holds, WorkOf

(* What a goroutine does to doing in one step: it moves outside the lock,  *)
(* under it, into it or out of it.                                         *)
Moves(s, x, d) == d \in DoingRecord /\ doing' = [doing EXCEPT ![s][x] = d]
StaysOut(s, x) == ~Holds(s, x) /\ \E d : Moves(s, x, d) /\ d.pc \notin UnderLock
StaysIn(s, x) ==
    Holds(s, x) /\ \E d : Moves(s, x, d) /\ d.pc \in UnderLock /\ d.item = doing[s][x].item
GoesIn(s, x) ==
    /\ doing[s][x].pc = "lock"
    /\ \E d : Moves(s, x, d) /\ d.pc \in UnderLock /\ d.item = doing[s][x].item
GoesOut(s, x) == Holds(s, x) /\ Moves(s, x, NotWorking)

LEMMA InvokeDoing ==
    ASSUME DoingOK, NEW s \in Scheduler, NEW g \in Thread, NEW item \in Item, NEW mode,
           doing[s][g].pc = "idle", InvokeWork(s, g, item, mode)
    PROVE  UNCHANGED doing \/ StaysOut(s, g)
<1>1. CASE mode = "DIRECT"
  <2>1. doing' = [doing EXCEPT ![s][g] = DoWork(item)]
    BY <1>1 DEF InvokeWork
  <2>2. DoWork(item) \in DoingRecord /\ DoWork(item).pc \notin UnderLock
    BY DoingMade DEF UnderLock
  <2>3. ~Holds(s, g)
    BY DEF Holds
  <2> QED
    BY <2>1, <2>2, <2>3 DEF StaysOut, Moves
<1>2. CASE mode # "DIRECT"
  BY <1>2 DEF InvokeWork
<1> QED
  BY <1>1, <1>2

(* The kind of move each action of DoWork makes.                           *)
LEMMA ThreadKinds ==
    ASSUME DoingOK, MemoryOK, NEW s \in Scheduler, NEW x \in Thread,
           \/ AccessFails(s, x) \/ (x \in Job /\ (TakeWork(s, x) \/ WorkerExits(s, x)))
           \/ AcquireLock(s, x) \/ ProbeRow(s, x) \/ ResetNextTimeSet(s, x)
           \/ UpdateProcessedWork(s, x) \/ ReleaseWork(s, x)
           \/ \E done \in BOOLEAN : RunReturns(s, x, done)
    PROVE  \/ (StaysOut(s, x) \/ StaysIn(s, x)) /\ UNCHANGED runningWorkCount
           \/ GoesIn(s, x) /\ runningWorkCount' = [runningWorkCount EXCEPT ![s] = @ + 1]
           \/ GoesOut(s, x) /\ runningWorkCount' = [runningWorkCount EXCEPT ![s] = @ - 1]
<1>0. /\ NotWorking \in DoingRecord /\ NotWorking.pc \notin UnderLock
      /\ Exited \in DoingRecord /\ Exited.pc \notin UnderLock
      /\ Holds(s, x) <=> doing[s][x].pc \in UnderLock
      /\ doing[s][x].pc \notin {"idle", "exited"} => doing[s][x].item \in Item
  BY DoingMade, DoingIs DEF UnderLock
<1>1. CASE AccessFails(s, x)
  <2>1. CASE /\ doing[s][x].pc = "lock"
             /\ doing' = [doing EXCEPT ![s][x] = NotWorking]
             /\ UNCHANGED runningWorkCount
    BY <1>0, <2>1 DEF StaysOut, Moves, UnderLock
  <2>2. CASE /\ doing[s][x].pc \in {"probe", "reset", "update"}
             /\ doing' = [doing EXCEPT ![s][x] = [pc |-> "release", item |-> doing[s][x].item]]
             /\ UNCHANGED runningWorkCount
    <3> DEFINE d == [pc |-> "release", item |-> doing[s][x].item]
    <3>1. d \in DoingRecord /\ d.pc \in UnderLock /\ d.item = doing[s][x].item
      BY <1>0, <2>2, DoingMade DEF UnderLock
    <3>2. doing' = [doing EXCEPT ![s][x] = d]
      BY <2>2
    <3>3. Holds(s, x)
      BY <1>0, <2>2 DEF UnderLock
    <3> HIDE DEF d
    <3> QED
      BY <2>2, <3>1, <3>2, <3>3 DEF StaysIn, Moves
  <2>3. CASE /\ doing[s][x].pc = "release"
             /\ doing' = [doing EXCEPT ![s][x] = NotWorking]
             /\ runningWorkCount' = [runningWorkCount EXCEPT ![s] = @ - 1]
    BY <1>0, <2>3 DEF GoesOut, Moves, UnderLock
  <2> QED
    BY <1>1, <2>1, <2>2, <2>3 DEF AccessFails
<1>2. CASE TakeWork(s, x)
  <2>1. /\ doing[s][x].pc = "idle" /\ doing' = [doing EXCEPT ![s][x] = DoWork(Head(queue[s]))]
        /\ UNCHANGED runningWorkCount
    BY <1>2 DEF TakeWork
  <2>2. DoWork(Head(queue[s])) \in DoingRecord /\ DoWork(Head(queue[s])).pc \notin UnderLock
    BY <1>2, TakeQueue, DoingMade DEF UnderLock
  <2>3. ~Holds(s, x)
    BY <1>0, <2>1 DEF UnderLock
  <2> QED
    BY <2>1, <2>2, <2>3 DEF StaysOut, Moves
<1>3. CASE WorkerExits(s, x)
  <2>1. /\ doing[s][x].pc = "idle" /\ doing' = [doing EXCEPT ![s][x] = Exited]
        /\ UNCHANGED runningWorkCount
    BY <1>3 DEF WorkerExits
  <2> QED
    BY <1>0, <2>1 DEF StaysOut, Moves, UnderLock
<1>4. CASE AcquireLock(s, x)
  <2>1. doing[s][x].pc = "lock"
    BY <1>4 DEF AcquireLock
  <2>2. CASE lock[doing[s][x].item.work] = Free
    <3> DEFINE q == IF doing[s][x].item.id = NoDb THEN "reset" ELSE "probe"
    <3>1. Goto(s, x, q) /\ runningWorkCount' = [runningWorkCount EXCEPT ![s] = @ + 1]
      BY <1>4, <2>2 DEF AcquireLock
    <3>2. q \in {"probe", "reset", "run", "release"} /\ q \in UnderLock
      BY DEF UnderLock
    <3> HIDE DEF q
    <3>3. PICK d \in DoingRecord : /\ doing' = [doing EXCEPT ![s][x] = d]
                                   /\ d.pc = q /\ d.item = doing[s][x].item
      BY <2>1, <3>1, <3>2, GotoIs
    <3> QED
      BY <2>1, <3>1, <3>2, <3>3 DEF GoesIn, Moves
  <2>3. CASE lock[doing[s][x].item.work] # Free
    <3>1. doing' = [doing EXCEPT ![s][x] = NotWorking] /\ UNCHANGED runningWorkCount
      BY <1>4, <2>3 DEF AcquireLock
    <3> QED
      BY <1>0, <2>1, <3>1 DEF StaysOut, Moves, UnderLock
  <2> QED
    BY <2>2, <2>3
<1>5. CASE ProbeRow(s, x)
  <2> DEFINE q == IF Saved(doing[s][x].item) THEN "reset" ELSE "release"
  <2>1. doing[s][x].pc = "probe" /\ Goto(s, x, q) /\ UNCHANGED runningWorkCount
    BY <1>5 DEF ProbeRow
  <2>2. q \in {"probe", "reset", "run", "release"} /\ q \in UnderLock
    BY DEF UnderLock
  <2> HIDE DEF q
  <2>3. PICK d \in DoingRecord : /\ doing' = [doing EXCEPT ![s][x] = d]
                                 /\ d.pc = q /\ d.item = doing[s][x].item
    BY <2>1, <2>2, GotoIs
  <2>4. Holds(s, x)
    BY <2>1 DEF Holds
  <2> QED
    BY <2>1, <2>2, <2>3, <2>4 DEF StaysIn, Moves
<1>6. CASE ResetNextTimeSet(s, x)
  <2>1. doing[s][x].pc = "reset" /\ Goto(s, x, "run") /\ UNCHANGED runningWorkCount
    BY <1>6 DEF ResetNextTimeSet
  <2>2. PICK d \in DoingRecord : /\ doing' = [doing EXCEPT ![s][x] = d]
                                 /\ d.pc = "run" /\ d.item = doing[s][x].item
    BY <2>1, GotoIs
  <2>3. Holds(s, x) /\ "run" \in UnderLock
    BY <2>1 DEF Holds, UnderLock
  <2> QED
    BY <2>1, <2>2, <2>3 DEF StaysIn, Moves
<1>7. CASE UpdateProcessedWork(s, x)
  <2> DEFINE d == [pc |-> "release", item |-> doing[s][x].item]
  <2>1. /\ doing[s][x].pc = "update" /\ doing' = [doing EXCEPT ![s][x] = d]
        /\ UNCHANGED runningWorkCount
    BY <1>7 DEF UpdateProcessedWork
  <2>2. d \in DoingRecord /\ d.pc \in UnderLock /\ d.item = doing[s][x].item
    BY <1>0, <2>1, DoingMade DEF UnderLock
  <2>3. Holds(s, x)
    BY <2>1 DEF Holds
  <2> HIDE DEF d
  <2> QED
    BY <2>1, <2>2, <2>3 DEF StaysIn, Moves
<1>8. CASE ReleaseWork(s, x)
  <2>1. /\ doing[s][x].pc = "release" /\ doing' = [doing EXCEPT ![s][x] = NotWorking]
        /\ runningWorkCount' = [runningWorkCount EXCEPT ![s] = @ - 1]
    BY <1>8 DEF ReleaseWork
  <2> QED
    BY <1>0, <2>1 DEF GoesOut, Moves, UnderLock
<1>9. ASSUME NEW done \in BOOLEAN, RunReturns(s, x, done)
      PROVE  StaysIn(s, x) /\ UNCHANGED runningWorkCount
  <2> DEFINE d == [pc |-> "update", item |-> doing[s][x].item, done |-> done]
  <2>1. /\ doing[s][x].pc = "run" /\ doing' = [doing EXCEPT ![s][x] = d]
        /\ UNCHANGED runningWorkCount
    BY <1>9 DEF RunReturns
  <2>2. d \in DoingRecord /\ d.pc \in UnderLock /\ d.item = doing[s][x].item
    BY <1>0, <2>1, DoingMade DEF UnderLock
  <2>3. Holds(s, x)
    BY <2>1 DEF Holds
  <2> HIDE DEF d
  <2> QED
    BY <2>1, <2>2, <2>3 DEF StaysIn, Moves
<1> QED
  BY <1>1, <1>2, <1>3, <1>4, <1>5, <1>6, <1>7, <1>8, <1>9

(* What the feeders that may run a work themselves do to doing.            *)
LEMMA HandleDoing ==
    ASSUME MemoryOK, DoingOK, NEW s \in Scheduler, Handle(s)
    PROVE  (UNCHANGED doing \/ StaysOut(s, "handler")) /\ "handler" \in Thread
<1> DEFINE msg == Head(messages[s])
<1>1. messages[s] # <<>> /\ messages[s] \in Seq(Message)
  BY DEF Handle, MemoryOK
<1>2. msg.item \in Item
  BY <1>1, HeadTailIs, MessageIs
<1>3. "handler" \in Thread /\ doing[s]["handler"].pc = "idle"
  BY DEF Handle, IsIdle, Thread
<1>4. InvokeWork(s, "handler", msg.item, msg.mode) \/ UNCHANGED doing
  BY DEF Handle
<1> HIDE DEF msg
<1> QED
  BY <1>2, <1>3, <1>4, InvokeDoing

LEMMA PostedDoing ==
    ASSUME MemoryOK, DoingOK, PosterFree, NEW s \in Scheduler, Invoke(s)
    PROVE  (UNCHANGED doing \/ StaysOut(s, "poster")) /\ "poster" \in Thread
<1> DEFINE mode == feed[s]["poster"].pc
<1> DEFINE item == Head(feed[s]["poster"].works)
<1>1. mode \in {"DIRECT", "QUEUED"}
  BY DEF Invoke
<1>2. item \in Item
  BY <1>1, PosterItem
<1>3. "poster" \in Thread /\ doing[s]["poster"].pc = "idle"
  BY <1>1 DEF PosterFree, Thread
<1>4. InvokeWork(s, "poster", item, mode) \/ UNCHANGED doing
  BY DEF Invoke
<1> HIDE DEF mode, item
<1> QED
  BY <1>2, <1>3, <1>4, InvokeDoing

LEMMA LockStep ==
    ASSUME DatabaseInv, MemoryOK, LockInv, PosterFree, [Next]_vars
    PROVE  LockInv'
<1> DEFINE Same == UNCHANGED <<doing, lock, overrun, finished>>
<1>0. DoingOK
  BY DEF LockInv
<1>1. Same => LockInv'
  BY LockFrame
<1> HIDE DEF Same
<1>2. CASE UNCHANGED vars
  BY <1>1, <1>2 DEF Same, vars, history
<1>3. ASSUME NEW w \in Work,
             \/ TimePasses(w) \/ LockExpires(w)
             \/ UpdateWorkNextTime(w) \/ RemoveWork(w)
      PROVE  LockInv'
  <2>1. TimePasses(w) \/ UpdateWorkNextTime(w) \/ RemoveWork(w) => Same
    BY DEF Same, TimePasses, UpdateWorkNextTime, RemoveWork
  <2> QED
    BY <1>1, <1>3, <2>1, LockExpiresLocks
<1>4. ASSUME NEW s \in Scheduler, NEW w \in Work, NEW mode \in PostMode,
             PostNoDb(s, w, mode) \/ \E t \in BOOLEAN : PostWork(s, w, mode, t)
      PROVE  LockInv'
  BY <1>1, <1>4 DEF Same, PostNoDb, PostWork, history
<1>5. ASSUME NEW s \in Scheduler,
             \/ SendCancelled(s) \/ Shutdown(s) \/ Crash(s)
             \/ Run(s) \/ ShutdownReturns(s)
             \/ ReadWorks(s) \/ ReaderExits(s) \/ Handle(s) \/ Invoke(s)
      PROVE  LockInv'
  <2>1. SendCancelled(s) => Same
    BY DEF SendCancelled, GiveUp, Same
  <2>2. Shutdown(s) \/ Run(s) => Same
    BY DEF Shutdown, Run, Same, history
  <2>3. Crash(s) \/ ShutdownReturns(s) => ProcessEnds(s)
    BY DEF Crash, ShutdownReturns
  <2>4. ReadWorks(s) \/ ReaderExits(s) => Same
    BY DEF ReadWorks, ReaderExits, Same, history
  <2>5. CASE Handle(s)
    <3>5. (UNCHANGED doing \/ StaysOut(s, "handler")) /\ "handler" \in Thread
      BY <1>0, <2>5, HandleDoing
    <3>6. UNCHANGED <<lock, overrun, finished>>
      BY <2>5 DEF Handle, history
    <3> QED
      BY <3>5, <3>6, Outside, LockFrame DEF StaysOut, Moves
  <2>6. CASE Invoke(s)
    <3>5. (UNCHANGED doing \/ StaysOut(s, "poster")) /\ "poster" \in Thread
      BY <1>0, <2>6, PostedDoing
    <3>6. UNCHANGED <<lock, overrun, finished>>
      BY <2>6 DEF Invoke, history
    <3> QED
      BY <3>5, <3>6, Outside, LockFrame DEF StaysOut, Moves
  <2> QED
    BY <1>1, <1>5, <2>1, <2>2, <2>3, <2>4, <2>5, <2>6, ProcessEndsLocks
<1>6. ASSUME NEW s \in Scheduler, NEW g \in Feeder,
             \/ HoldFails(s, g) \/ SendPanics(s, g)
             \/ HoldWorks(s, g) \/ Enqueue(s, g) \/ Send(s, g) \/ SendStopped(s, g)
      PROVE  LockInv'
  <2>1. HoldFails(s, g) => Same
    BY DEF HoldFails, Same, history
  <2>2. SendPanics(s, g) => ProcessEnds(s)
    BY DEF SendPanics
  <2>3. HoldWorks(s, g) => Same
    BY DEF HoldWorks, Same
  <2>4. Enqueue(s, g) \/ Send(s, g) => Same
    BY DEF Enqueue, Send, Same, history
  <2>5. SendStopped(s, g) => Same
    BY DEF SendStopped, GiveUp, Same
  <2> QED
    BY <1>1, <1>6, <2>1, <2>2, <2>3, <2>4, <2>5, ProcessEndsLocks
<1>7. ASSUME NEW s \in Scheduler, NEW x \in Thread,
             \/ AccessFails(s, x) \/ (x \in Job /\ (TakeWork(s, x) \/ WorkerExits(s, x)))
             \/ AcquireLock(s, x) \/ ProbeRow(s, x) \/ ResetNextTimeSet(s, x)
             \/ UpdateProcessedWork(s, x) \/ ReleaseWork(s, x)
             \/ \E done \in BOOLEAN : RunReturns(s, x, done)
      PROVE  LockInv'
  <2>0. /\ NotWorking \in DoingRecord /\ NotWorking.pc \notin UnderLock
        /\ Holds(s, x) <=> doing[s][x].pc \in UnderLock
        /\ doing[s][x].pc \notin {"idle", "exited"} => doing[s][x].item \in Item
    BY <1>0, DoingMade, DoingIs DEF UnderLock
  <2>1. CASE AccessFails(s, x)
    <3>0. UNCHANGED finished
      BY <2>1 DEF AccessFails
    <3>1. CASE /\ doing[s][x].pc = "lock"
               /\ doing' = [doing EXCEPT ![s][x] = NotWorking]
               /\ UNCHANGED <<lock, overrun>>
      <4>1. ~Holds(s, x)
        BY <3>1 DEF Holds
      <4> QED
        BY <2>0, <3>0, <3>1, <4>1, Outside
    <3>2. CASE /\ doing[s][x].pc \in {"probe", "reset", "update"}
               /\ doing' = [doing EXCEPT ![s][x] = [pc |-> "release", item |-> doing[s][x].item]]
               /\ UNCHANGED <<lock, overrun>>
      <4> DEFINE d == [pc |-> "release", item |-> doing[s][x].item]
      <4>1. d \in DoingRecord /\ d.pc = "release" /\ d.item = doing[s][x].item
        BY <2>0, <3>2, DoingMade
      <4>2. doing' = [doing EXCEPT ![s][x] = d]
        BY <3>2
      <4>3. Holds(s, x) /\ "release" \in UnderLock
        BY <3>2 DEF Holds, UnderLock
      <4> HIDE DEF d
      <4> QED
        BY <3>0, <3>2, <4>1, <4>2, <4>3, Inside
    <3>3. CASE /\ doing[s][x].pc = "release"
               /\ lock' = IF lock[WorkOf(s, x)] = <<s, x>>
                          THEN [lock EXCEPT ![WorkOf(s, x)] = Lost] ELSE lock
               /\ doing' = [doing EXCEPT ![s][x] = NotWorking]
               /\ overrun' = overrun \ {<<s, x>>}
      <4>1. Holds(s, x)
        BY <3>3 DEF Holds
      <4> QED
        BY <3>0, <3>3, <4>1, Leaves
    <3> QED
      BY <2>1, <3>1, <3>2, <3>3 DEF AccessFails, WorkOf
  <2>2. CASE x \in Job /\ (TakeWork(s, x) \/ WorkerExits(s, x))
    <3>1. UNCHANGED <<lock, overrun, finished>>
      BY <2>2 DEF TakeWork, WorkerExits, history
    <3>2. doing[s][x].pc = "idle"
      BY <2>2 DEF TakeWork, WorkerExits
    <3>3. StaysOut(s, x)
      BY <1>0, <2>2, <3>2, ThreadKinds DEF StaysOut, StaysIn, GoesIn, GoesOut, Holds
    <3> QED
      BY <3>1, <3>3, Outside DEF StaysOut, Moves
  <2>3. CASE AcquireLock(s, x)
    <3>0. doing[s][x].pc = "lock" /\ ~Holds(s, x) /\ UNCHANGED finished
      BY <2>3 DEF AcquireLock, Holds
    <3>1. CASE lock[WorkOf(s, x)] # Free
      <4>1. doing' = [doing EXCEPT ![s][x] = NotWorking] /\ UNCHANGED <<lock, overrun>>
        BY <2>3, <3>1 DEF AcquireLock, WorkOf
      <4> QED
        BY <2>0, <3>0, <4>1, Outside
    <3>2. CASE lock[WorkOf(s, x)] = Free
      <4> DEFINE q == IF doing[s][x].item.id = NoDb THEN "reset" ELSE "probe"
      <4>1. /\ Goto(s, x, q) /\ lock' = [lock EXCEPT ![WorkOf(s, x)] = <<s, x>>]
            /\ overrun' = IF \E o \in overrun : doing[o[1]][o[2]].item.work = WorkOf(s, x)
                          THEN overrun \cup {<<s, x>>} ELSE overrun
        BY <2>3, <3>2 DEF AcquireLock, WorkOf
      <4>2. q \in {"probe", "reset", "run", "release"} /\ q \in UnderLock
        BY DEF UnderLock
      <4>3. q \in {"reset", "run"} => doing[s][x].item \notin finished
        <5>1. q \in {"reset", "run"} => doing[s][x].item.id = 0
          BY OldIdIs
        <5>2. \A i \in finished : i.id # 0
          <6>1. \A i \in finished : i.id \in 1 .. posts \cup {OldId}
            BY DEF DatabaseInv, FinishedAreGone
          <6>2. posts \in Int
            BY OldIdIs DEF DatabaseInv, DatabaseOK
          <6> QED
            BY <6>1, <6>2, OldIdIs
        <5> HIDE DEF q
        <5> QED
          BY <5>1, <5>2
      <4> HIDE DEF q
      <4>4. PICK d \in DoingRecord : /\ doing' = [doing EXCEPT ![s][x] = d]
                                     /\ d.pc = q /\ d.item = doing[s][x].item
        BY <1>0, <3>0, <4>1, <4>2, GotoIs
      <4> QED
        BY <3>0, <3>2, <4>1, <4>2, <4>3, <4>4, Enters
    <3> QED
      BY <3>1, <3>2
  <2>4. CASE ProbeRow(s, x)
    <3> DEFINE q == IF Saved(doing[s][x].item) THEN "reset" ELSE "release"
    <3>1. doing[s][x].pc = "probe" /\ Goto(s, x, q) /\ UNCHANGED <<lock, overrun, finished>>
      BY <2>4 DEF ProbeRow, history
    <3>2. q \in {"probe", "reset", "run", "release"} /\ q \in UnderLock
      BY DEF UnderLock
    <3>3. q \in {"reset", "run"} => doing[s][x].item \notin finished
      BY DEF DatabaseInv, FinishedAreGone
    <3> HIDE DEF q
    <3>4. PICK d \in DoingRecord : /\ doing' = [doing EXCEPT ![s][x] = d]
                                   /\ d.pc = q /\ d.item = doing[s][x].item
      BY <1>0, <3>1, <3>2, GotoIs
    <3>5. Holds(s, x)
      BY <3>1 DEF Holds
    <3> QED
      BY <3>1, <3>2, <3>3, <3>4, <3>5, Inside
  <2>5. CASE ResetNextTimeSet(s, x)
    <3>1. doing[s][x].pc = "reset" /\ Goto(s, x, "run") /\ UNCHANGED <<lock, overrun, finished>>
      BY <2>5 DEF ResetNextTimeSet
    <3>2. PICK d \in DoingRecord : /\ doing' = [doing EXCEPT ![s][x] = d]
                                   /\ d.pc = "run" /\ d.item = doing[s][x].item
      BY <1>0, <3>1, GotoIs
    <3>3. Holds(s, x) /\ "run" \in UnderLock
      BY <3>1 DEF Holds, UnderLock
    <3>4. d.item \in finished => <<s, x>> \in overrun
      BY <3>1, <3>2 DEF LockInv, NotAgain
    <3> QED
      BY <3>1, <3>2, <3>3, <3>4, Inside
  <2>6. CASE UpdateProcessedWork(s, x)
    <3> DEFINE d == [pc |-> "release", item |-> doing[s][x].item]
    <3>1. /\ doing[s][x].pc = "update" /\ doing' = [doing EXCEPT ![s][x] = d]
          /\ UNCHANGED <<lock, overrun>>
      BY <2>6 DEF UpdateProcessedWork
    <3>2. finished' = finished \/ finished' = finished \cup {doing[s][x].item}
      BY <2>6 DEF UpdateProcessedWork, DeleteDone, SaveNextTime
    <3>3. d \in DoingRecord /\ d.pc = "release" /\ d.item = doing[s][x].item
      BY <2>0, <3>1, DoingMade
    <3>4. Holds(s, x) /\ "release" \in UnderLock
      BY <3>1 DEF Holds, UnderLock
    <3> HIDE DEF d
    <3> QED
      BY <3>1, <3>2, <3>3, <3>4, Inside
  <2>7. CASE ReleaseWork(s, x)
    <3>1. /\ doing[s][x].pc = "release" /\ doing' = [doing EXCEPT ![s][x] = NotWorking]
          /\ lock' = IF lock[WorkOf(s, x)] = <<s, x>>
                     THEN [lock EXCEPT ![WorkOf(s, x)] = Free] ELSE lock
          /\ overrun' = overrun \ {<<s, x>>} /\ UNCHANGED finished
      BY <2>7 DEF ReleaseWork, Unlock, WorkOf
    <3>2. Holds(s, x)
      BY <3>1 DEF Holds
    <3> QED
      BY <3>1, <3>2, Leaves
  <2>8. ASSUME NEW done \in BOOLEAN, RunReturns(s, x, done)
        PROVE  LockInv'
    <3> DEFINE d == [pc |-> "update", item |-> doing[s][x].item, done |-> done]
    <3>1. /\ doing[s][x].pc = "run" /\ doing' = [doing EXCEPT ![s][x] = d]
          /\ UNCHANGED <<lock, overrun, finished>>
      BY <2>8 DEF RunReturns, history
    <3>2. d \in DoingRecord /\ d.pc = "update" /\ d.item = doing[s][x].item
      BY <2>0, <3>1, DoingMade
    <3>3. Holds(s, x) /\ "update" \in UnderLock
      BY <3>1 DEF Holds, UnderLock
    <3> HIDE DEF d
    <3> QED
      BY <3>1, <3>2, <3>3, Inside
  <2> QED
    BY <1>7, <2>1, <2>2, <2>3, <2>4, <2>5, <2>6, <2>7, <2>8
<1> QED
  BY <1>2, <1>3, <1>4, <1>5, <1>6, <1>7, NextCases

-----------------------------------------------------------------------------
(* Whoever posts a work is not running one.                                *)
LEMMA PosterFeeds ==
    ASSUME MemoryOK, PosterFree, NEW s \in Scheduler, NEW g \in Feeder,
           NEW r, Fits(r), Feed(s, g, r), r.pc \notin {"DIRECT", "QUEUED"},
           \A t \in Scheduler : t # s => doing'[t] = doing[t],
           \A y \in Thread : y # g => doing'[s][y] = doing[s][y]
    PROVE  PosterFree'
<1>1. /\ feed'[s][g] = r
      /\ \A h \in Feeder : h # g => feed'[s][h] = feed[s][h]
      /\ \A t \in Scheduler : t # s => feed'[t] = feed[t]
  BY FeedMoves
<1>2. "poster" \in Feeder /\ "poster" \in Thread
  BY DEF Feeder, Thread
<1> SUFFICES ASSUME NEW t \in Scheduler, feed'[t]["poster"].pc \in {"DIRECT", "QUEUED"}
             PROVE  doing'[t]["poster"].pc = "idle"
  BY DEF PosterFree
<1>3. CASE t # s
  BY <1>1, <1>3 DEF PosterFree
<1>4. CASE t = s
  BY <1>1, <1>2, <1>4 DEF PosterFree
<1> QED
  BY <1>3, <1>4

LEMMA PosterMoves ==
    ASSUME DoingOK, PosterFree, NEW s \in Scheduler, NEW x \in Thread,
           x \in Job \/ doing[s][x].pc # "idle",
           NEW d, Moves(s, x, d), UNCHANGED feed
    PROVE  PosterFree'
<1>1. /\ \A y \in Thread : y # x => doing'[s][y] = doing[s][y]
      /\ \A t \in Scheduler : t # s => doing'[t] = doing[t]
  BY DoingMoves DEF Moves
<1>2. "poster" \in Thread /\ "poster" \notin Job
  BY WorkScheduleAssumption DEF Thread, Feeder
<1> SUFFICES ASSUME NEW t \in Scheduler, feed[t]["poster"].pc \in {"DIRECT", "QUEUED"}
             PROVE  doing'[t]["poster"].pc = "idle"
  BY DEF PosterFree
<1>3. doing[t]["poster"].pc = "idle"
  BY DEF PosterFree
<1> QED
  BY <1>1, <1>2, <1>3

LEMMA StaysOutMoves ==
    ASSUME DoingOK, NEW s \in Scheduler, NEW x \in Thread, StaysOut(s, x) \/ UNCHANGED doing
    PROVE  /\ \A t \in Scheduler : t # s => doing'[t] = doing[t]
           /\ \A y \in Thread : y # x => doing'[s][y] = doing[s][y]
BY DoingMoves DEF StaysOut, Moves

LEMMA PosterStep ==
    ASSUME DatabaseInv, MemoryOK, LockInv, CountersOK, PosterFree, [Next]_vars
    PROVE  PosterFree'
<1> DEFINE Same == UNCHANGED <<feed, doing>>
<1>0. DoingOK /\ "reader" \in Feeder /\ "handler" \in Feeder /\ "poster" \in Feeder
  BY DEF LockInv, Feeder
<1>1. Same => PosterFree'
  BY DEF PosterFree
<1> HIDE DEF Same
<1>2. CASE UNCHANGED vars
  BY <1>1, <1>2 DEF Same, vars
<1>3. ASSUME NEW w \in Work,
             \/ TimePasses(w) \/ LockExpires(w)
             \/ UpdateWorkNextTime(w) \/ RemoveWork(w)
      PROVE  PosterFree'
  BY <1>1, <1>3 DEF Same, TimePasses, LockExpires, UpdateWorkNextTime, RemoveWork
<1>4. ASSUME NEW s \in Scheduler, NEW w \in Work, NEW mode \in PostMode,
             PostNoDb(s, w, mode) \/ \E t \in BOOLEAN : PostWork(s, w, mode, t)
      PROVE  PosterFree'
  <2>1. UNCHANGED doing /\ doing[s]["poster"].pc = "idle"
    BY <1>4 DEF PostNoDb, PostWork, IsIdle
  <2>2. CASE UNCHANGED feed
    BY <1>1, <2>1, <2>2 DEF Same
  <2>3. ASSUME NEW r, Fits(r), Feed(s, "poster", r)
        PROVE  PosterFree'
    <3>1. \A t \in Scheduler : t # s => feed'[t] = feed[t]
      BY <1>0, <2>3, FeedMoves
    <3> QED
      BY <2>1, <3>1 DEF PosterFree
  <2> QED
    BY <1>4, <2>2, <2>3, PostFits
<1>5. ASSUME NEW s \in Scheduler, ProcessEnds(s)
      PROVE  PosterFree'
  <2>1. /\ feed'[s] = [g \in Feeder |-> Resting]
        /\ \A t \in Scheduler : t # s => feed'[t] = feed[t] /\ doing'[t] = doing[t]
    BY <1>5, ProcessEndsMemory, ProcessEndsLocks
  <2>2. feed'[s]["poster"].pc = "idle"
    BY <1>0, <2>1 DEF Resting
  <2> QED
    BY <2>1, <2>2 DEF PosterFree
<1>6. ASSUME NEW s \in Scheduler,
             \/ SendCancelled(s) \/ Shutdown(s) \/ Crash(s)
             \/ Run(s) \/ ShutdownReturns(s)
             \/ ReadWorks(s) \/ ReaderExits(s) \/ Handle(s) \/ Invoke(s)
      PROVE  PosterFree'
  <2>1. CASE SendCancelled(s)
    <3>1. UNCHANGED doing /\ Feed(s, "poster", Resting)
      BY <2>1 DEF SendCancelled, GiveUp
    <3>2. Resting.pc = "idle"
      BY DEF Resting
    <3> QED
      BY <1>0, <3>1, <3>2, FitsResting, PosterFeeds
  <2>2. CASE Shutdown(s) \/ Run(s)
    BY <1>1, <2>2 DEF Shutdown, Run, Same
  <2>3. CASE Crash(s) \/ ShutdownReturns(s)
    BY <1>5, <2>3 DEF Crash, ShutdownReturns
  <2>4. CASE ReadWorks(s)
    <3>1. UNCHANGED doing /\ ListDue(s, "reader")
      BY <2>4 DEF ReadWorks
    <3> QED
      BY <1>0, <3>1, ListFits, PosterFeeds
  <2>5. CASE ReaderExits(s)
    <3>1. UNCHANGED doing /\ Feed(s, "reader", [pc |-> "exited", works |-> <<>>])
      BY <2>5 DEF ReaderExits
    <3> QED
      BY <1>0, <3>1, FitsExited, PosterFeeds
  <2>6. CASE Handle(s)
    <3>1. /\ \A t \in Scheduler : t # s => doing'[t] = doing[t]
          /\ \A y \in Thread : y # "handler" => doing'[s][y] = doing[s][y]
      BY <1>0, <2>6, HandleDoing, StaysOutMoves
    <3> QED
      BY <1>0, <2>6, <3>1, HandleFits, PosterFeeds
  <2>7. CASE Invoke(s)
    <3>1. /\ \A t \in Scheduler : t # s => doing'[t] = doing[t]
          /\ \A y \in Thread : y # "poster" => doing'[s][y] = doing[s][y]
      BY <1>0, <2>7, PostedDoing, StaysOutMoves
    <3> QED
      BY <1>0, <2>7, <3>1, InvokeStepFits, PosterFeeds
  <2> QED
    BY <1>6, <2>1, <2>2, <2>3, <2>4, <2>5, <2>6, <2>7
<1>7. ASSUME NEW s \in Scheduler, NEW g \in Feeder,
             \/ HoldFails(s, g) \/ SendPanics(s, g)
             \/ HoldWorks(s, g) \/ Enqueue(s, g) \/ Send(s, g) \/ SendStopped(s, g)
      PROVE  PosterFree'
  <2>0. Resting.pc = "idle"
    BY DEF Resting
  <2>1. CASE HoldFails(s, g)
    <3>1. UNCHANGED doing /\ Feed(s, g, Resting)
      BY <2>1 DEF HoldFails
    <3> QED
      BY <2>0, <3>1, FitsResting, PosterFeeds
  <2>2. CASE SendPanics(s, g)
    BY <1>5, <2>2 DEF SendPanics
  <2>3. CASE HoldWorks(s, g)
    <3>1. UNCHANGED doing
      BY <2>3 DEF HoldWorks
    <3> QED
      BY <2>3, <3>1, HoldFits, PosterFeeds
  <2>4. CASE Enqueue(s, g)
    <3>1. /\ UNCHANGED doing /\ feed[s][g].pc = "enqueue"
          /\ Feed(s, g, [feed[s][g] EXCEPT !.pc = "send"])
      BY <2>4 DEF Enqueue
    <3>2. /\ Fits([feed[s][g] EXCEPT !.pc = "send"])
          /\ [feed[s][g] EXCEPT !.pc = "send"].pc \notin {"DIRECT", "QUEUED"}
      BY <3>1, EnqueueFits
    <3> QED
      BY <3>1, <3>2, PosterFeeds
  <2>5. CASE Send(s, g) \/ SendStopped(s, g)
    <3>1. /\ UNCHANGED doing /\ feed[s][g].pc = "send"
          /\ Feed(s, g, Enqueuing(Tail(feed[s][g].works))) \/ Feed(s, g, Resting)
      BY <2>5 DEF Send, SendStopped, GiveUp
    <3>2. /\ Fits(Enqueuing(Tail(feed[s][g].works)))
          /\ Enqueuing(Tail(feed[s][g].works)).pc \notin {"DIRECT", "QUEUED"}
      BY <3>1, SendingIs
    <3> QED
      BY <2>0, <3>1, <3>2, FitsResting, PosterFeeds
  <2> QED
    BY <1>7, <2>1, <2>2, <2>3, <2>4, <2>5
<1>8. ASSUME NEW s \in Scheduler, NEW x \in Thread,
             \/ AccessFails(s, x) \/ (x \in Job /\ (TakeWork(s, x) \/ WorkerExits(s, x)))
             \/ AcquireLock(s, x) \/ ProbeRow(s, x) \/ ResetNextTimeSet(s, x)
             \/ UpdateProcessedWork(s, x) \/ ReleaseWork(s, x)
             \/ \E done \in BOOLEAN : RunReturns(s, x, done)
      PROVE  PosterFree'
  <2>1. \E d : Moves(s, x, d)
    BY <1>0, <1>8, ThreadKinds DEF StaysOut, StaysIn, GoesIn, GoesOut
  <2>2. x \in Job \/ doing[s][x].pc # "idle"
    <3>1. AccessFails(s, x) \/ AcquireLock(s, x) \/ ProbeRow(s, x) => doing[s][x].pc # "idle"
      BY DEF AccessFails, AcquireLock, ProbeRow
    <3>2. ResetNextTimeSet(s, x) \/ UpdateProcessedWork(s, x) => doing[s][x].pc # "idle"
      BY DEF ResetNextTimeSet, UpdateProcessedWork
    <3>3. ReleaseWork(s, x) \/ (\E done \in BOOLEAN : RunReturns(s, x, done)) => doing[s][x].pc # "idle"
      BY DEF ReleaseWork, RunReturns
    <3> QED
      BY <1>8, <3>1, <3>2, <3>3
  <2>3. UNCHANGED feed
    <3>1. AccessFails(s, x) \/ AcquireLock(s, x) \/ ProbeRow(s, x) => UNCHANGED feed
      BY DEF AccessFails, AcquireLock, ProbeRow
    <3>2. ResetNextTimeSet(s, x) \/ UpdateProcessedWork(s, x) => UNCHANGED feed
      BY DEF ResetNextTimeSet, UpdateProcessedWork
    <3>3. ReleaseWork(s, x) \/ (\E done \in BOOLEAN : RunReturns(s, x, done)) => UNCHANGED feed
      BY DEF ReleaseWork, RunReturns
    <3>4. TakeWork(s, x) \/ WorkerExits(s, x) => UNCHANGED feed
      BY DEF TakeWork, WorkerExits
    <3> QED
      BY <1>8, <3>1, <3>2, <3>3, <3>4
  <2> QED
    BY <1>0, <2>1, <2>2, <2>3, PosterMoves
<1> QED
  BY <1>2, <1>3, <1>4, <1>6, <1>7, <1>8, NextCases

-----------------------------------------------------------------------------
(* The counters.                                                           *)
Holders(s) == {x \in Thread : Holds(s, x)}
Sending(s) == {g \in Feeder : feed[s][g].pc = "send"}

RunningOK ==
    /\ runningWorkCount \in [Scheduler -> Int]
    /\ \A s \in Scheduler : runningWorkCount[s] = Cardinality(Holders(s))

QueuedOK ==
    /\ workQueueSize \in [Scheduler -> Int] /\ abandoned \in [Scheduler -> Nat]
    /\ \A s \in Scheduler :
          workQueueSize[s] = Len(queue[s]) + Cardinality(Sending(s)) + abandoned[s]

LEMMA CountersAre == CountersOK <=> RunningOK /\ QueuedOK
BY DEF CountersOK, CountersExact, RunningOK, QueuedOK, Holders, Sending

LEMMA FiniteSets ==
    /\ IsFiniteSet(Thread) /\ IsFiniteSet(Feeder)
    /\ \A s : IsFiniteSet(Holders(s)) /\ Cardinality(Holders(s)) \in Nat
    /\ \A s : IsFiniteSet(Sending(s)) /\ Cardinality(Sending(s)) \in Nat
<1>1. IsFiniteSet(Thread)
  <2>1. IsFiniteSet(Job \cup {"handler"})
    BY WorkScheduleAssumption, FS_AddElement
  <2>2. IsFiniteSet((Job \cup {"handler"}) \cup {"poster"})
    BY <2>1, FS_AddElement
  <2>3. Thread = (Job \cup {"handler"}) \cup {"poster"}
    BY DEF Thread
  <2> QED
    BY <2>2, <2>3
<1>2. IsFiniteSet(Feeder)
  <2>1. IsFiniteSet({} \cup {"reader"})
    BY FS_EmptySet, FS_AddElement
  <2>2. IsFiniteSet(({} \cup {"reader"}) \cup {"handler"})
    BY <2>1, FS_AddElement
  <2>3. IsFiniteSet((({} \cup {"reader"}) \cup {"handler"}) \cup {"poster"})
    BY <2>2, FS_AddElement
  <2>4. Feeder = (({} \cup {"reader"}) \cup {"handler"}) \cup {"poster"}
    BY DEF Feeder
  <2> QED
    BY <2>3, <2>4
<1>3. ASSUME NEW s
      PROVE  Holders(s) \in SUBSET Thread /\ Sending(s) \in SUBSET Feeder
  BY DEF Holders, Sending
<1>4. \A s : IsFiniteSet(Holders(s)) /\ IsFiniteSet(Sending(s))
  BY <1>1, <1>2, <1>3, FS_Subset
<1> QED
  BY <1>1, <1>2, <1>4, FS_CardinalityType

LEMMA MovesIs ==
    ASSUME DoingOK, NEW s \in Scheduler, NEW x \in Thread, NEW d, Moves(s, x, d)
    PROVE  /\ doing'[s][x] = d
           /\ \A y \in Thread : y # x => doing'[s][y] = doing[s][y]
           /\ \A t \in Scheduler : t # s => doing'[t] = doing[t]
           /\ Holds(s, x)' <=> d.pc \in UnderLock
<1>1. d \in DoingRecord /\ doing' = [doing EXCEPT ![s][x] = d]
  BY DEF Moves
<1>2. /\ doing'[s][x] = d
      /\ \A y \in Thread : y # x => doing'[s][y] = doing[s][y]
      /\ \A t \in Scheduler : t # s => doing'[t] = doing[t]
  BY <1>1, DoingMoves
<1>3. Holds(s, x)' <=> d.pc \in UnderLock
  BY <1>2 DEF Holds, UnderLock
<1> QED
  BY <1>2, <1>3

(* Who is under the lock before and after each kind of move.               *)
LEMMA KindIs ==
    ASSUME DoingOK, NEW s \in Scheduler, NEW x \in Thread,
           StaysOut(s, x) \/ StaysIn(s, x) \/ GoesIn(s, x) \/ GoesOut(s, x)
    PROVE  /\ StaysOut(s, x) => ~Holds(s, x) /\ ~Holds(s, x)'
           /\ StaysIn(s, x) => Holds(s, x) /\ Holds(s, x)'
           /\ GoesIn(s, x) => ~Holds(s, x) /\ Holds(s, x)'
           /\ GoesOut(s, x) => Holds(s, x) /\ ~Holds(s, x)'
           /\ \A y \in Thread : y # x => doing'[s][y] = doing[s][y]
           /\ \A t \in Scheduler : t # s => doing'[t] = doing[t]
<1>1. StaysOut(s, x) => ~Holds(s, x) /\ ~Holds(s, x)'
  BY MovesIs DEF StaysOut
<1>2. StaysIn(s, x) => Holds(s, x) /\ Holds(s, x)'
  BY MovesIs DEF StaysIn
<1>3. GoesIn(s, x) => ~Holds(s, x) /\ Holds(s, x)'
  <2>1. GoesIn(s, x) => ~Holds(s, x)
    BY DEF GoesIn, Holds
  <2>2. GoesIn(s, x) => Holds(s, x)'
    BY MovesIs DEF GoesIn
  <2> QED
    BY <2>1, <2>2
<1>4. GoesOut(s, x) => Holds(s, x) /\ ~Holds(s, x)'
  <2>1. NotWorking.pc \notin UnderLock
    BY DEF NotWorking, UnderLock
  <2> QED
    BY <2>1, MovesIs DEF GoesOut
<1>5. \E d : Moves(s, x, d)
  BY DEF StaysOut, StaysIn, GoesIn, GoesOut
<1>6. /\ \A y \in Thread : y # x => doing'[s][y] = doing[s][y]
      /\ \A t \in Scheduler : t # s => doing'[t] = doing[t]
  BY <1>5, MovesIs
<1> QED
  BY <1>1, <1>2, <1>3, <1>4, <1>6

(* The number of works that run changes with the locks.                    *)
LEMMA HoldersMove ==
    ASSUME DoingOK, RunningOK, NEW s \in Scheduler, NEW x \in Thread,
           \/ (StaysOut(s, x) \/ StaysIn(s, x)) /\ UNCHANGED runningWorkCount
           \/ GoesIn(s, x) /\ runningWorkCount' = [runningWorkCount EXCEPT ![s] = @ + 1]
           \/ GoesOut(s, x) /\ runningWorkCount' = [runningWorkCount EXCEPT ![s] = @ - 1]
    PROVE  RunningOK'
<1>1. /\ StaysOut(s, x) => ~Holds(s, x) /\ ~Holds(s, x)'
      /\ StaysIn(s, x) => Holds(s, x) /\ Holds(s, x)'
      /\ GoesIn(s, x) => ~Holds(s, x) /\ Holds(s, x)'
      /\ GoesOut(s, x) => Holds(s, x) /\ ~Holds(s, x)'
      /\ \A y \in Thread : y # x => doing'[s][y] = doing[s][y]
      /\ \A t \in Scheduler : t # s => doing'[t] = doing[t]
  BY KindIs
<1>4. \A y \in Thread : y # x => (Holds(s, y)' <=> Holds(s, y))
  BY <1>1 DEF Holds
<1>5. \A t \in Scheduler : t # s => Holders(t)' = Holders(t)
  BY <1>1 DEF Holders, Holds
<1>6. runningWorkCount \in [Scheduler -> Int] /\ runningWorkCount[s] = Cardinality(Holders(s))
  BY DEF RunningOK
<1>7. IsFiniteSet(Holders(s)) /\ Cardinality(Holders(s)) \in Nat
  BY FiniteSets
<1>8. /\ runningWorkCount' \in [Scheduler -> Int]
      /\ runningWorkCount'[s] = Cardinality(Holders(s)')
      /\ \A t \in Scheduler : t # s => runningWorkCount'[t] = runningWorkCount[t]
  <2>1. CASE (StaysOut(s, x) \/ StaysIn(s, x)) /\ UNCHANGED runningWorkCount
    <3>1. Holders(s)' = Holders(s)
      BY <1>1, <1>4, <2>1 DEF Holders
    <3> QED
      BY <1>6, <2>1, <3>1
  <2>2. CASE GoesIn(s, x) /\ runningWorkCount' = [runningWorkCount EXCEPT ![s] = @ + 1]
    <3>1. Holders(s)' = Holders(s) \cup {x} /\ x \notin Holders(s)
      BY <1>1, <1>4, <2>2 DEF Holders
    <3>2. Cardinality(Holders(s)') = Cardinality(Holders(s)) + 1
      BY <1>7, <3>1, FS_AddElement
    <3> QED
      BY <1>6, <2>2, <3>2
  <2>3. CASE GoesOut(s, x) /\ runningWorkCount' = [runningWorkCount EXCEPT ![s] = @ - 1]
    <3>1. Holders(s)' = Holders(s) \ {x} /\ x \in Holders(s)
      BY <1>1, <1>4, <2>3 DEF Holders
    <3>2. Cardinality(Holders(s)') = Cardinality(Holders(s)) - 1
      BY <1>7, <3>1, FS_RemoveElement
    <3> QED
      BY <1>6, <2>3, <3>2
  <2> QED
    BY <2>1, <2>2, <2>3
<1> QED
  BY <1>5, <1>8 DEF RunningOK

LEMMA RunningStep ==
    ASSUME DatabaseInv, MemoryOK, LockInv, PosterFree, RunningOK, [Next]_vars
    PROVE  RunningOK'
<1> DEFINE Same == UNCHANGED <<doing, runningWorkCount>>
<1>0. DoingOK
  BY DEF LockInv
<1>1. Same => RunningOK'
  BY DEF RunningOK, Holders, Holds
<1> HIDE DEF Same
<1>2. CASE UNCHANGED vars
  BY <1>1, <1>2 DEF Same, vars
<1>3. ASSUME NEW w \in Work,
             \/ TimePasses(w) \/ LockExpires(w)
             \/ UpdateWorkNextTime(w) \/ RemoveWork(w)
      PROVE  RunningOK'
  BY <1>1, <1>3 DEF Same, TimePasses, LockExpires, UpdateWorkNextTime, RemoveWork
<1>4. ASSUME NEW s \in Scheduler, NEW w \in Work, NEW mode \in PostMode,
             PostNoDb(s, w, mode) \/ \E t \in BOOLEAN : PostWork(s, w, mode, t)
      PROVE  RunningOK'
  BY <1>1, <1>4 DEF Same, PostNoDb, PostWork
<1>5. ASSUME NEW s \in Scheduler, ProcessEnds(s)
      PROVE  RunningOK'
  <2>1. /\ runningWorkCount' = [runningWorkCount EXCEPT ![s] = 0]
        /\ runningWorkCount \in [Scheduler -> Int]
    BY <1>5 DEF ProcessEnds, RunningOK
  <2>2. /\ \A x \in Thread : ~Holds(s, x)'
        /\ \A t \in Scheduler : t # s => doing'[t] = doing[t]
    BY <1>5, ProcessEndsLocks
  <2>3. Holders(s)' = {} /\ \A t \in Scheduler : t # s => Holders(t)' = Holders(t)
    BY <2>2 DEF Holders, Holds
  <2>4. Cardinality(Holders(s)') = 0
    BY <2>3, FS_EmptySet
  <2> QED
    BY <2>1, <2>3, <2>4 DEF RunningOK
<1>6. ASSUME NEW s \in Scheduler,
             \/ SendCancelled(s) \/ Shutdown(s) \/ Crash(s)
             \/ Run(s) \/ ShutdownReturns(s)
             \/ ReadWorks(s) \/ ReaderExits(s) \/ Handle(s) \/ Invoke(s)
      PROVE  RunningOK'
  <2>1. SendCancelled(s) \/ Shutdown(s) \/ Run(s) => Same
    BY DEF SendCancelled, GiveUp, Shutdown, Run, Same
  <2>2. Crash(s) \/ ShutdownReturns(s) => ProcessEnds(s)
    BY DEF Crash, ShutdownReturns
  <2>3. ReadWorks(s) \/ ReaderExits(s) => Same
    BY DEF ReadWorks, ReaderExits, Same
  <2>4. CASE Handle(s)
    <3>1. UNCHANGED runningWorkCount
      BY <2>4 DEF Handle
    <3> QED
      BY <1>0, <1>1, <2>4, <3>1, HandleDoing, HoldersMove DEF Same
  <2>5. CASE Invoke(s)
    <3>1. UNCHANGED runningWorkCount
      BY <2>5 DEF Invoke
    <3> QED
      BY <1>0, <1>1, <2>5, <3>1, PostedDoing, HoldersMove DEF Same
  <2> QED
    BY <1>1, <1>5, <1>6, <2>1, <2>2, <2>3, <2>4, <2>5
<1>7. ASSUME NEW s \in Scheduler, NEW g \in Feeder,
             \/ HoldFails(s, g) \/ SendPanics(s, g)
             \/ HoldWorks(s, g) \/ Enqueue(s, g) \/ Send(s, g) \/ SendStopped(s, g)
      PROVE  RunningOK'
  <2>1. HoldFails(s, g) \/ HoldWorks(s, g) => Same
    BY DEF HoldFails, HoldWorks, Same
  <2>2. Enqueue(s, g) \/ Send(s, g) \/ SendStopped(s, g) => Same
    BY DEF Enqueue, Send, SendStopped, GiveUp, Same
  <2>3. SendPanics(s, g) => ProcessEnds(s)
    BY DEF SendPanics
  <2> QED
    BY <1>1, <1>5, <1>7, <2>1, <2>2, <2>3
<1>8. ASSUME NEW s \in Scheduler, NEW x \in Thread,
             \/ AccessFails(s, x) \/ (x \in Job /\ (TakeWork(s, x) \/ WorkerExits(s, x)))
             \/ AcquireLock(s, x) \/ ProbeRow(s, x) \/ ResetNextTimeSet(s, x)
             \/ UpdateProcessedWork(s, x) \/ ReleaseWork(s, x)
             \/ \E done \in BOOLEAN : RunReturns(s, x, done)
      PROVE  RunningOK'
  BY <1>0, <1>8, ThreadKinds, HoldersMove
<1> QED
  BY <1>2, <1>3, <1>4, <1>6, <1>7, <1>8, NextCases

(* A feeder that neither begins nor ends a send leaves the number of sends *)
(* as it is; one that begins or ends a send changes it by one.             *)
LEMMA SendingMoves ==
    ASSUME MemoryOK, NEW s \in Scheduler, NEW g \in Feeder, NEW r, Fits(r), Feed(s, g, r)
    PROVE  /\ \A t \in Scheduler : t # s => Sending(t)' = Sending(t)
           /\ Cardinality(Sending(s)) \in Nat
           /\ Cardinality(Sending(s)') =
                 Cardinality(Sending(s)) + (IF r.pc = "send" THEN 1 ELSE 0)
                                         - (IF feed[s][g].pc = "send" THEN 1 ELSE 0)
<1>1. /\ feed'[s][g] = r
      /\ \A h \in Feeder : h # g => feed'[s][h] = feed[s][h]
      /\ \A t \in Scheduler : t # s => feed'[t] = feed[t]
  BY FeedMoves
<1>2. \A t \in Scheduler : t # s => Sending(t)' = Sending(t)
  BY <1>1 DEF Sending
<1>3. IsFiniteSet(Sending(s)) /\ Cardinality(Sending(s)) \in Nat
  BY FiniteSets
<1>4. CASE r.pc = "send" /\ feed[s][g].pc = "send"
  <2>1. Sending(s)' = Sending(s)
    BY <1>1, <1>4 DEF Sending
  <2> QED
    BY <1>2, <1>3, <1>4, <2>1
<1>5. CASE r.pc # "send" /\ feed[s][g].pc # "send"
  <2>1. Sending(s)' = Sending(s)
    BY <1>1, <1>5 DEF Sending
  <2> QED
    BY <1>2, <1>3, <1>5, <2>1
<1>6. CASE r.pc = "send" /\ feed[s][g].pc # "send"
  <2>1. Sending(s)' = Sending(s) \cup {g} /\ g \notin Sending(s)
    BY <1>1, <1>6 DEF Sending
  <2>2. Cardinality(Sending(s)') = Cardinality(Sending(s)) + 1
    BY <1>3, <2>1, FS_AddElement
  <2> QED
    BY <1>2, <1>3, <1>6, <2>2
<1>7. CASE r.pc # "send" /\ feed[s][g].pc = "send"
  <2>1. Sending(s)' = Sending(s) \ {g} /\ g \in Sending(s)
    BY <1>1, <1>7 DEF Sending
  <2>2. Cardinality(Sending(s)') = Cardinality(Sending(s)) - 1
    BY <1>3, <2>1, FS_RemoveElement
  <2> QED
    BY <1>2, <1>3, <1>7, <2>2
<1> QED
  BY <1>4, <1>5, <1>6, <1>7

LEMMA QueuedFeeds ==
    ASSUME MemoryOK, QueuedOK, NEW s \in Scheduler, NEW g \in Feeder, NEW r, Fits(r), Feed(s, g, r),
           r.pc # "send", feed[s][g].pc # "send",
           UNCHANGED <<workQueueSize, queue, abandoned>>
    PROVE  QueuedOK'
<1>1. \A t \in Scheduler : t # s => Sending(t)' = Sending(t)
  BY SendingMoves
<1>2. Cardinality(Sending(s)') = Cardinality(Sending(s))
  <2>1. /\ Cardinality(Sending(s)) \in Nat
        /\ Cardinality(Sending(s)') = Cardinality(Sending(s)) + 0 - 0
    BY SendingMoves
  <2> QED
    BY <2>1
<1> QED
  BY <1>1, <1>2 DEF QueuedOK

LEMMA QueuedStep ==
    ASSUME DatabaseInv, MemoryOK, CountersOK, QueuedOK, LockInv, PosterFree, [Next]_vars
    PROVE  QueuedOK'
<1> DEFINE Same == UNCHANGED <<workQueueSize, queue, abandoned>>
<1>0. /\ workQueueSize \in [Scheduler -> Int] /\ abandoned \in [Scheduler -> Nat]
      /\ \A t \in Scheduler :
            workQueueSize[t] = Len(queue[t]) + Cardinality(Sending(t)) + abandoned[t]
      /\ queue \in [Scheduler -> Seq(Item)]
      /\ \A t \in Scheduler : Len(queue[t]) \in Nat /\ Cardinality(Sending(t)) \in Nat
  BY FiniteSets DEF QueuedOK, MemoryOK
<1>1. Same /\ UNCHANGED feed => QueuedOK'
  BY DEF QueuedOK, Sending
<1> HIDE DEF Same
<1>2. CASE UNCHANGED vars
  BY <1>1, <1>2 DEF Same, vars, history
<1>3. ASSUME NEW w \in Work,
             \/ TimePasses(w) \/ LockExpires(w)
             \/ UpdateWorkNextTime(w) \/ RemoveWork(w)
      PROVE  QueuedOK'
  BY <1>1, <1>3 DEF Same, TimePasses, LockExpires, UpdateWorkNextTime, RemoveWork
<1>4. ASSUME NEW s \in Scheduler, NEW w \in Work, NEW mode \in PostMode,
             PostNoDb(s, w, mode) \/ \E t \in BOOLEAN : PostWork(s, w, mode, t)
      PROVE  QueuedOK'
  <2>1. Same /\ feed[s]["poster"].pc = "idle" /\ "poster" \in Feeder
    BY <1>4 DEF Same, PostNoDb, PostWork, IsIdle, Feeder, history
  <2> QED
    BY <1>1, <1>4, <2>1, PostFits, QueuedFeeds DEF Same
<1>5. ASSUME NEW s \in Scheduler, ProcessEnds(s)
      PROVE  QueuedOK'
  <2>1. /\ workQueueSize' = [workQueueSize EXCEPT ![s] = 0]
        /\ abandoned' = [abandoned EXCEPT ![s] = 0]
    BY <1>5 DEF ProcessEnds
  <2>2. /\ feed'[s] = [g \in Feeder |-> Resting] /\ queue'[s] = <<>>
        /\ \A t \in Scheduler : t # s => feed'[t] = feed[t] /\ queue'[t] = queue[t]
    BY <1>5, ProcessEndsMemory
  <2>3. \A t \in Scheduler : t # s => Sending(t)' = Sending(t)
    BY <2>2 DEF Sending
  <2>4. \A g \in Feeder : feed'[s][g].pc # "send"
    BY <2>2 DEF Resting
  <2>5. Sending(s)' = {}
    BY <2>4 DEF Sending
  <2>6. Cardinality(Sending(s)') = 0 /\ Len(queue'[s]) = 0
    BY <2>2, <2>5, FS_EmptySet, EmptySeq
  <2> QED
    BY <1>0, <2>1, <2>2, <2>3, <2>6 DEF QueuedOK
<1>6. ASSUME NEW s \in Scheduler, NEW g \in Feeder, GiveUp(s, g)
      PROVE  QueuedOK'
  <2>1. /\ feed[s][g].pc = "send" /\ UNCHANGED <<workQueueSize, queue>>
        /\ Feed(s, g, Enqueuing(Tail(feed[s][g].works))) \/ Feed(s, g, Resting)
        /\ abandoned' = [abandoned EXCEPT ![s] = @ + 1]
    BY <1>6 DEF GiveUp
  <2>2. \E r : Fits(r) /\ Feed(s, g, r) /\ r.pc # "send"
    <3>1. Resting.pc = "idle"
      BY DEF Resting
    <3>2. /\ Fits(Enqueuing(Tail(feed[s][g].works)))
          /\ Enqueuing(Tail(feed[s][g].works)).pc # "send"
      BY <2>1, SendingIs
    <3> QED
      BY <2>1, <3>1, <3>2, FitsResting
  <2>3. \A t \in Scheduler : t # s => Sending(t)' = Sending(t)
    BY <2>2, SendingMoves
  <2>4. Cardinality(Sending(s)') = Cardinality(Sending(s)) + 0 - 1
    BY <2>1, <2>2, SendingMoves
  <2>5. /\ abandoned' \in [Scheduler -> Nat] /\ abandoned'[s] = abandoned[s] + 1
        /\ \A t \in Scheduler : t # s => abandoned'[t] = abandoned[t]
    BY <1>0, <2>1
  <2> QED
    BY <1>0, <2>1, <2>3, <2>4, <2>5 DEF QueuedOK
<1>7. ASSUME NEW s \in Scheduler,
             \/ SendCancelled(s) \/ Shutdown(s) \/ Crash(s)
             \/ Run(s) \/ ShutdownReturns(s)
             \/ ReadWorks(s) \/ ReaderExits(s) \/ Handle(s) \/ Invoke(s)
      PROVE  QueuedOK'
  <2>0. "reader" \in Feeder /\ "handler" \in Feeder /\ "poster" \in Feeder
    BY DEF Feeder
  <2>1. CASE SendCancelled(s)
    BY <1>6, <2>0, <2>1 DEF SendCancelled
  <2>2. CASE Shutdown(s) \/ Run(s)
    BY <1>1, <2>2 DEF Shutdown, Run, Same, history
  <2>3. CASE Crash(s) \/ ShutdownReturns(s)
    BY <1>5, <2>3 DEF Crash, ShutdownReturns
  <2>4. CASE ReadWorks(s)
    <3>1. Same /\ feed[s]["reader"].pc = "idle" /\ ListDue(s, "reader")
      BY <2>4 DEF ReadWorks, IsIdle, Same, history
    <3> QED
      BY <2>0, <3>1, ListFits, QueuedFeeds DEF Same
  <2>5. CASE ReaderExits(s)
    <3>1. /\ Same /\ feed[s]["reader"].pc = "idle"
          /\ Feed(s, "reader", [pc |-> "exited", works |-> <<>>])
      BY <2>5 DEF ReaderExits, Same, history
    <3> QED
      BY <2>0, <3>1, FitsExited, QueuedFeeds DEF Same
  <2>6. CASE Handle(s)
    <3>1. Same /\ feed[s]["handler"].pc = "idle"
      BY <2>6 DEF Handle, IsIdle, Same, history
    <3> QED
      BY <2>0, <2>6, <3>1, HandleFits, QueuedFeeds DEF Same
  <2>7. CASE Invoke(s)
    <3>1. Same /\ feed[s]["poster"].pc \in {"DIRECT", "QUEUED"}
      BY <2>7 DEF Invoke, Same, history
    <3> QED
      BY <2>0, <2>7, <3>1, InvokeStepFits, QueuedFeeds DEF Same
  <2> QED
    BY <1>7, <2>1, <2>2, <2>3, <2>4, <2>5, <2>6, <2>7
<1>8. ASSUME NEW s \in Scheduler, NEW g \in Feeder,
             \/ HoldFails(s, g) \/ SendPanics(s, g)
             \/ HoldWorks(s, g) \/ Enqueue(s, g) \/ Send(s, g) \/ SendStopped(s, g)
      PROVE  QueuedOK'
  <2>1. CASE HoldFails(s, g)
    <3>1. Same /\ feed[s][g].pc = "listed" /\ Feed(s, g, Resting)
      BY <2>1 DEF HoldFails, Same, history
    <3>2. Resting.pc = "idle"
      BY DEF Resting
    <3> QED
      BY <3>1, <3>2, FitsResting, QueuedFeeds DEF Same
  <2>2. CASE SendPanics(s, g)
    BY <1>5, <2>2 DEF SendPanics
  <2>3. CASE HoldWorks(s, g)
    <3>1. Same /\ feed[s][g].pc = "listed"
      BY <2>3 DEF HoldWorks, Same
    <3> QED
      BY <2>3, <3>1, HoldFits, QueuedFeeds DEF Same
  <2>4. CASE Enqueue(s, g)
    <3> DEFINE r == [feed[s][g] EXCEPT !.pc = "send"]
    <3>1. /\ feed[s][g].pc = "enqueue" /\ Feed(s, g, r) /\ UNCHANGED <<queue, abandoned>>
          /\ workQueueSize' = [workQueueSize EXCEPT ![s] = @ + 1]
      BY <2>4 DEF Enqueue, history
    <3>2. Fits(r) /\ r.pc = "send"
      BY <3>1, EnqueueFits
    <3> HIDE DEF r
    <3>3. \A t \in Scheduler : t # s => Sending(t)' = Sending(t)
      BY <3>1, <3>2, SendingMoves
    <3>4. Cardinality(Sending(s)') = Cardinality(Sending(s)) + 1 - 0
      BY <3>1, <3>2, SendingMoves
    <3> QED
      BY <1>0, <3>1, <3>3, <3>4 DEF QueuedOK
  <2>5. CASE Send(s, g)
    <3> DEFINE r == Enqueuing(Tail(feed[s][g].works))
    <3>1. feed[s][g].pc = "send" /\ Feed(s, g, r) /\ UNCHANGED <<workQueueSize, abandoned>>
      BY <2>5 DEF Send, history
    <3>2. Fits(r) /\ r.pc # "send"
      BY <3>1, SendingIs
    <3> HIDE DEF r
    <3>3. \A t \in Scheduler : t # s => Sending(t)' = Sending(t)
      BY <3>1, <3>2, SendingMoves
    <3>4. Cardinality(Sending(s)') = Cardinality(Sending(s)) + 0 - 1
      BY <3>1, <3>2, SendingMoves
    <3>5. /\ Len(queue'[s]) = Len(queue[s]) + 1
          /\ \A t \in Scheduler : t # s => queue'[t] = queue[t]
      BY <2>5, SendQueue
    <3>6. workQueueSize'[s] = Len(queue'[s]) + Cardinality(Sending(s)') + abandoned'[s]
      <4>1. workQueueSize'[s] = workQueueSize[s] /\ abandoned'[s] = abandoned[s]
        BY <3>1
      <4>2. /\ workQueueSize[s] = Len(queue[s]) + Cardinality(Sending(s)) + abandoned[s]
            /\ Len(queue[s]) \in Nat /\ Cardinality(Sending(s)) \in Nat /\ abandoned[s] \in Nat
        BY <1>0
      <4>3. Len(queue'[s]) = Len(queue[s]) + 1
        BY <3>5
      <4> QED
        BY <3>4, <4>1, <4>2, <4>3
    <3>7. ASSUME NEW t \in Scheduler, t # s
          PROVE  workQueueSize'[t] = Len(queue'[t]) + Cardinality(Sending(t)') + abandoned'[t]
      BY <1>0, <3>1, <3>3, <3>5, <3>7
    <3> QED
      BY <1>0, <3>1, <3>6, <3>7 DEF QueuedOK
  <2>6. CASE SendStopped(s, g)
    BY <1>6, <2>6 DEF SendStopped
  <2> QED
    BY <1>8, <2>1, <2>2, <2>3, <2>4, <2>5, <2>6
<1>9. ASSUME NEW s \in Scheduler, NEW x \in Thread,
             \/ AccessFails(s, x) \/ (x \in Job /\ (TakeWork(s, x) \/ WorkerExits(s, x)))
             \/ AcquireLock(s, x) \/ ProbeRow(s, x) \/ ResetNextTimeSet(s, x)
             \/ UpdateProcessedWork(s, x) \/ ReleaseWork(s, x)
             \/ \E done \in BOOLEAN : RunReturns(s, x, done)
      PROVE  QueuedOK'
  <2>1. AccessFails(s, x) \/ AcquireLock(s, x) \/ ReleaseWork(s, x) => Same /\ UNCHANGED feed
    BY DEF AccessFails, AcquireLock, ReleaseWork, Same
  <2>2. ProbeRow(s, x) \/ WorkerExits(s, x) => Same /\ UNCHANGED feed
    BY DEF ProbeRow, WorkerExits, Same, history
  <2>3. ResetNextTimeSet(s, x) \/ UpdateProcessedWork(s, x) => Same /\ UNCHANGED feed
    BY DEF ResetNextTimeSet, UpdateProcessedWork, Same
  <2>4. (\E done \in BOOLEAN : RunReturns(s, x, done)) => Same /\ UNCHANGED feed
    BY DEF RunReturns, Same, history
  <2>5. CASE TakeWork(s, x)
    <3>1. UNCHANGED <<feed, abandoned>> /\ workQueueSize' = [workQueueSize EXCEPT ![s] = @ - 1]
      BY <2>5 DEF TakeWork, history
    <3>2. /\ Len(queue'[s]) = Len(queue[s]) - 1
          /\ \A t \in Scheduler : t # s => queue'[t] = queue[t]
      BY <2>5, TakeQueue
    <3>3. \A t \in Scheduler : Sending(t)' = Sending(t)
      BY <3>1 DEF Sending
    <3>4. workQueueSize'[s] = Len(queue'[s]) + Cardinality(Sending(s)') + abandoned'[s]
      BY <1>0, <3>1, <3>2, <3>3
    <3>5. ASSUME NEW t \in Scheduler, t # s
          PROVE  workQueueSize'[t] = Len(queue'[t]) + Cardinality(Sending(t)') + abandoned'[t]
      BY <1>0, <3>1, <3>2, <3>3, <3>5
    <3> QED
      BY <1>0, <3>1, <3>4, <3>5 DEF QueuedOK
  <2> QED
    BY <1>1, <1>9, <2>1, <2>2, <2>3, <2>4, <2>5
<1> QED
  BY <1>2, <1>3, <1>4, <1>7, <1>8, <1>9, NextCases

-----------------------------------------------------------------------------
LEMMA InitIInv ==
    ASSUME Init
    PROVE  IInv
<1>0. <<>> \in Seq(Item) /\ <<>> \in Seq(Message) /\ <<>> \in Seq(DOMAIN rows)
  BY EmptySeq
<1>1. /\ due = <<>> /\ lock = [w \in Work |-> Free] /\ status = [s \in Scheduler |-> "down"]
      /\ queue = [s \in Scheduler |-> <<>>] /\ messages = [s \in Scheduler |-> <<>>]
      /\ workQueueSize = [s \in Scheduler |-> 0] /\ runningWorkCount = [s \in Scheduler |-> 0]
      /\ feed = [s \in Scheduler |-> [g \in Feeder |-> Resting]]
      /\ doing = [s \in Scheduler |-> [x \in Thread |-> NotWorking]]
      /\ posts = 0 /\ overrun = {} /\ asked = {} /\ finished = {}
      /\ claims = [w \in Work |-> 0] /\ abandoned = [s \in Scheduler |-> 0]
  BY DEF Init
<1>2. PICK saved \in SUBSET Work :
         rows = [w \in saved |-> [id |-> OldId, next |-> "posted", set |-> FALSE]]
  BY DEF Init
<1>3. DatabaseInv
  <2>1. [id |-> OldId, next |-> "posted", set |-> FALSE] \in Row
    BY OldIdIs DEF Row
  <2>2. DOMAIN rows = saved /\ \A w \in saved : rows[w] \in Row /\ rows[w].id = OldId
    BY <1>2, <2>1
  <2>3. rows \in [DOMAIN rows -> Row]
    BY <1>2, <2>1
  <2>4. DatabaseOK
    BY <1>0, <1>1, <2>2, <2>3, OldIdIs DEF DatabaseOK
  <2>5. ToSet(due) = {}
    BY <1>1 DEF ToSet
  <2>6. ClaimedOnce
    BY <1>1, <2>5 DEF ClaimedOnce
  <2>7. AskedAreSet /\ FinishedAreGone
    BY <1>1 DEF AskedAreSet, FinishedAreGone
  <2> QED
    BY <2>4, <2>6, <2>7 DEF DatabaseInv
<1>4. Fits(Resting) /\ Resting \in FeedRecord /\ Resting.pc = "idle"
  BY FitsResting DEF Fits, Resting
<1>5. MemoryOK
  BY <1>0, <1>1, <1>4 DEF MemoryOK, Fits
<1>6. NotWorking \in DoingRecord /\ NotWorking.pc = "idle"
  BY DoingMade
<1>7. DoingOK /\ LocksOK
  BY <1>1, <1>6 DEF DoingOK, LocksOK
<1>8. \A s \in Scheduler, x \in Thread : ~Holds(s, x) /\ doing[s][x].pc = "idle"
  BY <1>1, <1>6 DEF Holds
<1>9. LockHeld /\ TwoOverrun
  BY <1>8 DEF LockHeld, TwoOverrun
<1>10. NotAgain
  BY <1>8 DEF NotAgain
<1>11. PosterFree
  BY <1>8 DEF PosterFree, Thread
<1>12. \A s \in Scheduler : Holders(s) = {} /\ Sending(s) = {} /\ queue[s] = <<>>
  <2>1. \A s \in Scheduler, g \in Feeder : feed[s][g].pc = "idle"
    BY <1>1, <1>4
  <2> QED
    BY <1>1, <1>8, <2>1 DEF Holders, Sending
<1>13. \A s \in Scheduler :
          Cardinality(Holders(s)) = 0 /\ Cardinality(Sending(s)) = 0 /\ Len(queue[s]) = 0
  BY <1>12, FS_EmptySet, EmptySeq
<1>14. RunningOK /\ QueuedOK
  BY <1>1, <1>13 DEF RunningOK, QueuedOK
<1> QED
  BY <1>3, <1>5, <1>7, <1>9, <1>10, <1>11, <1>14, CountersAre DEF IInv, DatabaseInv

LEMMA StepIInv ==
    ASSUME IInv, [Next]_vars
    PROVE  IInv'
<1>1. DatabaseInv /\ MemoryOK /\ LockInv /\ PosterFree /\ CountersOK
  BY DEF IInv, DatabaseInv, LockInv
<1>2. RunningOK /\ QueuedOK /\ DoingOK
  BY <1>1, CountersAre DEF LockInv
<1>3. DatabaseInv' /\ MemoryOK' /\ LockInv'
  BY <1>1, <1>2, DatabaseStep, MemoryStep, LockStep
<1>4. PosterFree' /\ RunningOK' /\ QueuedOK'
  BY <1>1, <1>2, PosterStep, RunningStep, QueuedStep
<1>5. CountersOK'
  BY <1>4 DEF CountersOK, CountersExact, RunningOK, QueuedOK, Holders, Sending
<1> QED
  BY <1>3, <1>4, <1>5 DEF IInv, DatabaseInv, LockInv

(* The inductive invariant: the types, and what ties locks, rows, marks    *)
(* and counters to where every goroutine is (DoWork, work_schedule.go:588).*)
THEOREM ScheduleInvariant == Spec => []IInv
<1>1. Init => IInv
  BY InitIInv
<1>2. IInv /\ [Next]_vars => IInv'
  BY StepIInv
<1> QED
  BY <1>1, <1>2, PTL DEF Spec

(* For any number of processes, goroutines and works, and however often    *)
(* processes end and accesses fail: a row is handed out at most once while *)
(* it is due (ClaimDueWorks), and two goroutines run one work at the same  *)
(* time only if a lock ran out under one of them (AcquireWork).            *)
THEOREM WorkHasOneRunner == Spec => []OneRunner
<1>1. IInv => OneRunner
  <2> SUFFICES ASSUME IInv, NEW w \in Work
               PROVE  /\ claims[w] <= 1
                      /\ \A a, b \in Owner :
                            a # b /\ Runs(a[1], a[2], w) /\ Runs(b[1], b[2], w)
                               => overrun \cap {a, b} # {}
    BY DEF OneRunner
  <2>1. claims[w] <= 1
    BY DEF IInv, ClaimedOnce
  <2>2. ASSUME NEW a \in Owner, NEW b \in Owner, a # b,
               Runs(a[1], a[2], w), Runs(b[1], b[2], w)
        PROVE  overrun \cap {a, b} # {}
    <3>1. /\ a = <<a[1], a[2]>> /\ a[1] \in Scheduler /\ a[2] \in Thread
          /\ b = <<b[1], b[2]>> /\ b[1] \in Scheduler /\ b[2] \in Thread
      BY DEF Owner
    <3>2. /\ Holds(a[1], a[2]) /\ WorkOf(a[1], a[2]) = w
          /\ Holds(b[1], b[2]) /\ WorkOf(b[1], b[2]) = w
      BY <2>2 DEF Runs, Holds, WorkOf
    <3>3. a \in overrun
      BY <2>2, <3>1, <3>2 DEF IInv, TwoOverrun
    <3> QED
      BY <3>3
  <2> QED
    BY <2>1, <2>2
<1> QED
  BY <1>1, ScheduleInvariant, PTL

(* A work that was run to its end is not run again from another copy in    *)
(* some queue, unless the lock of the goroutine ran out: AcquireWork looks *)
(* for the row under the lock, and an id is never given twice.             *)
THEOREM DoneWorkIsNotRun == Spec => []NotRunAgain
<1>1. IInv => NotRunAgain
  BY DEF IInv, NotAgain, NotRunAgain
<1> QED
  BY <1>1, ScheduleInvariant, PTL

(* The counters from which ClaimDueWorks computes how many rows to take    *)
(* are exact, but for the sends that were given up (enqueuWork).           *)
THEOREM CountersAreExact == Spec => []CountersExact
<1>1. IInv => CountersExact
  BY DEF IInv, CountersOK
<1> QED
  BY <1>1, ScheduleInvariant, PTL

(* UpdateProcessedWork never overwrites a next time that was asked for     *)
(* while the work ran.                                                     *)
THEOREM RescheduleIsKept == Spec => []RescheduleKept
<1>1. IInv => RescheduleKept
  BY DEF IInv, AskedAreSet, RescheduleKept
<1> QED
  BY <1>1, ScheduleInvariant, PTL
=============================================================================
