-------------------------- MODULE ImageAssetsProofs --------------------------
(***************************************************************************)
(* For any numbers of assets and jobs: the job a scene waits for survives  *)
(* trims, drops and resets on its way through queue and worker, is decoded *)
(* first, and nothing that predates a drop is cached.  Each of these needs *)
(* to know where every pending job is.                                     *)
(***************************************************************************)
EXTENDS ImageAssets, TLAPS

JobTypes == job \in [Job -> JobRecord]

MainTypes ==
    /\ pending \in [Key -> Job \cup {NoJob}]
    /\ main \in {"idle", "erase", "push", "window", "trim", "endThreads", "clear",
                 "clearQueue", "over"} \cup Waiting
    /\ want \in Job \cup {NoJob}
    /\ wanted \in Key \cup {NoKey}
    /\ fresh \in Job \cup {NoJob}
    /\ back \in {"idle"} \cup Waiting

Caches ==
    /\ images \in [Key -> {"absent", "current"}]
    /\ rejected \subseteq Key

WorkTypes ==
    /\ q \in Seq(Job)
    /\ cur \in Job \cup {NoJob}
    /\ worker \in {"none", "start", "allow", "build", "publish", "dead"}
    /\ quit \in BOOLEAN

\* Where setupAnimationInfo has a job it waits for.
Wanting ==
    \/ main \in {"erase", "push", "window", "wait"}
    \/ main = "trim" /\ back = "wait"

\* Where the worker has started a job.
Busy == {"allow", "build", "publish"}

\* Jobs are pending under their key only, up to date, and claimed by nobody
\* but whoever waits; only speculation gives up by itself.
PendingJobs ==
    \A k \in Key : pending[k] # NoJob =>
        /\ job[pending[k]].key = k
        /\ ~job[pending[k]].outdated
        /\ job[pending[k]].cancelled => job[pending[k]].speculative
        /\ job[pending[k]].claimed => pending[k] = want /\ k = wanted

WantedJob ==
    /\ want # NoJob <=> Wanting
    /\ want # NoJob => wanted \in Key /\ pending[wanted] = want /\ job[want].claimed

\* A job about to be queued is in no one's hands yet.
FreshJob ==
    /\ fresh # NoJob <=> main \in {"erase", "push"}
    /\ fresh # NoJob => /\ fresh \notin ToSet(q) /\ fresh # cur
                        /\ ~job[fresh].speculative <=> fresh = want

WorkersJob ==
    /\ cur # NoJob <=> worker \in Busy \cup {"start"}
    /\ worker \in Busy => job[cur].state = "Running"
    /\ \A j \in Job : job[j].state = "Running" => cur = j /\ worker \in Busy

CancelledJobs == \A j \in Job : job[j].cancelled => job[j].state # "Queued"

Queue == IsInjective(q) /\ cur \notin ToSet(q)

\* A pending job that is still to be done is on its way, except that a reset
\* empties the queue first and forgets what is pending next.
Reached ==
    /\ main = "clearQueue" => \A k \in Key : pending[k] = NoJob
    /\ main # "clear" =>
          \A k \in Key : pending[k] # NoJob /\ job[pending[k]].state = "Queued" =>
              pending[k] \in ToSet(q) \cup {cur, fresh}

First == want \in ToSet(q) => Head(q) = want

Inv ==
    /\ JobTypes /\ MainTypes /\ Caches /\ WorkTypes
    /\ PendingJobs /\ WantedJob /\ FreshJob /\ WorkersJob /\ CancelledJobs
    /\ Queue /\ Reached /\ First

LEMMA RemainingFacts ==
    ASSUME NEW S, NEW s \in Seq(S), NEW kept, NEW r \in Remaining(s, kept)
    PROVE  /\ r \in Seq(S)
           /\ ToSet(r) = {x \in ToSet(s) : x \in kept}
           /\ IsInjective(s) => IsInjective(r)
           /\ s # <<>> /\ Head(s) \in kept => r # <<>> /\ Head(r) = Head(s)
<1>1. PICK m \in 0..Len(s) : r \in {[k \in 1..m |-> s[f[k]]] :
               f \in {g \in Picks(m, Len(s)) :
                         {g[k] : k \in 1..m} = {i \in 1..Len(s) : s[i] \in kept}}}
  BY DEF Remaining
<1>2. PICK f \in Picks(m, Len(s)) :
         /\ {f[k] : k \in 1..m} = {i \in 1..Len(s) : s[i] \in kept}
         /\ r = [k \in 1..m |-> s[f[k]]]
  BY <1>1
<1>3. /\ m \in Nat /\ Len(s) \in Nat /\ DOMAIN s = 1..Len(s)
      /\ f \in [1..m -> 1..Len(s)]
      /\ \A a, b \in 1..m : a < b => f[a] < f[b]
  BY <1>2 DEF Picks
<1>4. r \in Seq(S) /\ Len(r) = m /\ DOMAIN r = 1..m
  BY <1>2, <1>3
<1>5. \A k \in 1..m : r[k] = s[f[k]]
  BY <1>2
<1>6. ToSet(r) = {x \in ToSet(s) : x \in kept}
  <2>1. ASSUME NEW k \in 1..m PROVE r[k] \in ToSet(s) /\ r[k] \in kept
    <3>1. f[k] \in {i \in 1..Len(s) : s[i] \in kept}
      BY <1>2
    <3> QED
      BY <1>3, <1>5, <3>1 DEF ToSet
  <2>2. ASSUME NEW i \in 1..Len(s), s[i] \in kept PROVE s[i] \in ToSet(r)
    <3>1. i \in {f[k] : k \in 1..m}
      BY <1>2, <2>2
    <3>2. PICK k \in 1..m : i = f[k]
      BY <3>1
    <3> QED
      BY <1>4, <1>5, <3>2 DEF ToSet
  <2> QED
    BY <1>3, <1>4, <2>1, <2>2 DEF ToSet
<1>7. ASSUME IsInjective(s),
             NEW a \in 1..m, NEW b \in 1..m, r[a] = r[b]
      PROVE  a = b
  <2>1. s[f[a]] = s[f[b]] /\ f[a] \in DOMAIN s /\ f[b] \in DOMAIN s
    BY <1>3, <1>5, <1>7
  <2>2. f[a] = f[b]
    BY <1>7, <2>1 DEF IsInjective
  <2> QED
    BY <1>3, <2>2
<1>8. ASSUME s # <<>>, Head(s) \in kept PROVE r # <<>> /\ Head(r) = Head(s)
  <2>1. Len(s) > 0 /\ Head(s) = s[1]
    BY <1>8
  <2>2. 1 \in {f[k] : k \in 1..m}
    BY <1>2, <1>3, <1>8, <2>1
  <2>3. PICK k \in 1..m : f[k] = 1
    BY <2>2
  <2>4. 1 \in 1..m /\ f[1] \in 1..Len(s)
    BY <1>3, <2>3
  <2>5. k = 1
    BY <1>3, <2>3, <2>4
  <2> QED
    BY <1>4, <1>5, <2>1, <2>3, <2>4, <2>5
<1> QED
  BY <1>4, <1>6, <1>7, <1>8 DEF IsInjective

LEMMA EmptyFacts == ToSet(<<>>) = {} /\ IsInjective(<<>>)
BY DEF ToSet, IsInjective

LEMMA AppendFacts ==
    ASSUME NEW S, NEW s \in Seq(S), NEW x \in S
    PROVE  /\ Append(s, x) \in Seq(S)
           /\ ToSet(Append(s, x)) = ToSet(s) \cup {x}
           /\ IsInjective(s) /\ x \notin ToSet(s) => IsInjective(Append(s, x))
           /\ s # <<>> => Head(Append(s, x)) = Head(s)
<1>1. /\ Append(s, x) \in Seq(S) /\ Len(Append(s, x)) = Len(s) + 1 /\ Len(s) \in Nat
      /\ DOMAIN s = 1..Len(s) /\ DOMAIN Append(s, x) = 1..(Len(s) + 1)
      /\ \A i \in 1..Len(s) : Append(s, x)[i] = s[i]
      /\ Append(s, x)[Len(s) + 1] = x
  OBVIOUS
<1>2. \A i \in 1..(Len(s) + 1) : i \in 1..Len(s) \/ i = Len(s) + 1
  BY <1>1
<1>3. ToSet(Append(s, x)) = ToSet(s) \cup {x}
  <2>1. \A i \in 1..Len(s) : i \in 1..(Len(s) + 1)
    BY <1>1
  <2>2. Len(s) + 1 \in 1..(Len(s) + 1)
    BY <1>1
  <2> QED
    BY <1>1, <1>2, <2>1, <2>2 DEF ToSet
<1>4. IsInjective(s) /\ x \notin ToSet(s) => IsInjective(Append(s, x))
  BY <1>1, <1>2 DEF ToSet, IsInjective
<1>5. s # <<>> => Head(Append(s, x)) = Head(s)
  OBVIOUS
<1> QED
  BY <1>1, <1>3, <1>4, <1>5

LEMMA PrependFacts ==
    ASSUME NEW S, NEW s \in Seq(S), NEW x \in S
    PROVE  /\ <<x>> \o s \in Seq(S) /\ <<x>> \o s # <<>>
           /\ ToSet(<<x>> \o s) = ToSet(s) \cup {x}
           /\ IsInjective(s) /\ x \notin ToSet(s) => IsInjective(<<x>> \o s)
           /\ Head(<<x>> \o s) = x
<1> DEFINE r == <<x>> \o s
<1>1. /\ r \in Seq(S) /\ Len(r) = Len(s) + 1 /\ Len(s) \in Nat
      /\ DOMAIN s = 1..Len(s) /\ DOMAIN r = 1..(Len(s) + 1)
      /\ r[1] = x
  OBVIOUS
<1>2. \A i \in 1..Len(s) : r[i + 1] = s[i]
  OBVIOUS
<1> HIDE DEF r
<1>3. \A i \in 1..(Len(s) + 1) : i = 1 \/ (i - 1 \in 1..Len(s) /\ r[i] = s[i - 1])
  <2> TAKE i \in 1..(Len(s) + 1)
  <2>1. i # 1 => i - 1 \in 1..Len(s) /\ (i - 1) + 1 = i
    BY <1>1
  <2> QED
    BY <1>2, <2>1
<1>4. ToSet(r) = ToSet(s) \cup {x}
  <2>1. \A i \in 1..Len(s) : i + 1 \in 1..(Len(s) + 1)
    BY <1>1
  <2>2. 1 \in 1..(Len(s) + 1)
    BY <1>1
  <2>3. \A i \in 1..(Len(s) + 1) : r[i] = x \/ r[i] \in ToSet(s)
    BY <1>1, <1>3 DEF ToSet
  <2>4. \A i \in 1..Len(s) : s[i] \in ToSet(r)
    BY <1>1, <1>2, <2>1 DEF ToSet
  <2>5. x \in ToSet(r)
    BY <1>1, <2>2 DEF ToSet
  <2> QED
    BY <1>1, <2>3, <2>4, <2>5 DEF ToSet
<1>5. ASSUME IsInjective(s), x \notin ToSet(s), NEW a \in DOMAIN r, NEW b \in DOMAIN r, r[a] = r[b]
      PROVE  a = b
  <2>1. \A i \in 1..Len(s) : s[i] # x
    BY <1>1, <1>5 DEF ToSet
  <2>2. a \in Int /\ b \in Int
    BY <1>1
  <2>3. CASE a = 1
    BY <1>1, <1>3, <1>5, <2>1, <2>3
  <2>4. CASE b = 1
    BY <1>1, <1>3, <1>5, <2>1, <2>4
  <2>5. CASE a # 1 /\ b # 1
    <3>1. /\ a - 1 \in 1..Len(s) /\ b - 1 \in 1..Len(s)
          /\ s[a - 1] = s[b - 1]
      BY <1>1, <1>3, <1>5, <2>5
    <3>2. a - 1 = b - 1
      BY <1>1, <1>5, <3>1 DEF IsInjective
    <3> QED
      BY <2>2, <3>2
  <2> QED
    BY <2>3, <2>4, <2>5
<1>6. r # <<>> /\ Head(r) = x
  BY <1>1
<1> QED
  BY <1>1, <1>4, <1>5, <1>6 DEF r, IsInjective

LEMMA TailFacts ==
    ASSUME NEW S, NEW s \in Seq(S), s # <<>>
    PROVE  /\ Head(s) \in S /\ Tail(s) \in Seq(S)
           /\ ToSet(s) = ToSet(Tail(s)) \cup {Head(s)}
           /\ IsInjective(s) => IsInjective(Tail(s)) /\ Head(s) \notin ToSet(Tail(s))
<1> DEFINE r == Tail(s)
<1>1. /\ r \in Seq(S) /\ Len(r) = Len(s) - 1 /\ Len(s) \in Nat \ {0}
      /\ DOMAIN s = 1..Len(s) /\ DOMAIN r = 1..(Len(s) - 1)
      /\ Head(s) = s[1] /\ s[1] \in S
  OBVIOUS
<1>2. \A i \in 1..(Len(s) - 1) : r[i] = s[i + 1]
  OBVIOUS
<1> HIDE DEF r
<1>3. \A i \in 1..(Len(s) - 1) : i + 1 \in 1..Len(s) /\ i + 1 # 1
  BY <1>1
<1>4. \A i \in 1..Len(s) : i = 1 \/ (i - 1 \in 1..(Len(s) - 1) /\ r[i - 1] = s[i])
  <2> TAKE i \in 1..Len(s)
  <2>1. i # 1 => i - 1 \in 1..(Len(s) - 1) /\ (i - 1) + 1 = i
    BY <1>1
  <2> QED
    BY <1>2, <2>1
<1>5. 1 \in 1..Len(s)
  BY <1>1
<1>6. ToSet(s) = ToSet(r) \cup {Head(s)}
  <2>1. \A i \in 1..(Len(s) - 1) : r[i] \in ToSet(s)
    BY <1>1, <1>2, <1>3 DEF ToSet
  <2>2. \A i \in 1..Len(s) : s[i] = Head(s) \/ s[i] \in ToSet(r)
    BY <1>1, <1>4 DEF ToSet
  <2>3. Head(s) \in ToSet(s)
    BY <1>1, <1>5 DEF ToSet
  <2> QED
    BY <1>1, <2>1, <2>2, <2>3 DEF ToSet
<1>7. ASSUME IsInjective(s) PROVE IsInjective(r) /\ Head(s) \notin ToSet(r)
  <2>1. \A a, b \in 1..Len(s) : s[a] = s[b] => a = b
    BY <1>1, <1>7 DEF IsInjective
  <2>2. ASSUME NEW a \in 1..(Len(s) - 1), NEW b \in 1..(Len(s) - 1), r[a] = r[b] PROVE a = b
    <3>1. s[a + 1] = s[b + 1] /\ a + 1 \in 1..Len(s) /\ b + 1 \in 1..Len(s)
      BY <1>2, <1>3, <2>2
    <3>2. a + 1 = b + 1
      BY <2>1, <3>1
    <3> QED
      BY <3>2
  <2>3. ASSUME NEW a \in 1..(Len(s) - 1), r[a] = Head(s) PROVE FALSE
    <3>1. s[a + 1] = s[1] /\ a + 1 \in 1..Len(s) /\ a + 1 # 1
      BY <1>1, <1>2, <1>3, <2>3
    <3> QED
      BY <1>5, <2>1, <3>1
  <2> QED
    BY <1>1, <2>2, <2>3 DEF IsInjective, ToSet
<1> QED
  BY <1>1, <1>6, <1>7 DEF r

LEMMA JobFields ==
    ASSUME JobTypes, NEW j \in Job
    PROVE  /\ job[j] \in JobRecord
           /\ job[j].key \in Key /\ job[j].state \in {"Queued", "Running", "Ready"}
           /\ job[j].cancelled \in BOOLEAN /\ job[j].speculative \in BOOLEAN
           /\ job[j].claimed \in BOOLEAN /\ job[j].surface \in BOOLEAN
           /\ job[j].outdated \in BOOLEAN
BY DEF JobTypes, JobRecord

LEMMA ConstantFacts == NoJob \notin Job /\ NoKey \notin Key
BY ConstantsAssumption

LEMMA InvImplies ==
    Inv => TypeOK /\ WaiterServed /\ DemandFirst /\ ClaimedIsWanted /\ NothingOutdated
<1> SUFFICES ASSUME Inv PROVE TypeOK /\ WaiterServed /\ DemandFirst /\ ClaimedIsWanted /\ NothingOutdated
  OBVIOUS
<1>1. TypeOK
  BY DEF Inv, JobTypes, MainTypes, Caches, WorkTypes, TypeOK
<1>2. DemandFirst
  BY DEF Inv, First, DemandFirst
<1>3. NothingOutdated
  BY DEF Inv, Caches, NothingOutdated
<1>4. ClaimedIsWanted
  BY DEF Inv, PendingJobs, ClaimedIsWanted, Pending, Unclaimed
<1>5. ASSUME main \in Waiting \cup {"trim"}, want # NoJob
      PROVE  /\ pending[wanted] = want /\ job[want].claimed
             /\ job[want].state = "Queued" => want \in ToSet(q) \cup {cur}
             /\ job[want].state = "Running" => cur = want
             /\ Cancelled(want) => job[want].speculative
  <2>1. wanted \in Key /\ pending[wanted] = want /\ job[want].claimed /\ want \in Job
    BY <1>5 DEF Inv, WantedJob, MainTypes
  <2>2. fresh = NoJob
    BY <1>5 DEF Inv, FreshJob, Waiting
  <2>3. job[want].state = "Queued" => want \in ToSet(q) \cup {cur}
    BY <1>5, <2>1, <2>2 DEF Inv, Reached, Waiting
  <2>4. job[want].state = "Running" => cur = want
    BY <2>1 DEF Inv, WorkersJob
  <2>5. Cancelled(want) => job[want].speculative
    BY <1>5, <2>1 DEF Inv, PendingJobs, Cancelled
  <2> QED
    BY <2>1, <2>3, <2>4, <2>5
<1> QED
  BY <1>1, <1>2, <1>3, <1>4, <1>5 DEF WaiterServed

LEMMA InvInit == Init => Inv
<1> SUFFICES ASSUME Init PROVE Inv
  OBVIOUS
<1>1. PICK k \in Key :
         job = [j \in Job |-> [key |-> k, state |-> "Ready", cancelled |-> FALSE,
                               speculative |-> FALSE, claimed |-> FALSE,
                               surface |-> FALSE, outdated |-> FALSE]]
  BY DEF Init
<1>2. JobTypes
  BY <1>1 DEF JobTypes, JobRecord
<1>3. \A j \in Job : job[j].state = "Ready" /\ ~job[j].cancelled
  BY <1>1
<1>4. MainTypes /\ Caches
  BY DEF Init, MainTypes, Caches
<1>5. q = <<>> /\ cur = NoJob /\ worker = "none" /\ want = NoJob /\ fresh = NoJob /\ main = "idle"
  BY DEF Init
<1>6. quit \in BOOLEAN
  BY DEF Init
<1>7. WorkTypes
  BY <1>5, <1>6 DEF WorkTypes
<1>8. PendingJobs /\ Reached
  BY DEF Init, PendingJobs, Reached
<1>9. WantedJob /\ FreshJob
  BY <1>5 DEF WantedJob, FreshJob, Wanting
<1>10. WorkersJob /\ CancelledJobs
  BY <1>3, <1>5 DEF WorkersJob, CancelledJobs, Busy
<1>11. Queue /\ First
  BY <1>5, EmptyFacts DEF Queue, First
<1> QED
  BY <1>2, <1>4, <1>7, <1>8, <1>9, <1>10, <1>11 DEF Inv

\* What a step leaves alone keeps its part of the invariant.
LEMMA Untouched ==
    ASSUME Inv
    PROVE  /\ UNCHANGED job => JobTypes' /\ CancelledJobs'
           /\ UNCHANGED mainVars /\ UNCHANGED pending => MainTypes'
           /\ UNCHANGED cacheVars => Caches'
           /\ UNCHANGED <<q, cur, worker, quit>> => WorkTypes'
           /\ UNCHANGED <<pending, job, want, wanted>> => PendingJobs'
           /\ UNCHANGED <<pending, job, want, wanted, main, back>> => WantedJob'
           /\ UNCHANGED <<job, cur, worker>> => WorkersJob'
           /\ UNCHANGED <<q, cur>> => Queue'
           /\ UNCHANGED <<q, want>> => First'
           /\ UNCHANGED <<main, pending, job, q, cur, fresh>> => Reached'
           /\ UNCHANGED <<main, job, q, cur, fresh, want>> => FreshJob'
<1>1. UNCHANGED job => JobTypes' /\ CancelledJobs'
  BY DEF Inv, JobTypes, CancelledJobs
<1>2. UNCHANGED mainVars /\ UNCHANGED pending => MainTypes'
  BY DEF Inv, MainTypes, mainVars
<1>3. UNCHANGED cacheVars => Caches'
  BY DEF Inv, Caches, cacheVars
<1>4. UNCHANGED <<q, cur, worker, quit>> => WorkTypes'
  BY DEF Inv, WorkTypes
<1>5. UNCHANGED <<pending, job, want, wanted>> => PendingJobs'
  BY DEF Inv, PendingJobs
<1>6. UNCHANGED <<pending, job, want, wanted, main, back>> => WantedJob'
  BY DEF Inv, WantedJob, Wanting
<1>7. UNCHANGED <<job, cur, worker>> => WorkersJob'
  BY DEF Inv, WorkersJob
<1>8. UNCHANGED <<q, cur>> => Queue'
  BY DEF Inv, Queue, IsInjective, ToSet
<1>9. UNCHANGED <<q, want>> => First'
  BY DEF Inv, First, ToSet
<1>10. UNCHANGED <<main, pending, job, q, cur, fresh>> => Reached'
  BY DEF Inv, Reached, ToSet
<1>11. UNCHANGED <<main, job, q, cur, fresh, want>> => FreshJob'
  BY DEF Inv, FreshJob, ToSet
<1> QED
  BY <1>1, <1>2, <1>3, <1>4, <1>5, <1>6, <1>7, <1>8, <1>9, <1>10, <1>11

\* The main thread moves on, and the cache may change with it.
LEMMA MoveKeeps ==
    ASSUME Inv, UNCHANGED <<pending, job, q, cur, worker, want, fresh, back>>,
           main \notin {"erase", "push", "trim", "clear"},
           main' \in {"idle", "window", "wait", "over", "endThreads"},
           Wanting' <=> Wanting,
           wanted' \in Key \cup {NoKey}, want # NoJob => wanted' = wanted,
           quit' \in BOOLEAN, Caches'
    PROVE  Inv'
<1>1. MainTypes'
  BY DEF Inv, MainTypes, Waiting
<1>2. WorkTypes'
  BY DEF Inv, WorkTypes
<1>3. PendingJobs'
  BY DEF Inv, PendingJobs
<1>4. WantedJob'
  BY DEF Inv, WantedJob
<1>5. FreshJob'
  BY DEF Inv, FreshJob
<1>6. Reached'
  BY DEF Inv, Reached
<1> QED
  BY <1>1, <1>2, <1>3, <1>4, <1>5, <1>6, Untouched DEF Inv

\* A Put that is offered nothing outdated.
LEMMA PutKeeps ==
    ASSUME Caches, NEW k, Put(k, FALSE)
    PROVE  images' \in [Key -> {"absent", "current"}]
BY DEF Caches, Put

LEMMA MainMoves == ASSUME Inv, PrefetchDone \/ Reset \/ Loaded PROVE Inv'
<1>1. CASE PrefetchDone
  <2>1. main = "window" /\ main' = "wait"
        /\ UNCHANGED <<jobVars, cacheVars, workerVars, want, wanted, fresh, back>>
    BY <1>1 DEF PrefetchDone
  <2> QED
    BY <2>1, MoveKeeps, Untouched DEF jobVars, workerVars, Wanting, Inv, MainTypes, WorkTypes
<1>2. CASE Reset
  <2>1. main = "idle" /\ main' = "endThreads"
        /\ UNCHANGED <<jobVars, cacheVars, workerVars, want, wanted, fresh, back>>
    BY <1>2 DEF Reset
  <2> QED
    BY <2>1, MoveKeeps, Untouched DEF jobVars, workerVars, Wanting, Inv, MainTypes, WorkTypes
<1>3. CASE Loaded
  <2>1. /\ main = "load" /\ wanted' = NoKey
        /\ UNCHANGED <<jobVars, rejected, cur, worker, want, fresh, back>>
        /\ main' \in {"idle", "over"}
    BY <1>3 DEF Loaded, Return
  <2>2. quit' \in BOOLEAN
    BY <1>3 DEF Loaded, Inv, WorkTypes
  <2>3. images' \in [Key -> {"absent", "current"}]
    BY <1>3, PutKeeps DEF Loaded, Return, Inv, Caches
  <2>4. Caches'
    BY <2>1, <2>3 DEF Inv, Caches
  <2>5. want = NoJob /\ ~Wanting /\ ~Wanting'
    BY <2>1 DEF Inv, WantedJob, Wanting
  <2> QED
    BY <2>1, <2>2, <2>4, <2>5, MoveKeeps DEF jobVars
<1> QED
  BY <1>1, <1>2, <1>3

\* Erasing the cancelled jobs takes no job away that is still to be done.
LEMMA EraseKeeps ==
    ASSUME Inv, q' \in Remaining(q, {j \in Job : ~Cancelled(j)}),
           UNCHANGED <<pending, job, cacheVars, workerVars, want, wanted, fresh>>,
           main \in {"erase", "trim"}, main' # "clearQueue", MainTypes', Wanting' <=> Wanting,
           fresh' # NoJob <=> main' \in {"erase", "push"}
    PROVE  Inv'
<1> DEFINE kept == {j \in Job : ~Cancelled(j)}
<1>1. q \in Seq(Job) /\ IsInjective(q) /\ cur \notin ToSet(q)
  BY DEF Inv, WorkTypes, Queue
<1>2. /\ q' \in Seq(Job) /\ ToSet(q') = {x \in ToSet(q) : x \in kept} /\ IsInjective(q')
      /\ q # <<>> /\ Head(q) \in kept => Head(q') = Head(q)
  BY <1>1, RemainingFacts
<1>3. WorkTypes'
  BY <1>2 DEF Inv, WorkTypes, workerVars
<1>4. ToSet(q)' = ToSet(q') /\ ToSet(q') \subseteq ToSet(q)
  BY <1>2
<1>5. FreshJob'
  BY <1>4 DEF Inv, FreshJob, workerVars
<1>6. Queue'
  BY <1>1, <1>2, <1>4 DEF Queue, workerVars
<1>7. First'
  <2>1. ASSUME want \in ToSet(q') PROVE Head(q') = want
    <3>1. want \in ToSet(q) /\ want \in kept
      BY <1>2, <2>1
    <3>2. Head(q) = want /\ q # <<>>
      BY <3>1, EmptyFacts DEF Inv, First
    <3> QED
      BY <1>2, <3>1, <3>2
  <2> QED
    BY <1>4, <2>1 DEF First
<1>8. Reached'
  <2>1. ASSUME NEW k \in Key, pending[k] # NoJob, job[pending[k]].state = "Queued"
        PROVE  pending[k] \in ToSet(q') \cup {cur, fresh}
    <3>1. pending[k] \in ToSet(q) \cup {cur, fresh} /\ pending[k] \in Job
      BY <2>1 DEF Inv, Reached, MainTypes
    <3>2. pending[k] \in kept
      BY <2>1, <3>1 DEF Inv, CancelledJobs, Cancelled
    <3> QED
      BY <1>2, <3>1, <3>2
  <2> QED
    BY <1>4, <2>1 DEF Reached, workerVars
<1>9. WantedJob'
  BY DEF Inv, WantedJob
<1> QED
  BY <1>3, <1>5, <1>6, <1>7, <1>8, <1>9, Untouched DEF Inv, workerVars

LEMMA ErasesKeep == ASSUME Inv, EraseCancelled \/ TrimQueue PROVE Inv'
<1>1. CASE EraseCancelled
  <2>1. /\ main = "erase" /\ main' = "push"
        /\ q' \in Remaining(q, {j \in Job : ~Cancelled(j)})
        /\ UNCHANGED <<pending, job, cacheVars, workerVars, want, wanted, fresh, back>>
    BY <1>1 DEF EraseCancelled
  <2>2. fresh # NoJob /\ MainTypes'
    BY <2>1 DEF Inv, MainTypes, FreshJob
  <2> QED
    BY <2>1, <2>2, EraseKeeps DEF Wanting
<1>2. CASE TrimQueue
  <2>1. /\ main = "trim" /\ main' = back /\ back' = "idle"
        /\ q' \in Remaining(q, {j \in Job : ~Cancelled(j)})
        /\ UNCHANGED <<pending, job, cacheVars, workerVars, want, wanted, fresh>>
    BY <1>2 DEF TrimQueue
  <2>2. back \in {"idle", "wait", "load"}
    BY DEF Inv, MainTypes, Waiting
  <2>3. MainTypes'
    BY <2>1, <2>2 DEF Inv, MainTypes, Waiting
  <2>4. fresh = NoJob
    BY <2>1 DEF Inv, FreshJob
  <2>5. fresh' # NoJob <=> main' \in {"erase", "push"}
    BY <2>1, <2>2, <2>4
  <2>6. Wanting <=> back = "wait"
    BY <2>1 DEF Wanting
  <2>7. Wanting' <=> back = "wait"
    BY <2>1, <2>2 DEF Wanting
  <2> QED
    BY <2>1, <2>2, <2>3, <2>5, <2>6, <2>7, EraseKeeps
<1> QED
  BY <1>1, <1>2

\* The queue is emptied when no one waits.
LEMMA EmptyKeeps ==
    ASSUME Inv, q' = <<>>, UNCHANGED <<pending, job, cacheVars, workerVars, want, wanted, fresh, back>>,
           main \in {"endThreads", "clearQueue"}, main' \in {"clear", "idle"},
           main' = "clear" \/ Reached'
    PROVE  Inv'
<1>1. ToSet(q)' = {} /\ IsInjective(q)'
  <2>1. ToSet(q') = {} /\ IsInjective(q')
    BY EmptyFacts
  <2>2. ToSet(q)' = ToSet(q') /\ IsInjective(q)' = IsInjective(q')
    BY DEF ToSet, IsInjective
  <2> QED
    BY <2>1, <2>2
<1>2. want = NoJob /\ fresh = NoJob
  BY DEF Inv, WantedJob, FreshJob, Wanting
<1>3. MainTypes'
  BY DEF Inv, MainTypes, Waiting
<1>4. WorkTypes'
  BY DEF Inv, WorkTypes, workerVars
<1>5. WantedJob' /\ FreshJob'
  BY <1>2 DEF WantedJob, FreshJob, Wanting
<1>6. Queue' /\ First'
  BY <1>1 DEF Queue, First
<1>7. Reached'
  BY DEF Reached
<1> QED
  BY <1>3, <1>4, <1>5, <1>6, <1>7, Untouched DEF Inv, workerVars

\* The thread that waits for nobody's pixels empties the queue twice in a reset.
LEMMA ClearsKeep == ASSUME Inv, EndThreads \/ ClearQueue PROVE Inv'
<1>1. CASE EndThreads
  <2>1. /\ main = "endThreads" /\ main' = "clear" /\ q' = <<>>
        /\ UNCHANGED <<pending, job, cacheVars, workerVars, want, wanted, fresh, back>>
    BY <1>1 DEF EndThreads
  <2> QED
    BY <2>1, EmptyKeeps
<1>2. CASE ClearQueue
  <2>1. /\ main = "clearQueue" /\ main' = "idle" /\ q' = <<>>
        /\ UNCHANGED <<pending, job, cacheVars, workerVars, want, wanted, fresh, back>>
    BY <1>2 DEF ClearQueue
  <2>2. \A k \in Key : pending'[k] = NoJob
    BY <2>1 DEF Inv, Reached
  <2>3. Reached'
    BY <2>1, <2>2 DEF Reached
  <2> QED
    BY <2>1, <2>3, EmptyKeeps
<1> QED
  BY <1>1, <1>2

LEMMA QueueOfJobs == ASSUME q \in Seq(Job) PROVE ToSet(q) \subseteq Job
<1>1. \A i \in DOMAIN q : q[i] \in Job
  OBVIOUS
<1> QED
  BY <1>1 DEF ToSet

LEMMA PushKeeps == ASSUME Inv, Push PROVE Inv'
<1>1. /\ main = "push" /\ main' = "window" /\ fresh' = NoJob
      /\ q' = IF job[fresh].speculative THEN Append(q, fresh) ELSE <<fresh>> \o q
      /\ UNCHANGED <<pending, job, cacheVars, cur, quit, want, wanted, back>>
      /\ worker' \in IF worker = "dead" THEN {"dead", "none"} ELSE {worker}
  BY DEF Push
<1>2. /\ fresh \in Job /\ fresh \notin ToSet(q) /\ fresh # cur
      /\ ~job[fresh].speculative <=> fresh = want
  BY <1>1 DEF Inv, FreshJob, MainTypes
<1>3. q \in Seq(Job) /\ IsInjective(q) /\ cur \notin ToSet(q)
  BY DEF Inv, WorkTypes, Queue
<1>4. q' \in Seq(Job) /\ ToSet(q') = ToSet(q) \cup {fresh} /\ IsInjective(q')
  BY <1>1, <1>2, <1>3, AppendFacts, PrependFacts
<1>5. ToSet(q)' = ToSet(q) \cup {fresh} /\ IsInjective(q)'
  <2>1. ToSet(q)' = ToSet(q') /\ IsInjective(q)' = IsInjective(q')
    BY DEF ToSet, IsInjective
  <2> QED
    BY <1>4, <2>1
<1>6. worker' \in {"none", "start", "allow", "build", "publish", "dead"}
      /\ (worker' \in Busy <=> worker \in Busy) /\ (worker' = "start" <=> worker = "start")
  BY <1>1 DEF Inv, WorkTypes, Busy
<1>7. MainTypes'
  BY <1>1 DEF Inv, MainTypes
<1>8. WorkTypes'
  BY <1>1, <1>4, <1>6 DEF Inv, WorkTypes
<1>9. WantedJob'
  BY <1>1 DEF Inv, WantedJob, Wanting
<1>10. FreshJob'
  BY <1>1 DEF FreshJob
<1>11. WorkersJob'
  BY <1>1, <1>6 DEF Inv, WorkersJob
<1>12. Queue'
  BY <1>1, <1>2, <1>3, <1>5 DEF Queue
<1>13. Reached'
  BY <1>1, <1>5 DEF Inv, Reached
<1>14. First'
  <2>1. CASE job[fresh].speculative
    <3>1. want \in ToSet(q)' => want \in ToSet(q)
      BY <1>2, <1>5, <2>1
    <3>2. want \in ToSet(q) => Head(q') = want
      BY <1>1, <1>2, <1>3, <2>1, EmptyFacts, AppendFacts DEF Inv, First
    <3> QED
      BY <1>1, <3>1, <3>2 DEF First
  <2>2. CASE ~job[fresh].speculative
    <3>1. Head(q') = want
      BY <1>1, <1>2, <1>3, <2>2, PrependFacts
    <3> QED
      BY <1>1, <3>1 DEF First
  <2> QED
    BY <2>1, <2>2
<1> QED
  BY <1>1, <1>7, <1>8, <1>9, <1>10, <1>11, <1>12, <1>13, <1>14, Untouched DEF Inv

\* A new job is in no one's hands; on demand, it is the one waited for.
LEMMA NewJobKeeps ==
    ASSUME Inv, NEW k \in Key, NEW isSpeculative \in BOOLEAN,
           NewJob(k, isSpeculative), pending[k] = NoJob,
           UNCHANGED <<q, cacheVars, workerVars, back>>,
           \/ isSpeculative /\ main = "window" /\ UNCHANGED <<want, wanted>>
           \/ ~isSpeculative /\ main = "idle" /\ want' = fresh' /\ wanted' = k
    PROVE  Inv'
<1> DEFINE made == [key |-> k, state |-> "Queued", cancelled |-> FALSE,
                    speculative |-> isSpeculative, claimed |-> ~isSpeculative,
                    surface |-> FALSE, outdated |-> FALSE]
<1>1. PICK j \in Unreferenced :
         /\ fresh' = j /\ pending' = [pending EXCEPT ![k] = j]
         /\ job' = [job EXCEPT ![j] = made] /\ main' = "erase"
  BY DEF NewJob
<1>2. /\ j \in Job /\ j \notin ToSet(q) /\ j # cur /\ j # want /\ j # NoJob
      /\ \A i \in Key : pending[i] # j
  BY ConstantFacts DEF Unreferenced, Referenced
<1>3. fresh = NoJob /\ (want # NoJob <=> main = "window")
  <2>1. main \in {"idle", "window"}
    OBVIOUS
  <2>2. fresh = NoJob
    BY <2>1 DEF Inv, FreshJob
  <2>3. Wanting <=> main = "window"
    BY <2>1 DEF Wanting
  <2> QED
    BY <2>2, <2>3 DEF Inv, WantedJob
<1>4. made \in JobRecord
  BY DEF JobRecord
<1>5. JobTypes'
  BY <1>1, <1>2, <1>4 DEF Inv, JobTypes
<1>6. /\ job'[j].key = k /\ job'[j].state = "Queued" /\ ~job'[j].cancelled
      /\ (job'[j].speculative <=> isSpeculative) /\ (job'[j].claimed <=> ~isSpeculative)
      /\ ~job'[j].outdated
      /\ \A i \in Job : i # j => job'[i] = job[i]
  <2>1. job'[j] = made /\ \A i \in Job : i # j => job'[i] = job[i]
    BY <1>1, <1>2 DEF Inv, JobTypes
  <2>2. /\ made.key = k /\ made.state = "Queued" /\ made.cancelled = FALSE
        /\ made.speculative = isSpeculative /\ made.claimed = ~isSpeculative
        /\ made.outdated = FALSE
    OBVIOUS
  <2> HIDE DEF made
  <2> QED
    BY <2>1, <2>2
<1>7. /\ pending' \in [Key -> Job \cup {NoJob}] /\ pending'[k] = j
      /\ \A i \in Key : i # k => pending'[i] = pending[i]
      /\ pending \in [Key -> Job \cup {NoJob}]
  BY <1>1, <1>2 DEF Inv, MainTypes
<1>8. ToSet(q)' = ToSet(q)
  BY DEF ToSet
<1>9. MainTypes'
  BY <1>1, <1>2, <1>7 DEF Inv, MainTypes
<1>10. PendingJobs'
  <2>1. ASSUME NEW i \in Key, pending'[i] # NoJob
        PROVE  /\ job'[pending'[i]].key = i
               /\ ~job'[pending'[i]].outdated
               /\ job'[pending'[i]].cancelled => job'[pending'[i]].speculative
               /\ job'[pending'[i]].claimed => pending'[i] = want' /\ i = wanted'
    <3>1. CASE i = k
      <4>1. pending'[i] = j /\ (~isSpeculative => want' = j /\ wanted' = k)
        BY <1>1, <1>7, <3>1
      <4> QED
        BY <1>6, <3>1, <4>1
    <3>2. CASE i # k
      <4>1. /\ pending'[i] = pending[i] /\ pending[i] # NoJob /\ pending[i] \in Job
            /\ job'[pending[i]] = job[pending[i]]
        BY <1>2, <1>6, <1>7, <2>1, <3>2
      <4>2. job[pending[i]].claimed => main = "window" /\ pending[i] = want /\ i = wanted
        BY <1>3, <4>1 DEF Inv, PendingJobs
      <4> QED
        BY <4>1, <4>2 DEF Inv, PendingJobs
    <3> QED
      BY <3>1, <3>2
  <2> QED
    BY <2>1 DEF PendingJobs
<1>11. WantedJob'
  <2>1. CASE isSpeculative
    <3>1. want # NoJob /\ wanted \in Key /\ pending[wanted] = want /\ job[want].claimed /\ want \in Job
      BY <1>3, <2>1 DEF Inv, WantedJob, MainTypes
    <3>2. wanted # k /\ job'[want] = job[want]
      BY <1>2, <1>6, <3>1
    <3>3. pending'[wanted] = want /\ want' = want /\ wanted' = wanted
      BY <1>7, <2>1, <3>1, <3>2
    <3>4. want' # NoJob /\ wanted' \in Key /\ pending'[wanted'] = want' /\ job'[want'].claimed
      BY <3>1, <3>2, <3>3
    <3> QED
      BY <1>1, <3>4 DEF WantedJob, Wanting
  <2>2. CASE ~isSpeculative
    <3>1. want' = j /\ wanted' = k
      BY <1>1, <2>2
    <3>2. want' # NoJob /\ wanted' \in Key /\ pending'[wanted'] = want' /\ job'[want'].claimed
      BY <1>2, <1>6, <1>7, <2>2, <3>1
    <3> QED
      BY <1>1, <3>2 DEF WantedJob, Wanting
  <2> QED
    BY <2>1, <2>2
<1>12. FreshJob'
  <2>1. fresh' # NoJob /\ main' = "erase" /\ fresh' \notin ToSet(q)' /\ fresh' # cur'
    BY <1>1, <1>2, <1>8 DEF workerVars
  <2>2. ~job'[fresh'].speculative <=> fresh' = want'
    BY <1>1, <1>2, <1>6
  <2> QED
    BY <2>1, <2>2 DEF FreshJob
<1>13. WorkersJob'
  <2>1. ASSUME NEW i \in Job, job'[i].state = "Running" PROVE cur = i /\ worker \in Busy
    BY <1>6, <2>1 DEF Inv, WorkersJob
  <2>2. worker \in Busy => job'[cur].state = "Running"
    BY <1>2, <1>6 DEF Inv, WorkersJob, WorkTypes
  <2> QED
    BY <2>1, <2>2 DEF Inv, WorkersJob, workerVars
<1>14. CancelledJobs'
  BY <1>6 DEF Inv, CancelledJobs
<1>15. Reached'
  <2>1. ASSUME NEW i \in Key, pending'[i] # NoJob, job'[pending'[i]].state = "Queued"
        PROVE  pending'[i] \in ToSet(q)' \cup {cur', fresh'}
    <3>1. CASE i = k
      BY <1>1, <1>7, <3>1
    <3>2. CASE i # k
      <4>1. /\ pending'[i] = pending[i] /\ pending[i] # NoJob /\ pending[i] \in Job
            /\ job'[pending[i]] = job[pending[i]]
        BY <1>2, <1>6, <1>7, <2>1, <3>2
      <4>2. pending[i] \in ToSet(q) \cup {cur, fresh}
        BY <2>1, <4>1 DEF Inv, Reached
      <4> QED
        BY <1>3, <1>8, <4>1, <4>2 DEF workerVars
    <3> QED
      BY <3>1, <3>2
  <2> QED
    BY <1>1, <2>1 DEF Reached
<1>16. First'
  BY <1>1, <1>2, <1>8 DEF Inv, First
<1>17. WorkTypes' /\ Caches' /\ Queue'
  BY Untouched DEF workerVars
<1> QED
  BY <1>5, <1>9, <1>10, <1>11, <1>12, <1>13, <1>14, <1>15, <1>16, <1>17 DEF Inv

LEMMA RequestsKeep ==
    ASSUME Inv, NEW k \in Key, Demand(k) \/ Prefetch(k) PROVE Inv'
<1>1. CASE Demand(k)
  BY <1>1, NewJobKeeps DEF Demand
<1>2. CASE Prefetch(k)
  BY <1>2, NewJobKeeps DEF Prefetch
<1> QED
  BY <1>1, <1>2

\* The speculative job is claimed, and comes first if it is still queued.
LEMMA ClaimKeeps == ASSUME Inv, NEW k \in Key, Claim(k) PROVE Inv'
<1> DEFINE j == pending[k]
<1>1. /\ main = "idle" /\ main' = "window" /\ j # NoJob
      /\ job' = [job EXCEPT ![j].claimed = TRUE]
      /\ want' = j /\ wanted' = k
      /\ UNCHANGED <<pending, cacheVars, workerVars, fresh, back>>
      /\ IF j \in ToSet(q)
           THEN \E rest \in Remaining(q, Job \ {j}) : q' = <<j>> \o rest
           ELSE UNCHANGED q
  BY DEF Claim
<1>2. /\ j \in Job /\ fresh = NoJob /\ want = NoJob
      /\ pending \in [Key -> Job \cup {NoJob}]
  BY <1>1 DEF Inv, MainTypes, FreshJob, WantedJob, Wanting
<1> HIDE DEF j
<1>3. /\ JobTypes'
      /\ \A i \in Job : i # j => job'[i] = job[i]
      /\ job'[j] = [job[j] EXCEPT !.claimed = TRUE]
  <2>1. [job[j] EXCEPT !.claimed = TRUE] \in JobRecord
    BY <1>2 DEF Inv, JobTypes, JobRecord
  <2>2. job \in [Job -> JobRecord]
    BY DEF Inv, JobTypes
  <2>3. job' = [job EXCEPT ![j] = [job[j] EXCEPT !.claimed = TRUE]]
    BY <1>1
  <2> QED
    BY <1>2, <2>1, <2>2, <2>3 DEF JobTypes
<1>4. \A i \in Job : /\ job'[i].key = job[i].key /\ job'[i].state = job[i].state
                     /\ job'[i].cancelled = job[i].cancelled
                     /\ job'[i].speculative = job[i].speculative
                     /\ job'[i].outdated = job[i].outdated
  <2> TAKE i \in Job
  <2>1. job[i] \in JobRecord
    BY DEF Inv, JobTypes
  <2> QED
    BY <1>3, <2>1 DEF JobRecord
<1>5. job'[j].claimed
  BY <1>2, <1>3 DEF Inv, JobTypes, JobRecord
<1>6. q \in Seq(Job) /\ IsInjective(q) /\ cur \notin ToSet(q)
  BY DEF Inv, WorkTypes, Queue
<1>7. /\ q' \in Seq(Job) /\ ToSet(q') = ToSet(q) /\ IsInjective(q')
      /\ j \in ToSet(q') => Head(q') = j
  <2>1. CASE j \in ToSet(q)
    <3>1. PICK rest \in Remaining(q, Job \ {j}) : q' = <<j>> \o rest
      BY <1>1, <2>1
    <3>2. rest \in Seq(Job) /\ ToSet(rest) = {x \in ToSet(q) : x \in Job \ {j}} /\ IsInjective(rest)
      BY <1>6, RemainingFacts
    <3>3. ToSet(q) \subseteq Job
      BY <1>6, QueueOfJobs
    <3>4. j \notin ToSet(rest) /\ ToSet(rest) \cup {j} = ToSet(q)
      BY <2>1, <3>2, <3>3
    <3>5. /\ <<j>> \o rest \in Seq(Job) /\ ToSet(<<j>> \o rest) = ToSet(rest) \cup {j}
          /\ IsInjective(<<j>> \o rest) /\ Head(<<j>> \o rest) = j
      BY <1>2, <3>2, <3>4, PrependFacts
    <3> QED
      BY <3>1, <3>4, <3>5
  <2>2. CASE j \notin ToSet(q)
    BY <1>1, <1>6, <2>2
  <2> QED
    BY <2>1, <2>2
<1>8. ToSet(q)' = ToSet(q) /\ IsInjective(q)'
  <2>1. ToSet(q)' = ToSet(q') /\ IsInjective(q)' = IsInjective(q')
    BY DEF ToSet, IsInjective
  <2> QED
    BY <1>7, <2>1
<1>9. MainTypes'
  BY <1>1, <1>2 DEF Inv, MainTypes
<1>10. WorkTypes'
  BY <1>1, <1>7 DEF Inv, WorkTypes, workerVars
<1>11. PendingJobs'
  <2>1. ASSUME NEW i \in Key, pending[i] # NoJob
        PROVE  /\ job'[pending[i]].key = i
               /\ ~job'[pending[i]].outdated
               /\ job'[pending[i]].cancelled => job'[pending[i]].speculative
               /\ job'[pending[i]].claimed => pending[i] = j /\ i = k
    <3>1. /\ pending[i] \in Job /\ job[pending[i]].key = i /\ ~job[pending[i]].outdated
          /\ job[pending[i]].cancelled => job[pending[i]].speculative
          /\ ~job[pending[i]].claimed
      BY <1>2, <2>1 DEF Inv, PendingJobs
    <3>2. job[j].key = k
      BY <1>1 DEF Inv, PendingJobs, j
    <3>3. job'[pending[i]].claimed => pending[i] = j
      BY <1>3, <3>1
    <3> QED
      BY <1>4, <3>1, <3>2, <3>3
  <2> QED
    BY <1>1, <2>1 DEF PendingJobs
<1>12. WantedJob'
  BY <1>1, <1>5 DEF WantedJob, Wanting, j
<1>13. FreshJob'
  BY <1>1, <1>2 DEF FreshJob
<1>14. WorkersJob'
  <2>1. ASSUME NEW i \in Job, job'[i].state = "Running" PROVE cur = i /\ worker \in Busy
    BY <1>4, <2>1 DEF Inv, WorkersJob
  <2>2. worker \in Busy => cur \in Job /\ job[cur].state = "Running"
    BY DEF Inv, WorkersJob, WorkTypes
  <2>3. worker \in Busy => job'[cur].state = "Running"
    BY <1>4, <2>2
  <2> QED
    BY <1>1, <2>1, <2>3 DEF Inv, WorkersJob, workerVars
<1>15. CancelledJobs'
  BY <1>4 DEF Inv, CancelledJobs
<1>16. Queue'
  BY <1>1, <1>6, <1>8 DEF Queue, workerVars
<1>17. Reached'
  <2>1. ASSUME NEW i \in Key, pending[i] # NoJob, job'[pending[i]].state = "Queued"
        PROVE  pending[i] \in ToSet(q)' \cup {cur, fresh}
    <3>1. job[pending[i]].state = "Queued"
      BY <1>2, <1>4, <2>1
    <3> QED
      BY <1>1, <1>8, <2>1, <3>1 DEF Inv, Reached
  <2> QED
    BY <1>1, <2>1 DEF Reached, workerVars
<1>18. First'
  BY <1>1, <1>7, <1>8 DEF First
<1>19. Caches'
  BY <1>1, Untouched
<1> QED
  BY <1>3, <1>9, <1>10, <1>11, <1>12, <1>13, <1>14, <1>15, <1>16, <1>17, <1>18, <1>19 DEF Inv

\* A job leaves `pending`; nothing of it changes but its pixels.
LEMMA LeaveKeeps ==
    ASSUME Inv, NEW k \in Key, pending' = [pending EXCEPT ![k] = NoJob],
           JobTypes',
           \A i \in Job : /\ job'[i].key = job[i].key /\ job'[i].state = job[i].state
                          /\ job'[i].cancelled = job[i].cancelled
                          /\ job'[i].speculative = job[i].speculative
                          /\ job'[i].claimed = job[i].claimed
                          /\ job'[i].outdated = job[i].outdated,
           UNCHANGED <<q, cur, worker, fresh, back>>, quit' \in BOOLEAN, Caches',
           main \in {"idle", "wait", "load"}, main' \in {"idle", "wait", "load", "over"},
           \/ main' = main /\ UNCHANGED <<want, wanted>> /\ (want # NoJob => k # wanted)
           \/ main = "wait" /\ main' # "wait" /\ k = wanted /\ want' = NoJob
              /\ wanted' \in Key \cup {NoKey}
    PROVE  Inv'
<1>1. /\ pending \in [Key -> Job \cup {NoJob}] /\ pending' \in [Key -> Job \cup {NoJob}]
      /\ pending'[k] = NoJob /\ \A i \in Key : i # k => pending'[i] = pending[i]
  BY DEF Inv, MainTypes
<1>2. fresh = NoJob /\ (want # NoJob <=> main = "wait")
  BY DEF Inv, FreshJob, WantedJob, Wanting
<1>3. ToSet(q)' = ToSet(q)
  BY DEF ToSet
<1>4. MainTypes'
  BY <1>1 DEF Inv, MainTypes, Waiting
<1>5. WorkTypes'
  BY DEF Inv, WorkTypes
<1>6. PendingJobs'
  <2>1. ASSUME NEW i \in Key, pending'[i] # NoJob
        PROVE  /\ job'[pending'[i]].key = i
               /\ ~job'[pending'[i]].outdated
               /\ job'[pending'[i]].cancelled => job'[pending'[i]].speculative
               /\ job'[pending'[i]].claimed => pending'[i] = want' /\ i = wanted'
    <3>1. i # k /\ pending'[i] = pending[i] /\ pending[i] \in Job
      BY <1>1, <2>1
    <3>2. /\ job[pending[i]].key = i /\ ~job[pending[i]].outdated
          /\ job[pending[i]].cancelled => job[pending[i]].speculative
          /\ job[pending[i]].claimed => pending[i] = want /\ i = wanted
      BY <2>1, <3>1 DEF Inv, PendingJobs
    <3> QED
      BY <3>1, <3>2
  <2> QED
    BY <2>1 DEF PendingJobs
<1>7. WantedJob'
  <2>1. CASE main' = main /\ UNCHANGED <<want, wanted>> /\ (want # NoJob => k # wanted)
    <3>1. Wanting' <=> Wanting
      BY <2>1 DEF Wanting
    <3>2. want # NoJob => wanted \in Key /\ pending[wanted] = want /\ job[want].claimed /\ want \in Job
      BY DEF Inv, WantedJob, MainTypes
    <3>3. want # NoJob => pending'[wanted] = want /\ job'[want].claimed
      BY <1>1, <2>1, <3>2
    <3> QED
      BY <2>1, <3>1, <3>2, <3>3 DEF Inv, WantedJob
  <2>2. CASE main = "wait" /\ main' # "wait" /\ want' = NoJob
    BY <2>2 DEF WantedJob, Wanting
  <2> QED
    BY <2>1, <2>2
<1>8. FreshJob'
  BY <1>2 DEF FreshJob
<1>9. WorkersJob'
  <2>1. ASSUME NEW i \in Job, job'[i].state = "Running" PROVE cur = i /\ worker \in Busy
    BY <2>1 DEF Inv, WorkersJob
  <2>2. worker \in Busy => cur \in Job /\ job[cur].state = "Running"
    BY DEF Inv, WorkersJob, WorkTypes
  <2>3. worker \in Busy => job'[cur].state = "Running"
    BY <2>2
  <2> QED
    BY <2>1, <2>3 DEF Inv, WorkersJob
<1>10. CancelledJobs'
  BY DEF Inv, CancelledJobs
<1>11. Reached'
  <2>1. ASSUME NEW i \in Key, pending'[i] # NoJob, job'[pending'[i]].state = "Queued"
        PROVE  pending'[i] \in ToSet(q)' \cup {cur', fresh'}
    <3>1. pending'[i] = pending[i] /\ pending[i] \in Job /\ job[pending[i]].state = "Queued"
      BY <1>1, <2>1
    <3> QED
      BY <1>3, <2>1, <3>1 DEF Inv, Reached
  <2> QED
    BY <2>1 DEF Reached
<1>12. First'
  <2>1. ToSet(q) \subseteq Job
    BY QueueOfJobs DEF Inv, WorkTypes
  <2>2. want' = want \/ want' \notin ToSet(q)
    BY <2>1, ConstantFacts
  <2> QED
    BY <1>3, <2>2 DEF Inv, First
<1>13. Queue'
  BY Untouched
<1> QED
  BY <1>4, <1>5, <1>6, <1>7, <1>8, <1>9, <1>10, <1>11, <1>12, <1>13 DEF Inv

LEMMA TakeReadyKeeps == ASSUME Inv, TakeReady PROVE Inv'
<1>1. /\ main = "wait" /\ pending' = [pending EXCEPT ![wanted] = NoJob]
      /\ job' = [job EXCEPT ![want].surface = FALSE] /\ want' = NoJob
      /\ UNCHANGED <<q, cur, worker, quit, rejected, fresh, back>>
  BY DEF TakeReady, workerVars
<1>2. /\ wanted \in Key /\ want \in Job /\ ~job[want].outdated /\ job[want].outdated \in BOOLEAN
  <2>1. wanted \in Key /\ want \in Job /\ want # NoJob /\ pending[wanted] = want
    BY <1>1 DEF Inv, WantedJob, Wanting, MainTypes
  <2>2. ~job[want].outdated
    BY <2>1 DEF Inv, PendingJobs
  <2> QED
    BY <2>1, <2>2, JobFields DEF Inv
<1>3. job[want].outdated = FALSE
  BY <1>2
<1>4. /\ main' \in {"load", "idle", "over"} /\ wanted' \in {wanted, NoKey}
      /\ images' = images \/ Put(wanted, FALSE)
  BY <1>3 DEF TakeReady, Return
<1>5. Caches'
  <2>1. images' \in [Key -> {"absent", "current"}]
    BY <1>4, PutKeeps DEF Inv, Caches
  <2> QED
    BY <1>1, <2>1 DEF Inv, Caches
<1>6. job \in [Job -> JobRecord]
  BY DEF Inv, JobTypes
<1>7. /\ \A i \in Job : i # want => job'[i] = job[i]
      /\ job'[want] = [job[want] EXCEPT !.surface = FALSE]
      /\ JobTypes'
  <2>1. [job[want] EXCEPT !.surface = FALSE] \in JobRecord
    BY <1>2, <1>6 DEF JobRecord
  <2>2. job' = [job EXCEPT ![want] = [job[want] EXCEPT !.surface = FALSE]]
    BY <1>1
  <2> QED
    BY <1>2, <1>6, <2>1, <2>2 DEF JobTypes
<1>8. \A i \in Job : /\ job'[i].key = job[i].key /\ job'[i].state = job[i].state
                     /\ job'[i].cancelled = job[i].cancelled
                     /\ job'[i].speculative = job[i].speculative
                     /\ job'[i].claimed = job[i].claimed
                     /\ job'[i].outdated = job[i].outdated
  <2> TAKE i \in Job
  <2>1. job[i] \in JobRecord
    BY <1>6
  <2> QED
    BY <1>7, <2>1 DEF JobRecord
<1>9. quit' \in BOOLEAN /\ wanted' \in Key \cup {NoKey}
  BY <1>1, <1>2, <1>4 DEF Inv, WorkTypes
<1>10. main' # "wait" /\ main' \in {"idle", "wait", "load", "over"}
  BY <1>4
<1> QED
  BY <1>1, <1>2, <1>5, <1>7, <1>8, <1>9, <1>10, LeaveKeeps

LEMMA ServiceKeeps == ASSUME Inv, NEW k \in Key, Service(k) PROVE Inv'
<1>1. /\ main \in {"idle", "wait", "load"} /\ pending[k] # NoJob
      /\ ~job[pending[k]].claimed
      /\ pending' = [pending EXCEPT ![k] = NoJob]
      /\ UNCHANGED <<job, q, workerVars, mainVars>>
  BY DEF Service, Waiting
<1>2. pending[k] \in Job /\ job[pending[k]].outdated = FALSE
  <2>1. pending[k] \in Job /\ ~job[pending[k]].outdated
    BY <1>1 DEF Inv, PendingJobs, MainTypes
  <2>2. job[pending[k]].outdated \in BOOLEAN
    BY <2>1, JobFields DEF Inv
  <2> QED
    BY <2>1, <2>2
<1>3. (images' = images \/ Put(k, FALSE)) /\ (rejected' = rejected \/ rejected' = rejected \cup {k})
  BY <1>2 DEF Service, cacheVars
<1>4. Caches'
  <2>1. images' \in [Key -> {"absent", "current"}]
    BY <1>3, PutKeeps DEF Inv, Caches
  <2> QED
    BY <1>3, <2>1 DEF Inv, Caches
<1>5. want # NoJob => k # wanted
  BY <1>1 DEF Inv, WantedJob
<1>6. JobTypes' /\ quit' \in BOOLEAN
  BY <1>1, Untouched DEF Inv, WorkTypes, workerVars
<1> QED
  BY <1>1, <1>4, <1>5, <1>6, LeaveKeeps DEF workerVars, mainVars

\* cancel() leaves a job alone or cancels it; it never sends one to the worker.
LEMMA CancelFacts ==
    ASSUME JobTypes, NEW js
    PROVE  /\ CancelAll(js) \in [Job -> JobRecord]
           /\ \A j \in Job :
                 /\ j \notin js => CancelAll(js)[j] = job[j]
                 /\ CancelAll(js)[j].key = job[j].key
                 /\ CancelAll(js)[j].speculative = job[j].speculative
                 /\ CancelAll(js)[j].state = "Running" <=> job[j].state = "Running"
                 /\ CancelAll(js)[j].state = "Queued" => job[j].state = "Queued" /\ j \notin js
<1>1. ASSUME NEW j \in Job
      PROVE  /\ CancelAll(js)[j] = IF j \in js THEN CancelledRecord(job[j]) ELSE job[j]
             /\ CancelledRecord(job[j]) \in JobRecord
             /\ CancelledRecord(job[j]).key = job[j].key
             /\ CancelledRecord(job[j]).speculative = job[j].speculative
             /\ CancelledRecord(job[j]).state = IF job[j].state = "Queued" THEN "Ready" ELSE job[j].state
  <2>1. job[j] \in JobRecord
    BY DEF JobTypes
  <2>2. CancelAll(js)[j] = IF j \in js THEN CancelledRecord(job[j]) ELSE job[j]
    BY DEF CancelAll
  <2>3. /\ CancelledRecord(job[j]) \in JobRecord
        /\ CancelledRecord(job[j]).key = job[j].key
        /\ CancelledRecord(job[j]).speculative = job[j].speculative
        /\ CancelledRecord(job[j]).state = IF job[j].state = "Queued" THEN "Ready" ELSE job[j].state
    BY <2>1 DEF CancelledRecord, JobRecord
  <2> QED
    BY <2>2, <2>3
<1>2. CancelAll(js) \in [Job -> JobRecord]
  <2>1. CancelAll(js) = [j \in Job |-> IF j \in js THEN CancelledRecord(job[j]) ELSE job[j]]
    BY DEF CancelAll
  <2>2. \A j \in Job : (IF j \in js THEN CancelledRecord(job[j]) ELSE job[j]) \in JobRecord
    BY <1>1 DEF JobTypes
  <2> QED
    BY <2>1, <2>2
<1> QED
  BY <1>1, <1>2

\* Pending jobs are cancelled and forgotten: the claimed one only while nobody
\* waits.  A dropped asset's job is outdated from then on.
LEMMA ForgetKeeps ==
    ASSUME Inv, NEW ks \in SUBSET Key,
           pending' = [k \in Key |-> IF k \in ks THEN NoJob ELSE pending[k]],
           want # NoJob => wanted \notin ks,
           JobTypes', Caches',
           \A i \in Job : /\ job'[i].state = "Running" <=> job[i].state = "Running"
                          /\ job'[i].cancelled => job'[i].state # "Queued"
                          /\ job'[i].state = "Queued" => job[i].state = "Queued",
           \A k \in Key \ ks : pending[k] # NoJob => job'[pending[k]] = job[pending[k]],
           UNCHANGED <<q, workerVars, want, wanted, fresh>>,
           main \in {"idle", "wait", "load", "clear"}, back' \in {"idle", "wait", "load"},
           \/ main' = "trim" /\ back' = main /\ main # "clear"
           \/ main' = "idle" /\ main = "idle"
           \/ main' = "clearQueue" /\ main = "clear" /\ ks = Key
    PROVE  Inv'
<1>1. /\ pending \in [Key -> Job \cup {NoJob}] /\ pending' \in [Key -> Job \cup {NoJob}]
      /\ \A k \in Key : pending'[k] = IF k \in ks THEN NoJob ELSE pending[k]
  BY DEF Inv, MainTypes
<1>2. fresh = NoJob /\ (want # NoJob <=> main = "wait")
  BY DEF Inv, FreshJob, WantedJob, Wanting
<1>3. ToSet(q)' = ToSet(q)
  BY DEF ToSet
<1>4. MainTypes'
  BY <1>1 DEF Inv, MainTypes, Waiting
<1>5. WorkTypes' /\ Queue' /\ First'
  BY Untouched DEF workerVars
<1>6. PendingJobs'
  <2>1. ASSUME NEW k \in Key, pending'[k] # NoJob
        PROVE  k \notin ks /\ pending'[k] = pending[k] /\ job'[pending[k]] = job[pending[k]]
    BY <1>1, <2>1
  <2> QED
    BY <2>1 DEF Inv, PendingJobs
<1>7. WantedJob'
  <2>1. Wanting' <=> main = "wait"
    BY DEF Wanting
  <2>2. ASSUME want # NoJob
        PROVE  wanted \in Key /\ pending'[wanted] = want /\ job'[want].claimed
    <3>1. wanted \in Key /\ pending[wanted] = want /\ job[want].claimed /\ wanted \notin ks
      BY <2>2 DEF Inv, WantedJob
    <3>2. job'[want] = job[want] /\ pending'[wanted] = want
      BY <1>1, <2>2, <3>1
    <3> QED
      BY <3>1, <3>2
  <2> QED
    BY <1>2, <2>1, <2>2 DEF WantedJob
<1>8. FreshJob'
  BY <1>2 DEF FreshJob
<1>9. WorkersJob'
  <2>1. worker \in Busy => cur \in Job /\ job[cur].state = "Running"
    BY DEF Inv, WorkersJob, WorkTypes
  <2>2. worker \in Busy => job'[cur].state = "Running"
    BY <2>1
  <2>3. ASSUME NEW i \in Job, job'[i].state = "Running" PROVE cur = i /\ worker \in Busy
    BY <2>3 DEF Inv, WorkersJob
  <2> QED
    BY <2>2, <2>3 DEF Inv, WorkersJob, workerVars
<1>10. CancelledJobs'
  BY DEF CancelledJobs
<1>11. Reached'
  <2>1. main' = "clearQueue" => \A k \in Key : pending'[k] = NoJob
    BY <1>1
  <2>2. ASSUME NEW k \in Key, pending'[k] # NoJob, job'[pending'[k]].state = "Queued"
        PROVE  pending'[k] \in ToSet(q)' \cup {cur', fresh'}
    <3>1. main # "clear" /\ pending'[k] = pending[k] /\ pending[k] # NoJob /\ pending[k] \in Job
      BY <1>1, <2>2
    <3>2. pending[k] \in ToSet(q) \cup {cur, fresh}
      BY <2>2, <3>1 DEF Inv, Reached
    <3> QED
      BY <1>3, <3>1, <3>2 DEF workerVars
  <2> QED
    BY <2>1, <2>2 DEF Reached
<1> QED
  BY <1>4, <1>5, <1>6, <1>7, <1>8, <1>9, <1>10, <1>11 DEF Inv

LEMMA TrimKeeps == ASSUME Inv, Trim PROVE Inv'
<1>1. /\ main \in {"idle", "wait", "load"}
      /\ UNCHANGED <<q, rejected, workerVars, want, wanted, fresh>>
  BY DEF Trim, Waiting
<1>2. Caches'
  <2>1. PICK gone \in SUBSET Key :
           images' = [k \in Key |-> IF k \in gone THEN "absent" ELSE images[k]]
    BY DEF Trim
  <2> QED
    BY <1>1, <2>1 DEF Inv, Caches
<1>3. CASE UNCHANGED <<pending, job, main, back>>
  BY <1>1, <1>2, <1>3, Untouched DEF Inv, workerVars, mainVars
<1>4. CASE /\ job' = CancelAll({pending[k] : k \in Unclaimed})
           /\ pending' = [k \in Key |-> IF k \in Unclaimed THEN NoJob ELSE pending[k]]
           /\ main' = "trim" /\ back' = main
  <2> DEFINE js == {pending[k] : k \in Unclaimed}
  <2>1. Unclaimed \in SUBSET Key
    BY DEF Unclaimed, Pending
  <2>2. want # NoJob => wanted \notin Unclaimed
    BY DEF Inv, WantedJob, Unclaimed
  <2>3. \A k \in Key \ Unclaimed : pending[k] # NoJob => pending[k] \in Job /\ pending[k] \notin js
    BY DEF Inv, MainTypes, Unclaimed, Pending
  <2>4. job' = CancelAll(js)
    BY <1>4
  <2> HIDE DEF js
  <2>5. /\ JobTypes'
        /\ \A k \in Key \ Unclaimed : pending[k] # NoJob => job'[pending[k]] = job[pending[k]]
    BY <2>3, <2>4, CancelFacts DEF Inv, JobTypes
  <2>6. \A i \in Job : /\ job'[i].state = "Running" <=> job[i].state = "Running"
                       /\ job'[i].state = "Queued" => job[i].state = "Queued" /\ job'[i] = job[i]
    BY <2>4, CancelFacts DEF Inv
  <2>7. \A i \in Job : job'[i].cancelled => job'[i].state # "Queued"
    BY <2>6 DEF Inv, CancelledJobs
  <2> QED
    BY <1>1, <1>2, <1>4, <2>1, <2>2, <2>5, <2>6, <2>7, ForgetKeeps
<1> QED
  BY <1>3, <1>4 DEF Trim

LEMMA DropKeeps == ASSUME Inv, NEW k \in Key, Drop(k) PROVE Inv'
<1>1. /\ main = "idle" /\ UNCHANGED <<q, workerVars, mainVars>>
      /\ images' = [images EXCEPT ![k] = "absent"] /\ rejected' = rejected \ {k}
      /\ pending' = [pending EXCEPT ![k] = NoJob]
  BY DEF Drop
<1>2. Caches'
  BY <1>1 DEF Inv, Caches
<1>3. want = NoJob
  BY <1>1 DEF Inv, WantedJob, Wanting
<1>4. pending' = [i \in Key |-> IF i \in {k} THEN NoJob ELSE pending[i]]
  BY <1>1 DEF Inv, MainTypes
<1> DEFINE all == CancelAll({pending[k]})
<1>5. /\ \A j \in Job : all[j] = IF j = pending[k] THEN CancelledRecord(job[j]) ELSE job[j]
      /\ \A j \in Job : job'[j] = [all[j] EXCEPT !.outdated = @ \/ all[j].key = k]
      /\ job' = [j \in Job |-> [all[j] EXCEPT !.outdated = @ \/ all[j].key = k]]
  <2>1. \A j \in Job : all[j] = IF j = pending[k] THEN CancelledRecord(job[j]) ELSE job[j]
    BY DEF CancelAll
  <2>2. job' = [j \in Job |->
          LET r == IF j = pending[k] THEN CancelledRecord(job[j]) ELSE job[j]
          IN  [r EXCEPT !.outdated = @ \/ r.key = k]]
    BY DEF Drop
  <2> QED
    BY <2>1, <2>2
<1>6. /\ all \in [Job -> JobRecord]
      /\ \A j \in Job :
            /\ j # pending[k] => all[j] = job[j]
            /\ all[j].key = job[j].key
            /\ all[j].state = "Running" <=> job[j].state = "Running"
            /\ all[j].state = "Queued" => job[j].state = "Queued" /\ j # pending[k]
  BY CancelFacts DEF Inv
<1> HIDE DEF all
<1>7. \A j \in Job : /\ job'[j] \in JobRecord
                     /\ job'[j].state = all[j].state
                     /\ job'[j].cancelled = all[j].cancelled
                     /\ all[j].key # k => job'[j] = all[j]
  <2> TAKE j \in Job
  <2>1. all[j] \in JobRecord /\ job'[j] = [all[j] EXCEPT !.outdated = @ \/ all[j].key = k]
    BY <1>5, <1>6
  <2>2. job'[j] \in JobRecord
    BY <2>1 DEF JobRecord
  <2>3. job'[j].state = all[j].state /\ job'[j].cancelled = all[j].cancelled
    BY <2>1 DEF JobRecord
  <2>4. ASSUME all[j].key # k PROVE job'[j] = all[j]
    <3>1. (all[j].outdated \/ all[j].key = k) = all[j].outdated
      BY <2>1, <2>4 DEF JobRecord
    <3> QED
      BY <2>1, <3>1 DEF JobRecord
  <2> QED
    BY <2>2, <2>3, <2>4
<1>8. JobTypes'
  BY <1>5, <1>7 DEF JobTypes
<1>9. \A j \in Job : /\ job'[j].state = "Running" <=> job[j].state = "Running"
                     /\ job'[j].cancelled => job'[j].state # "Queued"
                     /\ job'[j].state = "Queued" => job[j].state = "Queued"
  <2> TAKE j \in Job
  <2>1. job'[j].state = "Queued" => job[j].state = "Queued" /\ all[j] = job[j]
    BY <1>6, <1>7
  <2> QED
    BY <1>6, <1>7, <2>1 DEF Inv, CancelledJobs
<1>10. ASSUME NEW i \in Key \ {k}, pending[i] # NoJob PROVE job'[pending[i]] = job[pending[i]]
  <2>1. pending[i] \in Job /\ job[pending[i]].key = i
    BY <1>10 DEF Inv, PendingJobs, MainTypes
  <2>2. pending[i] # pending[k]
    BY <1>10, <2>1 DEF Inv, PendingJobs
  <2> QED
    BY <1>6, <1>7, <2>1, <2>2
<1> QED
  BY ZenonT(30), <1>1, <1>2, <1>3, <1>4, <1>8, <1>9, <1>10, ForgetKeeps DEF mainVars, Inv, MainTypes, Waiting

LEMMA ClearKeeps == ASSUME Inv, Clear PROVE Inv'
<1> DEFINE all == CancelAll({pending[k] : k \in Pending})
<1>1. /\ main = "clear" /\ main' = "clearQueue"
      /\ UNCHANGED <<q, workerVars, want, wanted, fresh, back>>
      /\ images' = [k \in Key |-> "absent"] /\ rejected' = {}
      /\ pending' = [k \in Key |-> NoJob]
      /\ job' = [j \in Job |-> [all[j] EXCEPT !.outdated = TRUE]]
  BY DEF Clear
<1>2. Caches' /\ want = NoJob
  BY <1>1 DEF Caches, Inv, WantedJob, Wanting
<1>3. pending' = [i \in Key |-> IF i \in Key THEN NoJob ELSE pending[i]]
  BY <1>1
<1>4. /\ all \in [Job -> JobRecord]
      /\ \A j \in Job :
            /\ all[j].state = "Running" <=> job[j].state = "Running"
            /\ all[j].state = "Queued" => job[j].state = "Queued" /\ all[j] = job[j]
  BY CancelFacts DEF Inv
<1> HIDE DEF all
<1>5. \A j \in Job : /\ job'[j] \in JobRecord
                     /\ job'[j].state = all[j].state
                     /\ job'[j].cancelled = all[j].cancelled
  <2> TAKE j \in Job
  <2>1. all[j] \in JobRecord /\ job'[j] = [all[j] EXCEPT !.outdated = TRUE]
    BY <1>1, <1>4
  <2> QED
    BY <2>1 DEF JobRecord
<1>6. JobTypes'
  BY <1>1, <1>5 DEF JobTypes
<1>7. \A j \in Job : /\ job'[j].state = "Running" <=> job[j].state = "Running"
                     /\ job'[j].cancelled => job'[j].state # "Queued"
                     /\ job'[j].state = "Queued" => job[j].state = "Queued"
  BY <1>4, <1>5 DEF Inv, CancelledJobs
<1>8. back' \in {"idle", "wait", "load"}
  BY <1>1 DEF Inv, MainTypes, Waiting
<1> QED
  BY <1>1, <1>2, <1>3, <1>6, <1>7, <1>8, ForgetKeeps

LEMMA FetchKeeps == ASSUME Inv, Fetch PROVE Inv'
<1>1. /\ worker = "none" /\ worker' = "start" /\ q # <<>> /\ cur' = Head(q) /\ q' = Tail(q)
      /\ UNCHANGED <<pending, job, quit, cacheVars, mainVars>>
  BY DEF Fetch
<1>2. q \in Seq(Job) /\ IsInjective(q) /\ cur = NoJob
  BY <1>1 DEF Inv, WorkTypes, Queue, WorkersJob, Busy
<1>3. /\ cur' \in Job /\ q' \in Seq(Job) /\ ToSet(q) = ToSet(q') \cup {cur'}
      /\ IsInjective(q') /\ cur' \notin ToSet(q')
  BY <1>1, <1>2, TailFacts
<1>4. ToSet(q)' = ToSet(q') /\ IsInjective(q)' = IsInjective(q')
  BY DEF ToSet, IsInjective
<1>5. cur' # NoJob
  BY <1>3, ConstantFacts
<1>6. WorkTypes'
  BY <1>1, <1>3 DEF Inv, WorkTypes
<1>7. FreshJob'
  BY <1>1, <1>3, <1>4 DEF Inv, FreshJob, mainVars
<1>8. WorkersJob'
  BY <1>1, <1>5 DEF Inv, WorkersJob, Busy
<1>9. Queue'
  BY <1>3, <1>4 DEF Queue
<1>10. Reached'
  <2>1. ASSUME NEW k \in Key, main # "clear", pending[k] # NoJob, job[pending[k]].state = "Queued"
        PROVE  pending[k] \in ToSet(q') \cup {cur', fresh}
    BY <1>2, <1>3, <2>1 DEF Inv, Reached
  <2> QED
    BY <1>1, <1>4, <2>1 DEF Inv, Reached, mainVars
<1>11. First'
  BY <1>1, <1>3, <1>4 DEF Inv, First, mainVars
<1> QED
  BY <1>1, <1>6, <1>7, <1>8, <1>9, <1>10, <1>11, Untouched DEF Inv, mainVars

\* The worker changes its own job and nothing else; it leaves it Ready.
LEMMA WorkKeeps ==
    ASSUME Inv, cur # NoJob, JobTypes',
           \A i \in Job : i # cur => job'[i] = job[i],
           job'[cur].key = job[cur].key, job'[cur].speculative = job[cur].speculative,
           job'[cur].claimed = job[cur].claimed, job'[cur].outdated = job[cur].outdated,
           job'[cur].cancelled => job[cur].cancelled \/ job[cur].speculative,
           UNCHANGED <<pending, q, cacheVars, mainVars>>, quit' \in BOOLEAN,
           \/ cur' = cur /\ worker' \in Busy /\ job'[cur].state = "Running"
           \/ cur' = NoJob /\ worker' \in {"none", "dead"} /\ job'[cur].state = "Ready"
    PROVE  Inv'
<1>1. cur \in Job /\ cur \notin ToSet(q) /\ cur # fresh
  BY DEF Inv, WorkTypes, Queue, FreshJob
<1>2. ToSet(q)' = ToSet(q) /\ ToSet(q) \subseteq Job
  BY QueueOfJobs DEF ToSet, Inv, WorkTypes
<1>3. WorkTypes'
  BY <1>1 DEF Inv, WorkTypes, Busy
<1>4. \A i \in Job : /\ job'[i].key = job[i].key /\ job'[i].speculative = job[i].speculative
                     /\ job'[i].claimed = job[i].claimed
                     /\ job'[i].outdated = job[i].outdated
                     /\ job'[i].cancelled => job[i].cancelled \/ job[i].speculative
                     /\ job'[i].state = "Queued" => job[i].state = "Queued" /\ i # cur
  OBVIOUS
<1>5. PendingJobs'
  <2>1. ASSUME NEW k \in Key, pending[k] # NoJob
        PROVE  /\ job'[pending[k]].key = k
               /\ ~job'[pending[k]].outdated
               /\ job'[pending[k]].cancelled => job'[pending[k]].speculative
               /\ job'[pending[k]].claimed => pending[k] = want /\ k = wanted
    <3>1. pending[k] \in Job
      BY <2>1 DEF Inv, MainTypes
    <3>2. /\ job[pending[k]].key = k /\ ~job[pending[k]].outdated
          /\ job[pending[k]].cancelled => job[pending[k]].speculative
          /\ job[pending[k]].claimed => pending[k] = want /\ k = wanted
      BY <2>1 DEF Inv, PendingJobs
    <3> QED
      BY <1>4, <3>1, <3>2
  <2> QED
    BY <2>1 DEF PendingJobs, mainVars
<1>6. WantedJob'
  <2>1. want # NoJob => want \in Job
    BY DEF Inv, MainTypes
  <2> QED
    BY <1>4, <2>1 DEF Inv, WantedJob, Wanting, mainVars
<1>7. FreshJob'
  <2>1. fresh # NoJob => fresh \in Job /\ job'[fresh] = job[fresh]
    BY <1>1 DEF Inv, MainTypes
  <2> QED
    BY <1>2, <2>1 DEF Inv, FreshJob, mainVars
<1>8. WorkersJob'
  <2>1. \A i \in Job \ {cur} : job'[i].state # "Running"
    BY DEF Inv, WorkersJob
  <2>2. CASE cur' = cur /\ worker' \in Busy /\ job'[cur].state = "Running"
    BY <2>1, <2>2 DEF WorkersJob
  <2>3. CASE cur' = NoJob /\ worker' \in {"none", "dead"} /\ job'[cur].state = "Ready"
    BY <2>1, <2>3 DEF WorkersJob, Busy
  <2> QED
    BY <2>2, <2>3
<1>9. CancelledJobs'
  BY DEF Inv, CancelledJobs
<1>10. Queue'
  <2>1. cur' \notin ToSet(q)
    BY <1>1, <1>2, ConstantFacts
  <2>2. IsInjective(q)' = IsInjective(q)
    BY DEF IsInjective
  <2> QED
    BY <1>2, <2>1, <2>2 DEF Inv, Queue
<1>11. Reached'
  <2>1. ASSUME NEW k \in Key, main # "clear", pending[k] # NoJob, job'[pending[k]].state = "Queued"
        PROVE  pending[k] \in ToSet(q) \cup {cur', fresh}
    <3>1. pending[k] \in Job
      BY <2>1 DEF Inv, MainTypes
    <3>2. job[pending[k]].state = "Queued" /\ pending[k] # cur
      BY <1>4, <2>1, <3>1
    <3> QED
      BY <2>1, <3>2 DEF Inv, Reached
  <2> QED
    BY <1>2, <2>1 DEF Inv, Reached, mainVars
<1>12. MainTypes' /\ Caches' /\ First'
  BY Untouched DEF mainVars
<1> QED
  BY <1>3, <1>5, <1>6, <1>7, <1>8, <1>9, <1>10, <1>11, <1>12 DEF Inv

LEMMA WorkerKeeps ==
    ASSUME Inv, Start \/ Allow \/ Build \/ Publish \/ Terminate PROVE Inv'
<1>1. /\ cur \in Job /\ cur # NoJob
      /\ worker \in Busy => job[cur].state = "Running"
      /\ worker = "start" /\ job[cur].state # "Queued" => job[cur].state = "Ready"
  <2>1. worker \in Busy \cup {"start"}
    BY DEF Start, Allow, Build, Publish, Terminate, Busy
  <2>2. cur \in Job /\ cur # NoJob
    BY <2>1 DEF Inv, WorkersJob, WorkTypes
  <2>3. worker = "start" => job[cur].state # "Running"
    BY <2>2 DEF Inv, WorkersJob, Busy
  <2> QED
    BY <2>2, <2>3, JobFields DEF Inv, WorkersJob
<1>2. job \in [Job -> JobRecord] /\ job[cur] \in JobRecord
  BY <1>1 DEF Inv, JobTypes
<1>3. UNCHANGED <<pending, q, cacheVars, mainVars>> /\ quit' \in BOOLEAN
  BY DEF Start, Allow, Build, Publish, Terminate, Inv, WorkTypes
<1>4. PICK r \in JobRecord :
         /\ job' = [job EXCEPT ![cur] = r]
         /\ r.key = job[cur].key /\ r.speculative = job[cur].speculative
         /\ r.claimed = job[cur].claimed /\ r.outdated = job[cur].outdated
         /\ r.cancelled => job[cur].cancelled \/ job[cur].speculative
         /\ \/ cur' = cur /\ worker' \in Busy /\ r.state = "Running"
            \/ cur' = NoJob /\ worker' \in {"none", "dead"} /\ r.state = "Ready"
  <2>1. job = [job EXCEPT ![cur] = job[cur]]
    BY <1>1, <1>2
  <2>2. CASE Start
    <3>1. CASE job[cur].state = "Queued"
      <4> DEFINE r == [job[cur] EXCEPT !.state = "Running"]
      <4>1. r \in JobRecord /\ r.state = "Running" /\ r.key = job[cur].key
            /\ r.speculative = job[cur].speculative /\ r.claimed = job[cur].claimed
            /\ r.outdated = job[cur].outdated /\ r.cancelled = job[cur].cancelled
        BY <1>2 DEF JobRecord
      <4>2. job' = [job EXCEPT ![cur] = r] /\ cur' = cur /\ worker' = "allow"
        BY <2>2, <3>1 DEF Start
      <4> QED
        BY <4>1, <4>2 DEF Busy
    <3>2. CASE job[cur].state # "Queued"
      <4>1. job' = job /\ cur' = NoJob /\ worker' = "none" /\ job[cur].state = "Ready"
        BY <1>1, <2>2, <3>2 DEF Start
      <4> QED
        BY <1>2, <2>1, <4>1
    <3> QED
      BY <3>1, <3>2
  <2>3. CASE Allow \/ Build
    <3>1. /\ job[cur].state = "Running" /\ cur' = cur /\ worker' \in Busy
          /\ \/ job' = job
             \/ job[cur].speculative /\ job' = [job EXCEPT ![cur].cancelled = TRUE]
             \/ job' = [job EXCEPT ![cur].surface = TRUE]
      BY <1>1, <2>3 DEF Allow, Build, Busy
    <3>2. CASE job' = job
      BY <1>2, <2>1, <3>1, <3>2
    <3>3. CASE job[cur].speculative /\ job' = [job EXCEPT ![cur].cancelled = TRUE]
      <4> DEFINE r == [job[cur] EXCEPT !.cancelled = TRUE]
      <4>1. r \in JobRecord /\ r.state = job[cur].state /\ r.key = job[cur].key
            /\ r.speculative = job[cur].speculative /\ r.claimed = job[cur].claimed
            /\ r.outdated = job[cur].outdated
        BY <1>2 DEF JobRecord
      <4>2. job' = [job EXCEPT ![cur] = r]
        BY <3>3
      <4> QED
        BY <3>1, <3>3, <4>1, <4>2
    <3>4. CASE job' = [job EXCEPT ![cur].surface = TRUE]
      <4> DEFINE r == [job[cur] EXCEPT !.surface = TRUE]
      <4>1. r \in JobRecord /\ r.state = job[cur].state /\ r.key = job[cur].key
            /\ r.speculative = job[cur].speculative /\ r.claimed = job[cur].claimed
            /\ r.outdated = job[cur].outdated /\ r.cancelled = job[cur].cancelled
        BY <1>2 DEF JobRecord
      <4>2. job' = [job EXCEPT ![cur] = r]
        BY <3>4
      <4> QED
        BY <3>1, <4>1, <4>2
    <3> QED
      BY <3>1, <3>2, <3>3, <3>4
  <2>4. CASE Publish \/ Terminate
    <3> DEFINE r == [job[cur] EXCEPT !.state = "Ready"]
    <3>1. r \in JobRecord /\ r.state = "Ready" /\ r.key = job[cur].key
          /\ r.speculative = job[cur].speculative /\ r.claimed = job[cur].claimed
          /\ r.outdated = job[cur].outdated /\ r.cancelled = job[cur].cancelled
      BY <1>2 DEF JobRecord
    <3>2. job' = [job EXCEPT ![cur] = r] /\ cur' = NoJob /\ worker' \in {"none", "dead"}
      BY <2>4 DEF Publish, Terminate
    <3> QED
      BY <3>1, <3>2
  <2> QED
    BY <2>2, <2>3, <2>4
<1>5. job'[cur] = r /\ JobTypes' /\ \A i \in Job : i # cur => job'[i] = job[i]
  BY <1>1, <1>2, <1>4 DEF JobTypes
<1> QED
  BY <1>1, <1>3, <1>4, <1>5, WorkKeeps

LEMMA InvStep == Inv /\ [Next]_vars => Inv'
<1> SUFFICES ASSUME Inv, [Next]_vars PROVE Inv'
  OBVIOUS
<1>1. CASE Progress
  BY <1>1, ErasesKeep, PushKeeps, MainMoves, TakeReadyKeeps, ClearsKeep, ClearKeeps DEF Progress
<1>2. CASE Choice
  BY <1>2, MainMoves, TrimKeeps, RequestsKeep, ClaimKeeps, ServiceKeeps, DropKeeps DEF Choice
<1>3. CASE Work
  BY <1>3, FetchKeeps, WorkerKeeps DEF Work
<1>4. CASE UNCHANGED vars
  BY <1>4, Untouched DEF Inv, vars, jobVars, cacheVars, workerVars, mainVars
<1> QED
  BY <1>1, <1>2, <1>3, <1>4 DEF Next, Over

LEMMA InvAlways == Spec => []Inv
BY InvInit, InvStep, PTL DEF Spec

-----------------------------------------------------------------------------

\* The state stays well typed.
THEOREM TypeCorrect == Spec => []TypeOK
BY InvAlways, InvImplies, PTL

\* Whatever trims cancel while setupAnimationInfo runs frames, the job it waits
\* for stays pending, and is queued, or in the worker's hands, or Ready.
THEOREM WaiterServedCorrect == Spec => []WaiterServed
BY InvAlways, InvImplies, PTL

\* While setupAnimationInfo waits, no speculation is ahead of its job in the
\* queue, although claims, erasures and new jobs reorder it.
THEOREM DemandFirstCorrect == Spec => []DemandFirst
BY InvAlways, InvImplies, PTL

\* The only claimed job among the pending ones is the one that is waited for, so
\* none stays behind to block its asset's key.
THEOREM ClaimedIsWantedCorrect == Spec => []ClaimedIsWanted
BY InvAlways, InvImplies, PTL

\* dropCache and clearImageAssets leave no job whose late result would put what
\* they dropped back into the cache.
THEOREM NothingOutdatedCorrect == Spec => []NothingOutdated
BY InvAlways, InvImplies, PTL
=============================================================================
