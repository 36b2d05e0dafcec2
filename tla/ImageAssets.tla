----------------------------- MODULE ImageAssets -----------------------------
(***************************************************************************)
(* Preparation of sprite images: Engine/Components/ImageAssets.cpp and the *)
(* demand load of ONScripter::setupAnimationInfo.  The main (render) thread*)
(* owns the cache, the pending jobs and everything but a job's atomics and *)
(* its surface, which belong to the worker until the job is Ready.         *)
(*                                                                         *)
(* The instruction queue between them is the WorkQueue that AsyncQueue     *)
(* implements: q, and the job the worker has taken from it.  A critical    *)
(* section of the queue's lock is one step.                                *)
(***************************************************************************)
EXTENDS Naturals, Sequences, FiniteSets, SequencesExt, Subsequence

CONSTANTS
    Key,         \* asset keys: file, mask and transparency mode
    Job,         \* ImageAssetJob objects; one is made again once unreferenced
    NoJob,       \* a null shared_ptr
    NoKey,       \* no asset in hand
    MaxPending   \* ImageAssets::MaxPending

ASSUME ConstantsAssumption ==
    NoJob \notin Job /\ NoKey \notin Key /\ MaxPending \in Nat \ {0}

VARIABLES
    pending,    \* key -> job being prepared
    images,     \* key -> what is cached, and whether it predates a drop
    rejected,   \* keys whose speculation failed
    job,        \* the jobs
    q,          \* imageAssetQueue.q
    cur,        \* the job whose instruction the worker executes
    worker,     \* where the worker is in prepareImageAsset
    main,       \* where the main thread is
    want,       \* the job setupAnimationInfo waits for
    wanted,     \* ... and its asset key
    fresh,      \* the job prepareImage is about to queue
    back,       \* where main returns to after a trim
    quit        \* exitCode has been set by the worker

jobVars == <<pending, job, q>>
cacheVars == <<images, rejected>>
workerVars == <<cur, worker, quit>>
mainVars == <<main, want, wanted, fresh, back>>
vars == <<jobVars, cacheVars, workerVars, mainVars>>

\* outdated is a history bit: the asset was dropped after the job was made.
JobRecord == [key : Key, state : {"Queued", "Running", "Ready"},
              cancelled : BOOLEAN, speculative : BOOLEAN, claimed : BOOLEAN,
              surface : BOOLEAN, outdated : BOOLEAN]

\* Places where setupAnimationInfo has a job it wants and runs frames.
Waiting == {"wait", "load"}

TypeOK ==
    /\ pending \in [Key -> Job \cup {NoJob}]
    /\ images \in [Key -> {"absent", "current", "outdated"}]
    /\ rejected \subseteq Key
    /\ job \in [Job -> JobRecord]
    /\ q \in Seq(Job)
    /\ cur \in Job \cup {NoJob}
    /\ worker \in {"none", "start", "allow", "build", "publish", "dead"}
    /\ main \in {"idle", "erase", "push", "window", "trim", "endThreads", "clear",
                 "clearQueue", "over"} \cup Waiting
    /\ want \in Job \cup {NoJob}
    /\ wanted \in Key \cup {NoKey}
    /\ fresh \in Job \cup {NoJob}
    /\ back \in {"idle"} \cup Waiting
    /\ quit \in BOOLEAN

Pending == {k \in Key : pending[k] # NoJob}
Unclaimed == {k \in Pending : ~job[pending[k]].claimed}
Referenced == {pending[k] : k \in Key} \cup ToSet(q) \cup {cur, want, fresh}
Unreferenced == Job \ Referenced
Cancelled(j) == job[j].cancelled

Init ==
    /\ pending = [k \in Key |-> NoJob]
    /\ images = [k \in Key |-> "absent"]
    /\ rejected = {}
    /\ job \in {[j \in Job |-> [key |-> k, state |-> "Ready", cancelled |-> FALSE,
                                speculative |-> FALSE, claimed |-> FALSE,
                                surface |-> FALSE, outdated |-> FALSE]] :
                   k \in Key}
    /\ q = <<>>
    /\ cur = NoJob /\ worker = "none" /\ quit = FALSE
    /\ main = "idle" /\ want = NoJob /\ fresh = NoJob /\ back = "idle"
    /\ wanted = NoKey

-----------------------------------------------------------------------------
(* ImageAssetJob.                                                          *)

\* cancel(): a queued job becomes Ready at once, as nobody will run it.
CancelledRecord(r) ==
    [r EXCEPT !.cancelled = TRUE,
              !.state = IF @ = "Queued" THEN "Ready" ELSE @]

CancelAll(js) ==
    [j \in Job |-> IF j \in js THEN CancelledRecord(job[j]) ELSE job[j]]

\* ImageAssets::put: admission evicts some images and may still decline.
Put(k, isOutdated) ==
    \E gone \in SUBSET (Key \ {k}), admitted \in BOOLEAN :
        images' = [i \in Key |->
            IF i = k /\ images[k] = "absent" /\ admitted
              THEN IF isOutdated THEN "outdated" ELSE "current"
            ELSE IF i \in gone /\ images[k] = "absent" THEN "absent"
            ELSE images[i]]

\* The end of setupAnimationInfo: preventExit(FALSE) quits if a worker has asked
\* for it, else the image is offered to the cache.
Return(offer) ==
    /\ wanted' = NoKey
    /\ \/ quit' /\ main' = "over" /\ UNCHANGED images
       \/ ~quit' /\ main' = "idle" /\ offer

-----------------------------------------------------------------------------
(* Faulty variants of the operations below; each breaks a property.        *)

\* A claimed job is left where it is in the queue.
ClaimWithoutRotate(k) ==
    /\ main = "idle"
    /\ images[k] = "absent" /\ pending[k] # NoJob
    /\ job' = [job EXCEPT ![pending[k]].claimed = TRUE]
    /\ want' = pending[k] /\ wanted' = k /\ main' = "window"
    /\ UNCHANGED <<pending, q, cacheVars, workerVars, fresh, back>>

\* cancelPrefetch without regard to who waits.
TrimRegardless ==
    /\ main \in {"idle"} \cup Waiting
    /\ \E gone \in SUBSET Key :
          images' = [k \in Key |-> IF k \in gone THEN "absent" ELSE images[k]]
    /\ job' = CancelAll({pending[k] : k \in Pending})
    /\ pending' = [k \in Key |-> NoJob]
    /\ main' = "trim" /\ back' = main
    /\ UNCHANGED <<q, rejected, workerVars, want, wanted, fresh>>

\* dropCache forgetting the jobs in flight.
DropWithoutPending(k) ==
    /\ main = "idle"
    /\ images' = [images EXCEPT ![k] = "absent"]
    /\ rejected' = rejected \ {k}
    /\ job' = [j \in Job |-> IF job[j].key = k THEN [job[j] EXCEPT !.outdated = TRUE]
                                               ELSE job[j]]
    /\ UNCHANGED <<pending, q, workerVars, mainVars>>

\* queue() pushing the pointer it has moved from.
PushMoved ==
    /\ main = "push"
    /\ fresh' = NoJob
    /\ q' = IF job[fresh].speculative THEN Append(q, fresh') ELSE <<fresh'>> \o q
    /\ main' = "window"
    /\ UNCHANGED <<pending, job, cacheVars, workerVars, want, wanted, back>>

\* prepareImageAsset letting ThreadTerminate pass without finish().
TerminateWithoutFinish ==
    /\ worker = "build"
    /\ ~job[cur].speculative /\ ~Cancelled(cur)
    /\ worker' = "dead" /\ cur' = NoJob /\ quit' = TRUE
    /\ UNCHANGED <<jobVars, cacheVars, mainVars>>

\* setupAnimationInfo leaving the job in `pending` when it has its pixels.
TakeWithoutErase ==
    /\ main = "wait"
    /\ job[want].state = "Ready"
    /\ job' = [job EXCEPT ![want].surface = FALSE]
    /\ want' = NoJob
    /\ UNCHANGED workerVars
    /\ \/ /\ job[want].surface
          /\ Return(Put(wanted, job[want].outdated))
       \/ /\ ~job[want].surface
          /\ main' = "load"
          /\ UNCHANGED <<images, wanted>>
    /\ UNCHANGED <<pending, q, rejected, fresh, back>>

-----------------------------------------------------------------------------
(* The main thread: requestImageAsset.                                     *)

\* A new job, in `pending` and about to be handed to prepareImage.
NewJob(k, isSpeculative) ==
    \E j \in Unreferenced :
        /\ fresh' = j
        /\ pending' = [pending EXCEPT ![k] = j]
        /\ job' = [job EXCEPT ![j] =
              [key |-> k, state |-> "Queued", cancelled |-> FALSE,
               speculative |-> isSpeculative, claimed |-> ~isSpeculative,
               surface |-> FALSE, outdated |-> FALSE]]
        /\ main' = "erase"

\* setupAnimationInfo finds no cached image: a job on demand ...
Demand(k) ==
    /\ main = "idle"
    /\ images[k] = "absent" /\ pending[k] = NoJob
    /\ Unreferenced # {}
    /\ NewJob(k, FALSE)
    /\ want' = fresh' /\ wanted' = k
    /\ UNCHANGED <<q, cacheVars, workerVars, back>>

\* ... or the speculative one, claimed and brought to the front of the queue.
Claim(k) ==
    /\ main = "idle"
    /\ images[k] = "absent" /\ pending[k] # NoJob
    /\ job' = [job EXCEPT ![pending[k]].claimed = TRUE]
    /\ IF pending[k] \in ToSet(q)
         THEN \E rest \in Remaining(q, Job \ {pending[k]}) : q' = <<pending[k]>> \o rest
         ELSE UNCHANGED q
    /\ want' = pending[k] /\ wanted' = k /\ main' = "window"
    /\ UNCHANGED <<pending, cacheVars, workerVars, fresh, back>>

\* prefetchImageAssets, one upcoming sprite.
Prefetch(k) ==
    /\ main = "window"
    /\ images[k] = "absent" /\ k \notin rejected /\ pending[k] = NoJob
    /\ Cardinality(Pending) < MaxPending
    /\ Unreferenced # {}
    /\ NewJob(k, TRUE)
    /\ UNCHANGED <<q, cacheVars, workerVars, want, wanted, back>>

PrefetchDone ==
    /\ main = "window"
    /\ main' = "wait"
    /\ UNCHANGED <<jobVars, cacheVars, workerVars, want, wanted, fresh, back>>

\* prepareImage: one critical section drops cancelled jobs, the next queues.
EraseCancelled ==
    /\ main = "erase"
    /\ q' \in Remaining(q, {j \in Job : ~Cancelled(j)})
    /\ main' = "push"
    /\ UNCHANGED <<pending, job, cacheVars, workerVars, want, wanted, fresh, back>>

\* queue() also replaces a worker that has left, unless it still says running.
Push ==
    /\ main = "push"
    /\ q' = IF job[fresh].speculative THEN Append(q, fresh) ELSE <<fresh>> \o q
    /\ fresh' = NoJob
    /\ main' = "window"
    /\ worker' \in IF worker = "dead" THEN {"dead", "none"} ELSE {worker}
    /\ UNCHANGED <<pending, job, cacheVars, cur, quit, want, wanted, back>>

-----------------------------------------------------------------------------
(* The main thread: the rest of setupAnimationInfo.                        *)

\* The job is ready: its pixels are taken, or the ordinary loader is asked.
TakeReady ==
    /\ main = "wait"
    /\ job[want].state = "Ready"
    /\ pending' = [pending EXCEPT ![wanted] = NoJob]
    /\ job' = [job EXCEPT ![want].surface = FALSE]
    /\ want' = NoJob
    /\ UNCHANGED workerVars
    /\ \/ /\ job[want].surface
          /\ Return(Put(wanted, job[want].outdated))
       \/ /\ ~job[want].surface
          /\ main' = "load"
          /\ UNCHANGED <<images, wanted>>
    /\ UNCHANGED <<q, rejected, fresh, back>>

\* The loadImage queue delivers an image, or none, or its worker terminates.
Loaded ==
    /\ main = "load"
    /\ quit' \in {quit, TRUE}
    /\ Return(Put(wanted, FALSE) \/ UNCHANGED images)
    /\ UNCHANGED <<jobVars, rejected, cur, worker, want, fresh, back>>

-----------------------------------------------------------------------------
(* The main thread, in the frames it runs while idle or waiting.           *)

\* serviceImageAssets: one finished speculative job a frame.  The upload may be
\* declined by the memory budget, which drops the job.
Service(k) ==
    /\ main \in {"idle"} \cup Waiting
    /\ pending[k] # NoJob
    /\ ~job[pending[k]].claimed /\ job[pending[k]].state = "Ready"
    /\ pending' = [pending EXCEPT ![k] = NoJob]
    /\ \/ /\ Cancelled(pending[k])
          /\ UNCHANGED cacheVars
       \/ /\ ~Cancelled(pending[k]) /\ ~job[pending[k]].surface
          /\ rejected' = rejected \cup {k}
          /\ UNCHANGED images
       \/ /\ ~Cancelled(pending[k]) /\ job[pending[k]].surface
          /\ Put(k, job[pending[k]].outdated)
          /\ UNCHANGED rejected
    /\ UNCHANGED <<job, q, workerVars, mainVars>>

\* serviceMemoryBudget: images are evicted; under pressure the jobs nobody
\* waits for are cancelled first (cancelPrefetch) ...
Trim ==
    /\ main \in {"idle"} \cup Waiting
    /\ \E gone \in SUBSET Key :
          images' = [k \in Key |-> IF k \in gone THEN "absent" ELSE images[k]]
    /\ \/ UNCHANGED <<pending, job, main, back>>
       \/ /\ job' = CancelAll({pending[k] : k \in Unclaimed})
          /\ pending' = [k \in Key |-> IF k \in Unclaimed THEN NoJob ELSE pending[k]]
          /\ main' = "trim" /\ back' = main
    /\ UNCHANGED <<q, rejected, workerVars, want, wanted, fresh>>

\* ... and their instructions erased, under the queue's lock.
TrimQueue ==
    /\ main = "trim"
    /\ q' \in Remaining(q, {j \in Job : ~Cancelled(j)})
    /\ main' = back /\ back' = "idle"
    /\ UNCHANGED <<pending, job, cacheVars, workerVars, want, wanted, fresh>>

\* dropCache: the file's image, job and rejection.
Drop(k) ==
    /\ main = "idle"
    /\ images' = [images EXCEPT ![k] = "absent"]
    /\ rejected' = rejected \ {k}
    /\ pending' = [pending EXCEPT ![k] = NoJob]
    /\ job' = [j \in Job |->
          LET r == IF j = pending[k] THEN CancelledRecord(job[j]) ELSE job[j]
          IN  [r EXCEPT !.outdated = @ \/ r.key = k]]
    /\ UNCHANGED <<q, workerVars, mainVars>>

-----------------------------------------------------------------------------
(* The main thread: resetSub.                                              *)

Reset ==
    /\ main = "idle"
    /\ main' = "endThreads"
    /\ UNCHANGED <<jobVars, cacheVars, workerVars, want, wanted, fresh, back>>

\* endThreads joins the worker and clears its queue.
EndThreads ==
    /\ main = "endThreads"
    /\ worker = "none"
    /\ q' = <<>>
    /\ main' = "clear"
    /\ UNCHANGED <<pending, job, cacheVars, workerVars, want, wanted, fresh, back>>

\* clearImageAssets.
Clear ==
    /\ main = "clear"
    /\ job' = [j \in Job |->
          [CancelAll({pending[k] : k \in Pending})[j] EXCEPT !.outdated = TRUE]]
    /\ pending' = [k \in Key |-> NoJob]
    /\ images' = [k \in Key |-> "absent"]
    /\ rejected' = {}
    /\ main' = "clearQueue"
    /\ UNCHANGED <<q, workerVars, want, wanted, fresh, back>>

ClearQueue ==
    /\ main = "clearQueue"
    /\ q' = <<>>
    /\ main' = "idle"
    /\ UNCHANGED <<pending, job, cacheVars, workerVars, want, wanted, fresh, back>>

-----------------------------------------------------------------------------
(* The worker: prepareImageAsset.                                          *)

Fetch ==
    /\ worker = "none"
    /\ q # <<>>
    /\ cur' = Head(q) /\ q' = Tail(q)
    /\ worker' = "start"
    /\ UNCHANGED <<pending, job, quit, cacheVars, mainVars>>

\* start() fails on a job cancelled while it was queued.
Start ==
    /\ worker = "start"
    /\ IF job[cur].state = "Queued"
         THEN /\ job' = [job EXCEPT ![cur].state = "Running"]
              /\ worker' = "allow"
              /\ UNCHANGED cur
         ELSE /\ worker' = "none" /\ cur' = NoJob
              /\ UNCHANGED job
    /\ UNCHANGED <<pending, q, quit, cacheVars, mainVars>>

\* Speculation without an allowance of memory cancels itself.
Allow ==
    /\ worker = "allow"
    /\ \/ UNCHANGED job
       \/ /\ job[cur].speculative
          /\ job' = [job EXCEPT ![cur].cancelled = TRUE]
    /\ worker' = "build"
    /\ UNCHANGED <<pending, q, cur, quit, cacheVars, mainVars>>

\* buildAIImage, unless cancelled: an image or none; a speculation that a small
\* allowance made fail is cancelled rather than rejected.
Build ==
    /\ worker = "build"
    /\ \/ ~Cancelled(cur) /\ job' = [job EXCEPT ![cur].surface = TRUE]
       \/ UNCHANGED job
       \/ job[cur].speculative /\ job' = [job EXCEPT ![cur].cancelled = TRUE]
    /\ worker' = "publish"
    /\ UNCHANGED <<pending, q, cur, quit, cacheVars, mainVars>>

\* finish().
Publish ==
    /\ worker = "publish"
    /\ job' = [job EXCEPT ![cur].state = "Ready"]
    /\ worker' = "none" /\ cur' = NoJob
    /\ UNCHANGED <<pending, q, quit, cacheVars, mainVars>>

\* A demand load may end in an error box and ThreadTerminate; the job is
\* finished first, and the thread is gone.
Terminate ==
    /\ worker = "build"
    /\ ~job[cur].speculative /\ ~Cancelled(cur)
    /\ job' = [job EXCEPT ![cur].state = "Ready"]
    /\ worker' = "dead" /\ cur' = NoJob /\ quit' = TRUE
    /\ UNCHANGED <<pending, q, cacheVars, mainVars>>

-----------------------------------------------------------------------------

Progress ==
    \/ EraseCancelled \/ Push \/ PrefetchDone \/ TakeReady \/ Loaded
    \/ TrimQueue \/ EndThreads \/ Clear \/ ClearQueue

Choice ==
    \/ Reset \/ Trim
    \/ \E k \in Key : Demand(k) \/ Claim(k) \/ Prefetch(k) \/ Service(k) \/ Drop(k)

Work == Fetch \/ Start \/ Allow \/ Build \/ Publish \/ Terminate

Over == main = "over" /\ UNCHANGED vars

Next == Progress \/ Choice \/ Work \/ Over

Spec == Init /\ [][Next]_vars

\* Main finishes what it has begun, and waitForAsync looks at the job again
\* after every frame it runs; the worker is scheduled and decodes end.
FairSpec ==
    /\ Spec
    /\ WF_vars(Progress) /\ SF_vars(TakeReady) /\ SF_vars(Loaded)
    /\ WF_vars(Work)

-----------------------------------------------------------------------------
(* Properties.                                                             *)

\* "A foreground waiter must still receive its completion": the job waited for
\* stays pending and on its way through the queue and the worker, whatever a
\* trim cancels meanwhile; it can only give up by itself, as speculation.
WaiterServed ==
    main \in Waiting \cup {"trim"} /\ want # NoJob =>
        /\ pending[wanted] = want /\ job[want].claimed
        /\ job[want].state = "Queued" => want \in ToSet(q) \cup {cur}
        /\ job[want].state = "Running" => cur = want
        /\ Cancelled(want) => job[want].speculative

\* What the scene waits for is decoded before any speculation in the queue.
DemandFirst ==
    main \in {"window"} \cup Waiting /\ want \in ToSet(q) => Head(q) = want

\* A claimed job is never left behind: the idle service skips it and prefetch
\* counts it, so it would keep its key from being prepared ever again.
ClaimedIsWanted ==
    \A k \in Pending \ Unclaimed : pending[k] = want /\ k = wanted

\* No image prepared before the asset was dropped is cached after.
NothingOutdated == \A k \in Key : images[k] # "outdated"

\* setupAnimationInfo returns, or the engine quits.
DemandReturns == want # NoJob ~> main \in {"idle", "over"}
=============================================================================
