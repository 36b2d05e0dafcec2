# Verification of ONScripter-NEW

TLA+ models of the concurrent core of ONScripter-NEW, the TLC runs that check
them on small instances, and TLAPS proofs of the properties that matter most for
instances of any size. Paths are relative to the repository.

ONScripter-NEW is a visual-novel engine in C++23 (about 67,000 lines of its own).
A *main* thread interprets the script, renders and handles input. Around it run
worker threads that decode images and sounds, demultiplex and decode video, and
collect input events; SDL's mixer calls back on a thread of its own. The
interpreter, the layout of text and the drawing are sequential, but on the main
thread the script and the dialogue it has started take turns like two coroutines.
What is hard to test is how these threads and turns meet, so that is what is
modelled.

## Inventory

| Component | State | Operations | Meets | Hard behaviour | Correct when |
| --- | --- | --- | --- | --- | --- |
| **Instruction queues** `Engine/Components/Async` | per queue: deque, two semaphores, `running`, thread handle, results; `threadShutdownRequested` | `queue`, `asyncLoop`, `endThreads`, `defaultThreadEnd` | every component with background work | worker leaving while work arrives; reset in mid-work; an instruction that throws | one worker, in order, work leaves only by being taken, by main's edit or by the stop, every wait ends |
| **Main-thread wakeup** `Support/WorkScheduler` | generation, condition variable or Windows event | `notify`, `snapshot`, `waitUntil` | all workers, `waitForAsync` | wakeup between test and sleep | no completion is slept through |
| **Sprite images** `Engine/Components/ImageAssets`, `setupAnimationInfo` | pending jobs, texture cache, rejected keys; per job state, cancelled, claimed | request, prefetch, service, trim, drop, clear; the worker's prepare | image-asset queue, memory budget | cancel racing start; trims in frames run while waiting; drop while decoding | the waiter is served, nothing stale is cached, no job is orphaned |
| **Memory budget** `Support/MemoryBudget`, `serviceMemoryBudget` | limit, used, bytes by kind, trim request, restriction; charges shared by leases | reserve, shrink, reclassify, drop, request/take trim, poll | caches, loaders, pools | leases dropped on any thread; requests merged; limit lowered under use | accounting exact, budget kept, pressure served, restriction ends |
| **Media pipeline** `Engine/Media`, `Engine/Layers/Media` | presentation, packet and frame queues with semaphores, decoder count, timing | load, start, demux, decode, show, finish, reset | packet and frame queues, audio callback, media layer | start-up wait for timing; finish during decode; end of stream; dangling decoders | frames in order to the last, bounded queues, loading and finishing end |
| **Subtitle layer** `Engine/Layers/Subtitle` | frame buffer, thread semaphore, flags | start/end decoding, take frame | subtitle worker | handshake with an instruction that may not run | end always returns |
| **Events** `Engine/Core/Event` | fetched queue, local queue, timers | fetch, take out, wait, dispatch | event thread, every waiting command | events arriving while handlers run frames | none lost, none reordered |
| **Sound** `Engine/Core/Sound`, `Support/AudioBridge`, `SDLMixerCompat` | channels, pending volumes, chunks, results | play, stop, fade, callback | play-sound queue, mixer thread | result pairing; lock held across frames | a sound gets its own result; quitting does not deadlock |
| **Resource caches** `Support/Cache`, `External/LRUCache`, `Engine/Core/Image` | LRU sets, cached bytes | add, get, remove, evict | loaders on several threads | check, load, check again | bytes counted equal bytes held |
| **Pools, atlas, ring buffer** `Graphics/Pool`, `Components/GlyphAtlas`, `External/LimitedQueue` | entries and their use | give, take, grow | renderer, dialogue | growth and wrap-around | behaves as set/sequence |
| **Saves** `Engine/Core/File`, `Support/FileIO` | files, temporary files | write, replace, load | interpreter | crash between removal and rename | one complete save remains |
| **Discord presence** `Support/DiscordPresence` | connection, timers, last activity | update, poll, reconnect | main loop | retry against change | last activity is eventually shown |
| **Life cycle** `Engine/Core/ONScripter` | exit code, `canExit`, controllers | reset, requestQuit, preventExit | all | quit asked for on a worker | threads joined first |
| **Dialogue control** `Components/Dialogue`, `executeLabel`, `Entities/ConstantRefresh` | parts of the text, events, two script states, loan, passes, registered waits | start, next part, inline command, loan, expire, end; `d_continue`, `wait_on_d` | interpreter, event loop, text | turns of script and dialogue in any order; waits that expire at any frame | next part comes exactly once; the script's stack survives; inline commands end |
| **Interpreter** `Handlers/Script`, `Core/Parser*`, `Core/Command*` | script position, call stack, variables | commands | all | nested calls and loops across saves | sequential |
| **Text layout, effects, layers, graphics, archives, loader, Lua, joystick, platform code** | geometry, pixels, tables | | main thread | little | sequential, or pure I/O |

`PROJECT.json` lists every component with its files and what is left out, and
every hazard at its line with the property that watches it, or the reason why none
does.

## Modules

| Module | Models |
| --- | --- |
| `WorkQueue` | abstract: pending work, the piece being carried out, and the client's calls |
| `Subsequence` | what erasing from a deque can leave |
| `AsyncQueue`, `MCAsyncQueue` | one `AsyncInstructionQueue`, main and its workers |
| `AsyncQueueProofs`, `AsyncQueueRefinement` | proofs about it; step simulation to `WorkQueue` |
| `WorkSignal`, `WorkSignalProofs` | `mainThreadWork` and `waitForAsync` |
| `ImageAssets`, `MCImageAssets`, `ImageAssetsProofs` | image preparation, above a queue with the behaviour of `WorkQueue` |
| `MemoryBudget`, `MemoryBudgetProofs` | the budget and the frame's trimming |
| `MediaPipeline`, `MCMediaPipeline` | a film: layer, demultiplexer, decoders, sound |
| `MediaPipelineProofs`, `MediaQueueProofs` | no decoder used once destroyed; types and bounds of the queues |
| `DialogueControl`, `MCDialogueControl` | turns of the script and of a dialogue on the main thread |
| `DialogueControlProofs` | types, and the script's call stack |

Before the operations of a module come faulty variants of them: operators such as
`PushWithoutPost`, marked FAULTY, that change one operation the way a plausible
bug would. No specification uses
them. Putting one in the place of its operation (`mutants` in `PROJECT.json`)
makes TLC find the named property violated, which shows that the property says
something about that operation.

### AsyncQueue

The ten queues differ in four ways, the record `kind`: whether the worker returns
on an empty deque (`quitOnEmpty`), whether it pops what it executes (`hasQueue`;
the event queue does not), how main waits (for each result, until drained, not at
all) and whether main pushes to the front and erases cancelled jobs. They share no
state but `threadShutdownRequested`, so one queue is modelled and `Init` picks its
kind.

- `q`, `items`, `tokens`, `results`, `thread`, `running`, `shutdown` are `q`,
  `instructionsWaiting`, `resultsWaiting`, `results`, `thread`, `running`,
  `threadShutdownRequested`. `exit` stands for `exitCode` and quitting.
- Main: `QueueEnter`, `QueueJoin`, `Push`, `EnsureRunning`/`SpawnFails` are
  `AsyncController::queue`; `AwaitResult`, `TakeResult` `playSoundThreaded`;
  `StartDrain`, `DrainPoll`, `DrainDone` `cacheWaitCommand`; `EditBegin` main taking
  the lock of the image-asset queue, for `EraseCancelled` (its three `erase_if` and
  `clear`) or `Promote` (a claimed job to the front); `StopBegin` to `StopEnd`
  `endThreads` with `defaultThreadEnd`.
- Worker: `Check`, `SemWait`, `Recheck`, `Fetch`, `Execute` or `Throw`, `Finish`,
  `Leave` are the places of `asyncLoop`, in order.

A critical section of the spin lock is one step. `queue()`'s is not: the path out
of the loop by `break` writes `running` without the lock, so `Push` and
`EnsureRunning` are separate and the lock is `LockFree`. Nor is main's edit, so that
the worker can be seen to wait for it.

`WorkQueue` is what this implements. Its `Submit`, `Take` and `Complete` are the way
of an instruction; it leaves `pending` otherwise only inside a call of the client
that is made for that: `Withdraw` or `Promote` after `BeginEdit`, `End` after
`BeginEnd` and with nothing being carried out. The mapping (`Abstract`) puts the
client in such a call exactly while main holds the lock to edit, or is in
`endThreads()`. A worker that pops an instruction and does not execute it makes a
step `WorkQueue` does not have, whatever main is doing, and the mutant `FetchLatest`
does so. With the fairness of `Take` and `Complete`, what is pending is begun unless
the client takes it away.

### WorkSignal

`Raise` and `Wake` are the two halves of `notify` (under the mutex, and
`notify_one` after it); `Snapshot`, `Test`, `Wait`, `Awake`, `TimeOut`, `Service`
are `waitForAsync` and `waitUntil`. `windows` picks the event or the condition
variable. Work itself, done by other threads, is three-valued and external.

### ImageAssets

Main runs `Demand` or `Claim`, then `Prefetch` any number of times, then waits;
in the frames it runs meanwhile, and while idle, `Service` and `Trim` happen. The
calls into the queue are two critical sections (`EraseCancelled`, `Push`), as in
`prepareImage`. `Drop` and the reset (`Reset`, `EndThreads`, `Clear`,
`ClearQueue`) happen between commands. The worker is `Fetch`, `Start`, `Allow`,
`Build`, `Publish`, or `Terminate` when an error box on the worker ends it. The
lower queue is what `AsyncQueue` is shown to implement; that a terminated worker
may be replaced, or strand work, is in `Push`. Which images a put evicts, and
whether the budget admits one, is nondeterministic. `outdated` is a history bit.

### MemoryBudget

A charge is alive while someone holds a lease of it: the cache that retains the
resource, or a user. Operations are critical sections of the budget's mutex on any
thread; `serviceMemoryBudget` is `Poll` or `SkipPoll`, `Measure`, `TakeTrim` and a
trim that evicts one allocation at a time until the target or 2 ms are reached
(`TrimDone`, `TrimLate`, which asks for the rest). Sizes are unsigned: `Difference`
is subtraction modulo `Word`, as in the test that `reserve()` makes (`Admits`). The 30 s of a restriction are `MaxPolls` polls, of which
any number may be skipped by a frame that takes long.

### MediaPipeline

- The layer: `film`, `main`, `wantStop`, `eof`, `shown`, `bridge` are the open
  file, what the main thread is in the middle of, `request_video_shutdown`,
  `VS_END_OF_FILE`, the frame on screen and the state of `audioBridge`. `delayed`
  is the place inside `finish()` between its signal and its second look at the
  worker count.
- The controller: `alive` (`decoders`), `finishing` (their `shouldFinish`), `count`
  (`decoderWorkerCount`), `lock` (`initVideoTimecodesLock`).
- The demultiplexer: `dmx`, `packet`, `pos`, `counter`, `demuxStop`, and per stream
  `pq` and `spaces` (`packetQueue`, `packetQueueSemSpaces`). The semaphore of
  available packets is the length of `pq`.
- Per stream a decoding thread: `dec` is its place, `codec` what the codec holds
  back, `fq` and `fspace` the results and `frameQueueSem`.

Main plays a film with `Load` (or gives up, `LoadFails`, with decoders already there),
`Present` (which waits for `Timed`), shows it with
`Updates`, `StartPlayback`, and stops it from three places (`Callers`): `refresh()`
at its end, the event loop for a script that waits, the layer's destructor. They
call `stopPlayback` until it returns true: `FinishSignal`, `FinishLater`,
`FinishDecoders`, `FinishAll` are its stages. A bridge that could not be prepared stays
`"mute"` until then. `EndThreads`, `ThreadsEnded` are a
reset. `FillBuffers` is the mixer's callback. `DemuxRead` to `DemuxEnd` are
`demultiplexStreams` with `pushPacket`; `Decode`, `Enqueue`, `EnqueueNull`,
`Abandon` and `DecoderLeave` the loop of `decodeFrame`, and `CountOut` what
`decodeFrames` does after it: in between the thread is `"leaving"`. `0` in a queue is the null
packet or frame.

Sections under a lock are one step; so are, as abstractions, the test of `hasStream`
with the put that follows it (`Demux.cpp:119`) and the setting of the two decoders'
`shouldFinish`. One more abstraction hides something: `demultiplexStreams` looks at
`initVideoTimecodesLock` and posts it in two statements (`Demux.cpp:61`), between
which `getVideoFramerate`, let through by the post of `getVideoTimecodes`, may
destroy the semaphore (`VideoDecoder.cpp:38`). The model has the look and the post in
`DemuxEnd` and the wait and destruction in `Present`, so it never posts what is
destroyed; the hazard is listed without a property.
A load that fails before there are decoders changes nothing and is left out, as is
one that fails over a semaphore or a thread that cannot be created. Subtitles, hardware
decoders, pools of frames and the uploading of a picture are left out.

### DialogueControl

- `stack` is `callStack`; `aside` and `using` are `ScriptState`: the state not in
  use, and whether `swaps` is zero, odd or even. `flag` is
  `callStackHasUninterruptible`.
- `active`, `text`, `d2`, `passes`, `scriptPasses` are the dialogue's
  `dialogueProcessingState` and its passes; `executing`, `loan`, `events`, `varQueue`
  are `executingDialogueInlineCommand`, `loanExecutionActive`, `events`,
  `inVariableQueueSubroutine`; `shown` a segment whose monitor has not reported.
- `inlineWaits` and `mainWaits` count the registered `ConstantRefreshAction`s by
  whom they hold back.

A turn of `executeLabel` is a callback (`EventCallback`), or the dialogue's events
(`TakeControl`, then `DialogueStep` until the queue is empty), or a command
(`ScriptStep`), in that order. `FrameStep` is what the frames in between do: a
segment reports, a wait expires, the player clicks. `Exit` is `errorAndExit`, with
its reason in `fatal`: `"plain"` for a `[*]` or `[#]` in a plain `d`, an error of the
script, the others for checks of `ScriptState`.

What a text and a script are taken to be: the script defines `textgosub` and no
`pretextgosub`; commands called by a dialogue are subroutines, not Lua functions; a
`d` comes only when no dialogue is active; a script does not wait in uninterruptible
code, which no wait holds back; `mgoto` is not used inside a dialogue's command
(`d_dispose` exists for that); a text holds at most one `[#]`. The call stack holds
frames of labels only. `d_dispose`, loading and saving inside a dialogue, trap
handlers, `dialogue_add_ends`, and the reading of tokens are not modelled.

## Runs

| Run | Instance | Shows |
| --- | --- | --- |
| `async_queue` | all kinds, 3 instructions, 2 threads, no throws | `OneWorker`, `NoStrandedWork`, `HandleRetained`, `Attended`, `UnitsCoverQueue`, `StopLeavesNothing`; the refinement `ImplementsWorkQueue`; `CallsReturn` |
| `async_queue_throw` | the same, one instruction may throw, threads may fail to start | `Coherent`, `ResultIsOwn`, `UnitsCoverQueue`, `StopLeavesNothing` survive |
| `async_queue_stranded` | cache queue, one instruction throws | *violated*: `AppendReachesWorker` |
| `async_queue_drain` | the same, with fairness | *violated*: `DrainReturns` |
| `work_signal` | 2 producers, 3 generations, both platforms | `NoLostWakeup`, `WaitReturns` |
| `image_assets` | 3 assets, 3 jobs, symmetric | `WaiterServed`, `DemandFirst`, `ClaimedIsWanted`, `NothingOutdated` |
| `image_assets_live` | 2 assets, 2 jobs | `DemandReturns` |
| `media_pipeline` | 5 films, queues of 1 and 2 packets and 2 frames | `NothingFreedInUse`, `QueuesBounded`, `LastFrameShown`, `FramesInOrder`; `LoadReturns`, `PlaybackEnds`, `StopReturns` |
| `media_workers` | the same | *violated*: `WorkersCounted` |
| `dialogue_control` | 4 dialogues, 5 commands | `DialogueDriven`, `OnePartAtATime`, `OnlyKnownFatal`, `MainStackKept`, `UninterruptibleHonoured`; `InlineReturns` |
| `dialogue_loan` | the same | *violated*: `NeverWonky` |
| `memory_budget` | 2 charges, budget 4, sizes 1 and 3, 2 polls | `Accounts`, `WithinLimit`, `PressureServed`, `RestrictionEnds` |

Four runs disagree with what the source says of itself. The first two concern an
instruction that throws `ThreadTerminate` (`requestQuit` on a worker, for instance
an error under strict warnings):

- `Async.cpp:163` promises that no producer appends to a thread about to exit. The
  exit by `break` clears `running` outside the lock (line 172), and between the
  two `queue()` may append and return (`AppendReachesWorker`).
- `cache_wait` "drains pending async cache work", but a worker that has thrown
  leaves the rest of the deque, and the loop in `CommandExt.cpp:3289` waits for it
  with quitting prevented (`DrainReturns`).
- `Controller.hpp` says that `decoderWorkerCount` equals the number of unfinished
  workers. It is set when a presentation is loaded; a load that gives up before
  `startProcessing`, or a reset that drops instructions nobody has taken, leaves it
  above (`WorkersCounted`), and every `stopPlayback` afterwards waits for workers
  that do not exist. `StopReturns` is therefore stated for a count that is true when
  stopping begins, and until a reset, which may drop a worker that is counted.
- `Dialogue.hpp:300` means the helpers of `ScriptState` to be such that "we can't
  screw up". A wait of an inline command that expires before its `loanStart` event
  is handled finds the dialogue's state in use, and the program ends
  (`NeverWonky`). `OnlyKnownFatal` states which of the checks can fire at all.

`StopReturns` has one more exception: while a script waits for a *looping* film to
stop and frames are shown as fast as they are decoded, the video decoder, which
goes once it sees two frames, need never go. `InlineReturns` excepts the flag that
`mgoto` leaves behind on an empty call stack (`callStack.clear()` does not
recompute `callStackHasUninterruptible`), which keeps the dialogue from its turn
until some subroutine returns.

### Bounds

`MaxSem` bounds the semaphore counts: main queues nothing while either is at the
bound. Three lets units of erased instructions accumulate past the length of the
deque. Three instructions are one in hand, one queued and one being queued; two
threads are a worker that is leaving and its replacement (a third never exists: the
retained handle is joined first). `MaxGen` stops new work, not the work begun; 3
generations let one notification precede the snapshot, one fall between snapshot
and sleep and one come after. In `image_assets`, three assets and jobs make a
demanded job overtake another one in the queue; all keys and jobs are
interchangeable, so that run uses symmetry, and the liveness run does not.
`memory_budget` has one size a quarter of the budget, admissible under a
restriction, and one that is not; two charges can exceed the lowered limit
together. `Word` is 16, so that 1 - 3 is 14, far above what can be used: the mutant
`AdmitsWrapped`, which lets the subtraction decide, admits 3 under a limit of 1.
`WithinLimit` and `TypeOK` show that no sum of sizes wraps, as none exceeds the
budget. In `media_pipeline` a film of sound and pictures fills every queue; one
begins with more sound than the audio queue holds, before there are timecodes; a
silent one is longer than all queues together, and one loops; `CodecDelay` 1 makes
the last frame come out of the flush only, and `MaxLate` 3 is more than the queue
holds. In `dialogue_control`, four texts hold every kind of part between them, and
five commands allow two nested waits, a loan with the script running in it, and a
callback; `MaxCommands` bounds what the script and player begin, never what they
have begun.

### Fairness

- `AsyncQueue`: main finishes a call it has begun (weak fairness of
  `MainProgress`), threads are scheduled, instructions return, and a thread that
  spins on the lock gets it (strong fairness of `Fetch` and `Finish`: main holds
  the lock for a few instructions). Main need not begin any call, and no fairness
  is asked of choices between them.
- `WorkSignal`: weak fairness of main's steps and of a producer's once begun;
  none of the deadline, so that the wakeup alone must end the wait.
- `ImageAssets`: weak fairness of main's progress and of the worker; strong
  fairness of `TakeReady` and `Loaded`, as frames run between two looks but
  `waitForAsync` looks again after each.
- `MemoryBudget`: weak fairness of the frame, and strong fairness of `Poll` (time
  passes, so a second is over again and again) and of `EvictLast` (the 2 ms are).
  `RestrictionEnds` assumes that from some time on neither the system nor the script
  reports memory short and no cache takes in anything new. It does not assume that
  trims cease: one that runs out of time asks for another and renews the restriction,
  and that this comes to an end is what it says (`TrimDoneRetrying` never does).
- `MediaPipeline`: weak fairness of each thread, of the updates and drawing of a
  frame, of the callback and of the loops around `stopPlayback`; none of playing,
  requesting a stop or resetting.
- `DialogueControl`: weak fairness of the turns of callback and dialogue, of the
  expiry of waits, of a segment's report and of `ReturnCommand`, as a script's
  subroutines return; none of any other command.

Deadlock is checked, with `ProcessOver`, `Rest` and `Over` to stutter where the
process has ended or there is nothing to wait for; except in `dialogue_control` and
`dialogue_loan`, where the commands are used up or the program has ended.

## Proofs

`tlapm` proves, for all values of the constants that satisfy `ConstantsAssumption`:

- `TypeCorrect`: `TypeOK` is made inductive by `Hands`, that main and the worker
  hold an instruction or a handle where they use one.
- `OneWorkerCorrect`, `StopLeavesNothingCorrect`: from `Coherent`. `OneWorker`
  alone is not inductive: to see that `EnsureRunning` starts no second thread one
  must know that `running` is set while a thread is live *and* that the retained
  handle is that thread, and to see that `StopReset` may clear both that the
  handle it joined was the retained one. `async_queue_throw` checks `Coherent`.
- `UnitsCoverQueueCorrect`: with `Coherent`, as a unit taken by a thread that is
  `recheck`ing is spent on the instruction in front, and a `break` between only
  happens on shutdown.
- `NoStrandedWorkCorrect`, `HandleRetainedCorrect`: under `Throwing = {}`, from
  `Attended`: no thread leaves by `break` unless on shutdown. `async_queue` checks
  it; `async_queue_stranded` shows that the hypothesis is needed.
- `ImplementsWorkQueueSafely`: initial states map to initial states, every step to
  a step of `WorkQueue` or a stutter, from `Held` (what a thread has in hand, what
  `queue()` is about to push). It holds with throws as well. That `End` comes with
  nothing being carried out needs `Coherent`: the thread joined is the only one. The
  theorem says how work may leave the queue, not that it does; the latter is fairness.
- `ResultIsOwnCorrect`: from `Own`, with or without throws. `ResultIsOwn` looks at
  one moment; `Own` follows main from `push` to `take` (`Stage`), and while it waits
  says in which one place its instruction is: queued, in a worker's hands, published,
  or published and posted (`Answering`). The unit that a throw posts answers nothing,
  but then the process is on its way out (`exit`), so `Own` lets it be; and a queue
  is used with results or with a drain, never both (`Places`).
- `NoLostWakeupCorrect`: from `Remembered`: finished work either has its notifier
  still before the raise, or the generation has moved past the snapshot; and on
  Windows a generation moved while main sleeps has set the event.
- `WithinLimitCorrect`: from `Numbers` (the types needed for arithmetic, and what
  is used is never negative) and `Admitted` (used is within the configured budget,
  and above the limit only while restricted).
- `AccountsCorrect`: `Accounts` with the finiteness of what is counted (`Counted`).
  The bytes are the elements of one set, in which an operation changes the share of
  one charge (`OneApart`, `OneChanges`), so no induction over the charges is needed,
  and no assumption that they are finitely many. `MemoryBudgetProofs!TypeOKCorrect`
  rests on it: an account cannot go below zero because it is the size of a set.
- `CoherentCorrect`, `AttendedCorrect`: the two strengthenings above are properties
  of runs in their own right, and theorems.
- `NothingFreedInUseCorrect`: from `Covered` (the worker count covers the unfinished
  decoding threads, exactly while loading; that it may be above is the finding),
  `Timing` (by the time loading returns the demultiplexer has its timecodes or has
  left, so it looks at no decoder afterwards) and `Connected` (the mixer is cut off
  before anything is stopped). `NothingFreedInUse` alone says nothing about the
  count that `finish()` waits for.
- `MediaQueueProofs!TypeCorrect` and `QueuesBoundedCorrect`: from `QInv`, beside
  `Inv`: per packet queue, the entries, the free places and the place the
  demultiplexer holds between taking and filling it are no more than the capacity,
  until the null packet, after which nothing is put any more; per frame queue,
  entries and places; and a decoder that is to give out a frame has one in its
  codec. That the worker count stays above zero when a thread leaves needs `Covered`.
- `LastFrameShownCorrect`, `FramesInOrderCorrect`: from `FInv`, checked by TLC on the
  instance of `media_pipeline` before it was proved. What is further along the
  pipeline is earlier in the film (`Line`), each queue rises and ends with the null
  packet or frame (`Rise`), and until the threads are told to go nothing is lost on
  the way (`Complete`): behind the null packet all pictures have left the
  demultiplexer, behind the null frame all have left the codec. `LastFrameShown`
  alone does not say that a codec is flushed before the null frame is put. A film
  that loops numbers its pictures from the start again, so there `FInv` claims only
  where the null packet and frame are (`Ends`).
- `ImageAssetsProofs`: `TypeCorrect`, `WaiterServedCorrect`, `DemandFirstCorrect`,
  `ClaimedIsWantedCorrect` and `NothingOutdatedCorrect`, from one invariant, `Inv`,
  which says where every pending job is. `WaiterServed` needs that a pending job
  still `Queued` is in the queue, with the worker or about to be pushed (`Reached`),
  that a cancelled job is never `Queued` (so erasing the cancelled ones takes no
  such job), and that no job is in two of these places (`Queue`, `FreshJob`).
  `DemandFirst` needs that the job pushed is the one waited for unless it is
  speculative, and `NothingOutdated` that each job is pending under its own key
  only, so that a drop reaches every job it makes outdated. Two places break
  `Reached`, and `Inv` names them: between `EndThreads` and `Clear` a reset has
  emptied the queue and not yet what is pending.
- `MainStackKeptCorrect`: by cases of the swaps; `DialogueControlProofs!TypeCorrect`:
  from `TypeInv`, that there is an event while events are handled.
- `DialogueDrivenCorrect`, `OnePartAtATimeCorrect`, `OnlyKnownFatalCorrect`: from
  `DInv`. Its core is `Mode`: a dialogue is in exactly one of five situations, each
  with one driver, and in the one of a running command the loans and their ends come
  in turn and match the waits (`Matched`), unless the program is to end at a loan
  event already posted (`Doomed`). To see that a command's end is reported once,
  `Reports` says whose frames report; to see that it can be reported at all,
  `Interruptible` says that a stack is put aside only while it may be interrupted.
- `UninterruptibleHonouredCorrect`: an action property, from `Interruptible`: the
  flag that `executeLabel` reads is never down while a label on the stack in use is
  uninterruptible.

Every invariant and every action property that a passing run checks is the subject
of a theorem. Only model-checked is what is out of the prover's reach, as it is about
fairness and `ENABLED`: `CallsReturn`, `WaitReturns`, `DemandReturns`,
`PressureServed`, `RestrictionEnds`, `LoadReturns`, `PlaybackEnds`, `StopReturns` and
`InlineReturns`, and the fairness that `ImplementsWorkQueue` asks for beyond its
steps. The findings are counterexamples, and stay with TLC as well.

## Not modelled

Within the modelled components: semaphore creation and destruction and the
`VirtualMutexes` table; contents of images and sounds; the cost of an image;
`prefetchAllowance` and `bufferedItems`, which only read; telemetry. The memory
model is sequentially consistent: the flags read outside locks are atomics, and the
code's release/acquire pairs hand data over the way the steps do.

Of the other components:

- the subtitle layer's worker runs around libass and an image pool, which its
  handshake of semaphores would need beside it;
- the event thread hands whole lists over under one lock, and what the main thread
  makes of them is input mapping;
- caches, pools, the glyph atlas and the ring buffer are sequential containers under
  a lock or on one thread;
- replacing a save file is two calls whose window for a crash is plain to see, and
  nothing in the repository promises that it is survived;
- Discord presence is an optional service nothing depends on;
- expressions, text layout, drawing, effects, archives, start-up, Lua, joystick and
  platform code are sequential or pure input and output, and the repository tests
  its parsers with unit tests and fuzzers;
- vendored and generated code (khronos headers, shaders, regular expressions).

## Plan

1. The subtitle worker, as a second consumer in `MediaPipeline`, and with it the
   timing of subtitles against frames.
2. `playSoundThreadedLock`: instructions of two steps with a lock in `AsyncQueue`.
