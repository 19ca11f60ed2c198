------------------------------ MODULE MainLoop ------------------------------
(***************************************************************************)
(* The Emscripten main-loop scheduler of library_browser.js:               *)
(* Browser.mainLoop together with emscripten_set_main_loop,                *)
(* emscripten_set_main_loop_timing, pause/resume/cancel, the blocker queue *)
(* and the expected/remaining blocker accounting.                          *)
(*                                                                         *)
(* JavaScript runs one callback at a time.  The host (the browser) holds   *)
(* the callbacks that setTimeout, requestAnimationFrame and setImmediate   *)
(* have armed; it delivers them one at a time, in an order the model      *)
(* leaves open.  Each armed callback is a runner closure: the loop id it   *)
(* captured (thisMainLoopId) and the func it calls.  A delivered runner    *)
(* either finishes at once or starts a blocker or the payload, during      *)
(* which the running C code may call back into the API (pause, resume,     *)
(* cancel, set_main_loop, push a blocker, ...); the runner then resumes    *)
(* at the generation check that follows the call.                          *)
(***************************************************************************)
EXTENDS Integers, Sequences, FiniteSets, Bags, BagsExt

CONSTANTS
  Funcs,          \* main-loop functions a C program can pass in
  NULL,           \* JavaScript null / no runner / no scheduler
  FPS,            \* fps arguments of emscripten_set_main_loop
  Modes,          \* timing modes passed to emscripten_set_main_loop_timing
  TimingValues,   \* timing values passed to emscripten_set_main_loop_timing
  ExpectedValues, \* arguments of emscripten_set_main_loop_expected_blockers
  FrameStart,     \* values currentFrameNumber may hold when the model starts
  CanThrow,       \* whether a payload or blocker may throw
  MaxGen,         \* bound on currentlyRunningMainloop
  MaxQueue,       \* bound on the length of the blocker queue
  MaxUncounted,   \* bound on uncounted blockers pushed
  MaxTicks        \* bound on runner callbacks the host delivers

ASSUME Funcs # {} /\ NULL \notin Funcs
ASSUME Modes \subseteq {0, 1, 2} /\ FPS \subseteq Nat
ASSUME MaxUncounted \in Nat \ {0}

VARIABLES
  currentlyRunningMainloop, \* the generation; loops with a smaller id quit
  func,                     \* Browser.mainLoop.func
  runner,                   \* Browser.mainLoop.runner: [id, func] or NULL
  scheduler,                \* Browser.mainLoop.scheduler: its mode or NULL
  timingMode, timingValue,  \* Browser.mainLoop.timingMode / timingValue
  currentFrameNumber,       \* Browser.mainLoop.currentFrameNumber (int32)
  queue,                    \* Browser.mainLoop.queue: counted flags, FIFO
  expectedBlockers,         \* Browser.mainLoop.expectedBlockers
  remainingBlockers,        \* remainingBlockers * Scale (exact rational)
  status,                   \* what updateStatus last passed to setStatus
  ABORT,                    \* the runtime's global ABORT flag
  armed,                    \* bag of runner closures armed with the host
  running,                  \* the runner now inside a blocker or payload
  ticks,                    \* runner callbacks delivered so far
  uncountedPushed,          \* uncounted blockers pushed so far
  countedDrained,           \* history: counted blockers run since the last
                            \* emscripten_set_main_loop_expected_blockers
  pauseDepth                \* history: pauses not yet matched by a resume

vars == <<currentlyRunningMainloop, func, runner, scheduler, timingMode,
          timingValue, currentFrameNumber, queue, expectedBlockers,
          remainingBlockers, status, ABORT, armed, running, ticks, uncountedPushed,
          countedDrained, pauseDepth>>

loopVars == <<func, runner, scheduler, timingMode, timingValue>>
progressVars == <<queue, expectedBlockers, remainingBlockers, status,
                  uncountedPushed, countedDrained>>

-----------------------------------------------------------------------------
(* Values *)

Runners == [id : 0..MaxGen, func : Funcs \cup {NULL}]
NoTick == NULL
Ticks == [runner : Runners, phase : {"blocker", "payload"}, counted : BOOLEAN]

\* remainingBlockers is a fraction whose denominator divides 18^k after k
\* uncounted blockers; it is kept multiplied by Scale so it stays exact.
Scale == 18 ^ MaxUncounted

\* currentFrameNumber + 1 | 0: a signed 32-bit increment.
MaxInt32 == 2147483647
MinInt32 == -2147483647 - 1
IncInt32(x) == IF x = MaxInt32 THEN MinInt32 ELSE x + 1

\* JavaScript a % b for b > 0: the sign follows the dividend.
JSRem(a, b) == IF a >= 0 \/ a % b = 0 THEN a % b ELSE (a % b) - b

-----------------------------------------------------------------------------
(* Helpers translated from the code *)

\* Mutant: Math.ceil in place of Math.floor for a fractional remaining.
NextWholeCeil(r) ==
  IF r % Scale = 0 THEN r - Scale ELSE (r \div Scale + 1) * Scale

\* var next = remaining%1 == 0 ? remaining-1 : Math.floor(remaining);
NextWhole(r) == IF r % Scale = 0 THEN r - Scale ELSE (r \div Scale) * Scale

\* Mutant: the update without the if (remainingBlockers) test.
DrainProgressUnguarded(r, counted) ==
  IF counted THEN NextWhole(r)
  ELSE (8 * r + NextWhole(r) + Scale \div 2) \div 9

\* The remainingBlockers update of the runner after a blocker has run.
DrainProgress(r, counted) ==
  IF r = 0 THEN r
  ELSE IF counted THEN NextWhole(r)
  ELSE (8 * r + NextWhole(r) + Scale \div 2) \div 9

\* Browser.mainLoop.updateStatus (Module.setStatus is assumed present):
\* '' when nothing remains, "message (done/expected)" while remaining is
\* below expected, the bare message otherwise.  done is kept scaled.
UpdateStatus(remaining, expected) ==
  IF remaining = 0 THEN [shown |-> "cleared", done |-> 0]
  ELSE IF remaining < expected * Scale
       THEN [shown |-> "progress", done |-> expected * Scale - remaining]
       ELSE [shown |-> "message", done |-> 0]

\* setTimeout/requestAnimationFrame/setImmediate(Browser.mainLoop.runner):
\* what calling the scheduler does.  A null scheduler throws a TypeError
\* and arms nothing.
Schedule(sched, rn) ==
  IF sched = NULL THEN armed ELSE BagAdd(armed, rn)

\* emscripten_set_main_loop_timing: the scheduler after the call.
TimedScheduler(mode, f) == IF f = NULL THEN scheduler ELSE mode

-----------------------------------------------------------------------------
(* The public API; each may be called from the page or re-entrantly from   *)
(* inside a running blocker or payload.                                    *)

\* emscripten_set_main_loop(func, fps, ..., noSetTiming = false): a runner
\* capturing the current generation, the timing set from fps, the first
\* tick armed.
SetMainLoop(f, fps) ==
  LET rn   == [id |-> currentlyRunningMainloop, func |-> f]
      mode == IF fps > 0 THEN 0 ELSE 1
  IN /\ func = NULL
     /\ func' = f
     /\ runner' = rn
     /\ timingMode' = mode
     /\ timingValue' = IF fps > 0 THEN 1000 \div fps ELSE 1
     /\ scheduler' = mode
     /\ armed' = BagAdd(armed, rn)
     /\ pauseDepth' = 0
     /\ UNCHANGED <<currentlyRunningMainloop, currentFrameNumber,
                    progressVars, ABORT, running, ticks>>

\* The assert that there is no main loop yet fails: abort() sets ABORT.
SetMainLoopAlreadyRunning ==
  /\ func # NULL
  /\ ABORT' = TRUE
  /\ UNCHANGED <<currentlyRunningMainloop, loopVars, currentFrameNumber,
                 progressVars, armed, running, ticks,
                 pauseDepth>>

\* emscripten_set_main_loop_timing(mode, value)
SetMainLoopTiming(mode, value) ==
  /\ timingMode' = mode
  /\ timingValue' = value
  /\ scheduler' = TimedScheduler(mode, func)
  /\ UNCHANGED <<currentlyRunningMainloop, func, runner, currentFrameNumber,
                 progressVars, ABORT, armed, running, ticks, pauseDepth>>

\* Mutant: pause without incrementing the generation.
PauseKeepsGeneration ==
  /\ currentlyRunningMainloop < MaxGen
  /\ scheduler' = NULL
  /\ pauseDepth' = pauseDepth + 1
  /\ UNCHANGED <<currentlyRunningMainloop, func, runner, timingMode,
                 timingValue, currentFrameNumber, progressVars, ABORT, armed,
                 running, ticks>>

\* Browser.mainLoop.pause / emscripten_pause_main_loop
Pause ==
  /\ currentlyRunningMainloop < MaxGen
  /\ scheduler' = NULL
  /\ currentlyRunningMainloop' = currentlyRunningMainloop + 1
  /\ pauseDepth' = pauseDepth + 1
  /\ UNCHANGED <<func, runner, timingMode, timingValue, currentFrameNumber,
                 progressVars, ABORT, armed, running, ticks>>

\* Mutant: resume creating its runner under the old generation.
ResumeKeepsGeneration ==
  LET rn == [id |-> currentlyRunningMainloop, func |-> func]
      s  == TimedScheduler(timingMode, func)
  IN /\ currentlyRunningMainloop < MaxGen
     /\ runner' = rn
     /\ scheduler' = s
     /\ armed' = Schedule(s, rn)
     /\ pauseDepth' = IF pauseDepth > 0 THEN pauseDepth - 1 ELSE 0
     /\ UNCHANGED <<currentlyRunningMainloop, func, timingMode, timingValue,
                    currentFrameNumber, progressVars, ABORT, running, ticks>>

\* Browser.mainLoop.resume / emscripten_resume_main_loop: a new runner under
\* the new generation, the stored timing re-applied, the scheduler called.
\* Without a main loop the timing call fails and the scheduler is null.
Resume ==
  LET g  == currentlyRunningMainloop + 1
      rn == [id |-> g, func |-> func]
      s  == TimedScheduler(timingMode, func)
  IN /\ currentlyRunningMainloop < MaxGen
     /\ currentlyRunningMainloop' = g
     /\ runner' = rn
     /\ scheduler' = s
     /\ armed' = Schedule(s, rn)
     /\ pauseDepth' = IF pauseDepth > 0 THEN pauseDepth - 1 ELSE 0
     /\ UNCHANGED <<func, timingMode, timingValue, currentFrameNumber,
                    progressVars, ABORT, running, ticks>>

\* Mutant: cancel clearing the function without pausing.
CancelKeepsGeneration ==
  /\ currentlyRunningMainloop < MaxGen
  /\ scheduler' = NULL
  /\ func' = NULL
  /\ pauseDepth' = 0
  /\ UNCHANGED <<currentlyRunningMainloop, runner, timingMode, timingValue,
                 currentFrameNumber, progressVars, ABORT, armed, running,
                 ticks>>

\* emscripten_cancel_main_loop: pause, then forget the function.
Cancel ==
  /\ currentlyRunningMainloop < MaxGen
  /\ scheduler' = NULL
  /\ currentlyRunningMainloop' = currentlyRunningMainloop + 1
  /\ func' = NULL
  /\ pauseDepth' = 0
  /\ UNCHANGED <<runner, timingMode, timingValue, currentFrameNumber,
                 progressVars, ABORT, armed, running, ticks>>

\* _emscripten_push_main_loop_blocker / _push_uncounted_main_loop_blocker
PushBlocker(counted) ==
  /\ Len(queue) < MaxQueue
  /\ counted \/ uncountedPushed < MaxUncounted
  /\ queue' = Append(queue, counted)
  /\ status' = UpdateStatus(remainingBlockers, expectedBlockers)
  /\ uncountedPushed' = IF counted THEN uncountedPushed
                        ELSE uncountedPushed + 1
  /\ UNCHANGED <<currentlyRunningMainloop, loopVars, currentFrameNumber,
                 expectedBlockers, remainingBlockers, countedDrained, ABORT,
                 armed, running, ticks, pauseDepth>>

\* emscripten_set_main_loop_expected_blockers(num)
SetExpectedBlockers(num) ==
  /\ expectedBlockers' = num
  /\ remainingBlockers' = num * Scale
  /\ status' = UpdateStatus(num * Scale, num)
  /\ countedDrained' = 0
  /\ UNCHANGED <<currentlyRunningMainloop, loopVars, currentFrameNumber,
                 queue, uncountedPushed, ABORT, armed, running, ticks,
                 pauseDepth>>

\* emscripten_force_exit: exit() with noExitRuntime false sets ABORT.
ForceExit ==
  /\ ABORT' = TRUE
  /\ UNCHANGED <<currentlyRunningMainloop, loopVars, currentFrameNumber,
                 progressVars, armed, running, ticks,
                 pauseDepth>>

-----------------------------------------------------------------------------
(* The host delivers an armed runner r.  Browser_mainLoop_runner, in the   *)
(* order its branches are tried.                                           *)

Deliver(r) ==
  /\ running = NoTick
  /\ CopiesIn(r, armed) > 0
  /\ ticks < MaxTicks
  /\ ticks' = ticks + 1

Stale(r) == r.id < currentlyRunningMainloop

\* if (ABORT) return;
RunnerAborted(r) ==
  /\ Deliver(r)
  /\ ABORT
  /\ armed' = BagRemove(armed, r)
  /\ UNCHANGED <<currentlyRunningMainloop, loopVars, currentFrameNumber,
                 progressVars, ABORT, running, pauseDepth>>

\* A queued blocker is shifted and run, before any generation check.
RunnerStartsBlocker(r) ==
  /\ Deliver(r)
  /\ ~ABORT
  /\ queue # <<>>
  /\ armed' = BagRemove(armed, r)
  /\ running' = [runner |-> r, phase |-> "blocker", counted |-> Head(queue)]
  /\ queue' = Tail(queue)
  /\ UNCHANGED <<currentlyRunningMainloop, loopVars, currentFrameNumber,
                 expectedBlockers, remainingBlockers, status, uncountedPushed,
                 countedDrained, ABORT, pauseDepth>>

\* catch pauses from non-main loop sources
RunnerStale(r) ==
  /\ Deliver(r)
  /\ ~ABORT
  /\ queue = <<>>
  /\ Stale(r)
  /\ armed' = BagRemove(armed, r)
  /\ UNCHANGED <<currentlyRunningMainloop, loopVars, currentFrameNumber,
                 progressVars, ABORT, running, pauseDepth>>

\* The frame counter advances; in rAF mode with a swap interval above 1
\* every frame not divisible by it is skipped and the scheduler re-armed.
FrameSkipped(n) ==
  timingMode = 1 /\ timingValue > 1 /\ JSRem(n, timingValue) # 0

RunnerSkipsFrame(r) ==
  LET n == IncInt32(currentFrameNumber) IN
  /\ Deliver(r)
  /\ ~ABORT
  /\ queue = <<>>
  /\ ~Stale(r)
  /\ FrameSkipped(n)
  /\ currentFrameNumber' = n
  /\ armed' = BagRemove(Schedule(scheduler, runner), r)
  /\ UNCHANGED <<currentlyRunningMainloop, loopVars, progressVars, ABORT,
                 running, pauseDepth>>

\* Mutant: the payload branch without "catch pauses from non-main loop
\* sources".
RunnerStartsPayloadUnchecked(r) ==
  LET n == IncInt32(currentFrameNumber) IN
  /\ Deliver(r)
  /\ ~ABORT
  /\ queue = <<>>
  /\ ~FrameSkipped(n)
  /\ currentFrameNumber' = n
  /\ armed' = BagRemove(armed, r)
  /\ running' = [runner |-> r, phase |-> "payload", counted |-> FALSE]
  /\ UNCHANGED <<currentlyRunningMainloop, loopVars, progressVars, ABORT,
                 pauseDepth>>

\* Otherwise runIter calls the payload.
RunnerStartsPayload(r) ==
  LET n == IncInt32(currentFrameNumber) IN
  /\ Deliver(r)
  /\ ~ABORT
  /\ queue = <<>>
  /\ ~Stale(r)
  /\ ~FrameSkipped(n)
  /\ currentFrameNumber' = n
  /\ armed' = BagRemove(armed, r)
  /\ running' = [runner |-> r, phase |-> "payload", counted |-> FALSE]
  /\ UNCHANGED <<currentlyRunningMainloop, loopVars, progressVars, ABORT,
                 pauseDepth>>

\* Mutant: the blocker branch returning without re-arming the runner.
BlockerReturnsNoRearm ==
  /\ running # NoTick /\ running.phase = "blocker"
  /\ remainingBlockers' = DrainProgress(remainingBlockers, running.counted)
  /\ status' = UpdateStatus(remainingBlockers', expectedBlockers)
  /\ countedDrained' = IF running.counted THEN countedDrained + 1
                       ELSE countedDrained
  /\ running' = NoTick
  /\ UNCHANGED <<currentlyRunningMainloop, loopVars, currentFrameNumber,
                 queue, expectedBlockers, uncountedPushed, ABORT, armed,
                 ticks, pauseDepth>>

\* The blocker returned: progress is updated, the status reported, and
\* unless the generation moved on, setTimeout(Browser.mainLoop.runner, 0).
BlockerReturns ==
  /\ running # NoTick /\ running.phase = "blocker"
  /\ remainingBlockers' = DrainProgress(remainingBlockers, running.counted)
  /\ status' = UpdateStatus(remainingBlockers', expectedBlockers)
  /\ countedDrained' = IF running.counted THEN countedDrained + 1
                       ELSE countedDrained
  /\ armed' = IF Stale(running.runner) THEN armed ELSE BagAdd(armed, runner)
  /\ running' = NoTick
  /\ UNCHANGED <<currentlyRunningMainloop, loopVars, currentFrameNumber,
                 queue, expectedBlockers, uncountedPushed, ABORT, ticks,
                 pauseDepth>>

\* The payload returned, by a normal return, by an ExitStatus that runIter
\* swallows, or without running because preMainLoop returned false: all
\* three reach "catch pauses from the main loop itself" and the scheduler.
PayloadReturns(how) ==
  /\ how \in {"return", "ExitStatus", "preMainLoop"}
  /\ running # NoTick /\ running.phase = "payload"
  /\ armed' = IF Stale(running.runner) THEN armed
              ELSE Schedule(scheduler, runner)
  /\ running' = NoTick
  /\ UNCHANGED <<currentlyRunningMainloop, loopVars, currentFrameNumber,
                 progressVars, ABORT, ticks, pauseDepth>>

\* Any other exception from the blocker or the payload propagates out of
\* the runner: nothing is updated and nothing re-armed.
TickThrows ==
  /\ CanThrow
  /\ running # NoTick
  /\ running' = NoTick
  /\ UNCHANGED <<currentlyRunningMainloop, loopVars, currentFrameNumber,
                 progressVars, ABORT, armed, ticks, pauseDepth>>

-----------------------------------------------------------------------------

Init ==
  /\ currentlyRunningMainloop = 0
  /\ func = NULL
  /\ runner = NULL
  /\ scheduler = NULL
  /\ timingMode = 0
  /\ timingValue = 0
  /\ currentFrameNumber \in FrameStart
  /\ queue = <<>>
  /\ expectedBlockers = 0
  /\ remainingBlockers = 0
  /\ status = [shown |-> "none", done |-> 0]
  /\ ABORT = FALSE
  /\ armed = EmptyBag
  /\ running = NoTick
  /\ ticks = 0
  /\ uncountedPushed = 0
  /\ countedDrained = 0
  /\ pauseDepth = 0

API ==
  \/ \E f \in Funcs, fps \in FPS : SetMainLoop(f, fps)
  \/ SetMainLoopAlreadyRunning
  \/ \E m \in Modes, v \in TimingValues : SetMainLoopTiming(m, v)
  \/ Pause
  \/ Resume
  \/ Cancel
  \/ \E c \in BOOLEAN : PushBlocker(c)
  \/ \E n \in ExpectedValues : SetExpectedBlockers(n)
  \/ ForceExit

Fire(r) ==
  \/ RunnerAborted(r)
  \/ RunnerStartsBlocker(r)
  \/ RunnerStale(r)
  \/ RunnerSkipsFrame(r)
  \/ RunnerStartsPayload(r)

Return ==
  \/ BlockerReturns
  \/ \E how \in {"return", "ExitStatus", "preMainLoop"} : PayloadReturns(how)
  \/ TickThrows

Next ==
  \/ API
  \/ \E r \in Runners : Fire(r)
  \/ Return

\* While callbacks are armed and no tick runs, the browser's event loop is
\* not idle: it delivers one of them.  A started blocker or payload
\* returns.
Fairness ==
  /\ WF_vars(\E r \in Runners : Fire(r))
  /\ WF_vars(BlockerReturns)
  /\ WF_vars(PayloadReturns("return"))

Spec == Init /\ [][Next]_vars /\ Fairness

-----------------------------------------------------------------------------
(* Properties *)

TypeOK ==
  /\ currentlyRunningMainloop \in 0..MaxGen
  /\ func \in Funcs \cup {NULL}
  /\ runner \in Runners \cup {NULL}
  /\ scheduler \in Modes \cup {0, 1, NULL}
  /\ timingMode \in Modes \cup {0, 1}
  /\ timingValue \in Int
  /\ currentFrameNumber \in MinInt32..MaxInt32
  /\ queue \in Seq(BOOLEAN) /\ Len(queue) <= MaxQueue
  /\ expectedBlockers \in ExpectedValues \cup {0}
  /\ remainingBlockers \in 0..(Scale * (MaxQueue + 1) * 4)
  /\ status \in [shown : {"none", "cleared", "message", "progress"},
                 done : 0..(Scale * (MaxQueue + 1) * 4)]
  /\ ABORT \in BOOLEAN
  /\ IsABag(armed) /\ BagToSet(armed) \subseteq Runners
  /\ running \in Ticks \cup {NoTick}
  /\ ticks \in 0..MaxTicks

\* A runner is live when the generation check would let it continue.
Live(r) == r.id >= currentlyRunningMainloop
LiveArmed == {r \in BagToSet(armed) : Live(r)}
LiveRunning == IF running # NoTick /\ Live(running.runner)
               THEN {running.runner} ELSE {}
LiveCount == BagCardinality([r \in LiveArmed |-> armed[r]])
               + Cardinality(LiveRunning)

\* Whatever pause, resume, cancel and set_main_loop calls are made, from the
\* page or from inside the payload or a blocker, at most one runner chain
\* survives the generation checks of Browser_mainLoop_runner: an armed
\* callback that will continue, or the tick now running.  Two live chains
\* would run the payload twice per frame.
SingleLiveChain == LiveCount <= 1

\* A chain that survives the generation checks calls the main-loop function
\* now set in Browser.mainLoop.func: after emscripten_cancel_main_loop and a
\* new emscripten_set_main_loop the old function's runners never get past
\* the check again.
LiveChainRunsCurrentFunc ==
  \A r \in LiveArmed \cup LiveRunning : func # NULL /\ r.func = func

\* After Browser.mainLoop.pause or cancel has nulled the scheduler, no
\* armed setTimeout/rAF/setImmediate callback still counts as the running
\* loop: the pause takes effect although the host timers cannot be cleared.
PausedMeansQuiescent == scheduler = NULL => LiveCount = 0

\* The runner's progress accounting: with n counted blockers still expected
\* after emscripten_set_main_loop_expected_blockers, remainingBlockers
\* lies in (n-1, n], uncounted blockers only nudging it inside that unit,
\* and is 0 once n reaches 0, whatever order counted and uncounted
\* blockers are pushed and drained in.
ProgressMatchesCountedDrains ==
  LET n == expectedBlockers - countedDrained IN
  IF n <= 0 THEN remainingBlockers = 0
  ELSE /\ (n - 1) * Scale < remainingBlockers
       /\ remainingBlockers <= n * Scale

\* A blocker pushed while a loop is live runs eventually, unless the loop
\* is paused, cancelled or replaced (the generation moves on), the runtime
\* aborts, or the delivery bound is reached: the runner re-arms itself
\* with setTimeout(runner, 0) after each blocker.
BlockersEventuallyRun ==
  \A g \in 0..MaxGen :
    (queue # <<>> /\ currentlyRunningMainloop = g /\ LiveCount > 0)
      ~> (\/ queue = <<>>
          \/ currentlyRunningMainloop # g
          \/ ABORT
          \/ ticks = MaxTicks)

\* The timers and the generation counter implement a plain pausable loop:
\* the loop is active while a live runner chain exists and the runtime has
\* not aborted.  Every step of MainLoop is a step of MainLoopContract (or
\* leaves its state alone): only set_main_loop and resume make the loop
\* active, the payload starts only while it is active and no blocker is
\* queued, blockers run in push order.
Contract == INSTANCE MainLoopContract
              WITH active  <- (LiveCount > 0 /\ ~ABORT),
                   tick    <- IF running = NoTick THEN "none"
                              ELSE running.phase,
                   aborted <- ABORT
ContractSpec == Contract!Spec

-----------------------------------------------------------------------------
(* Claims of the specification that the code does not meet *)

\* spec.md 4.1, tick steps 2-3: a tick of a superseded loop stops before it
\* drains a blocker.  The runner shifts and runs a blocker before its first
\* generation check.
StaleTickRunsNoBlocker ==
  [][running = NoTick /\ running' # NoTick /\ running'.phase = "blocker"
       => Live(running'.runner)]_vars

\* spec.md 8, stale-resume immunity: after pause() twice and resume() once
\* the loop stays inactive.
PauseDepthHonoured == pauseDepth > 0 => LiveCount = 0

=============================================================================
