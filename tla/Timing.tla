--------------------------------- MODULE Timing ---------------------------------
(***************************************************************************)
(* The timing strategy of the main loop, with time: the three schedulers  *)
(* emscripten_set_main_loop_timing installs, the setImmediate emulation    *)
(* over window messages that mode 2 installs when the host has no native  *)
(* setImmediate, and the timing steps of the runner (frame counter, swap  *)
(* interval, tickStartTime).  Mode 1 goes through                          *)
(* Browser.requestAnimationFrame without a window, i.e. through            *)
(* fakeRequestAnimationFrame, whose state this module EXTENDS.             *)
(*                                                                         *)
(* One loop is started and then only retimed: pause, resume, cancel, the  *)
(* blocker queue and ABORT are the subject of MainLoop, so here the        *)
(* runner's generation checks always pass and its queue is empty.  The    *)
(* payload returns (throwing payloads are MainLoop's).                    *)
(*                                                                         *)
(* Two clocks: perf is _emscripten_get_now() (performance.now), which is  *)
(* also the clock of the host's timers; FakeRAF's now is Date.now(), which *)
(* moves with perf and may also be stepped by ClockMoves.  Times are whole *)
(* ms; a setTimeout delay is truncated to whole ms as the host does.       *)
(***************************************************************************)
EXTENDS FakeRAF, Sequences, FiniteSets

CONSTANTS
  FpsDelays,   \* 1000/fps for the fps C passes to set_main_loop (0: fps <= 0)
  Delays,      \* ms C passes to set_main_loop_timing in mode 0
  Intervals,   \* swap intervals C passes to set_main_loop_timing in mode 1
  Durations,   \* ms one call of the C main loop function may take
  MaxTicks,    \* bound on runner calls
  MaxOther,    \* bound on setImmediate calls by other page code
  MaxForeign,  \* bound on "setimmediate" messages posted by other code
  MaxTime,     \* bound on performance.now() in ms
  NoScheduler, \* Browser.mainLoop.scheduler = null
  Undefined    \* Browser.mainLoop.tickStartTime before its first assignment

VARIABLES
  perf,           \* _emscripten_get_now(), the host's timer clock (ms)
  func,           \* Browser.mainLoop.func is set
  timingMode,     \* Browser.mainLoop.timingMode
  timingValue,    \* Browser.mainLoop.timingValue
  scheduler,      \* the scheduler closure: [mode, value] or NoScheduler
  tickStartTime,  \* Browser.mainLoop.tickStartTime (ms) or Undefined
  currentFrameNumber,
  timers,         \* due times (ms) of the pending setTimeout(runner, d)
  payload,        \* runIter's C function: "none", "called", "ran" (its time spent)
  emulated,       \* the global setImmediate is the emulation
  setImmediates,  \* the emulation's array: [id, fn] in push order
  inbox,          \* messages posted to the window, oldest first
  nImm,           \* callbacks pushed by the emulated setImmediate
  nRan,           \* callbacks the message handler has shifted and run
  ticks, nOther, nForeign

timingVars == <<perf, func, timingMode, timingValue, scheduler, tickStartTime,
                currentFrameNumber, timers, payload, emulated, setImmediates,
                inbox, nImm, nRan, ticks, nOther, nForeign>>
allVars == <<vars, timingVars>>

Marker == "setimmediate"   \* emscriptenMainLoopMessageId

\* Date.now() starts at 0: fakeRequestAnimationFrame depends only on
\* differences of its readings, which start equal to those of perf.
TimingInit ==
  /\ Init /\ now = 0
  /\ perf = 0
  /\ func = FALSE
  /\ timingMode = 0 /\ timingValue = 0
  /\ scheduler = NoScheduler
  /\ tickStartTime = Undefined
  /\ currentFrameNumber = 0
  /\ timers = {}
  /\ payload = "none"
  /\ emulated = FALSE
  /\ setImmediates = <<>>
  /\ inbox = <<>>
  /\ nImm = 0 /\ nRan = 0
  /\ ticks = 0 /\ nOther = 0 /\ nForeign = 0

-----------------------------------------------------------------------------
\* Math.max(0, tickStartTime + value - _emscripten_get_now())|0: NaN while
\* tickStartTime is undefined, and NaN|0 is 0.
TimeUntilNextTick(value) ==
  IF tickStartTime = Undefined THEN 0
  ELSE IF tickStartTime + value - perf > 0 THEN tickStartTime + value - perf
  ELSE 0

EmulatedSetImmediate(fn, q, ib) ==
  /\ setImmediates' = Append(q, [id |-> nImm + 1, fn |-> fn])
  /\ nImm' = nImm + 1
  /\ inbox' = Append(ib, Marker)

\* Calling the scheduler closure sch, with ts, q and ib the pending timers, the
\* emulation's array and the posted messages at the call.  Mode 0 arms setTimeout with the drift-
\* corrected delay; mode 1 is fakeRequestAnimationFrame, whose delay (in
\* 1/60 ms) setTimeout truncates to ms; mode 2 is setImmediate(runner).
ScheduleWith(sch, ts, q, ib) ==
  CASE sch.mode = 0 ->
         /\ timers' = ts \cup {perf + TimeUntilNextTick(sch.value)}
         /\ setImmediates' = q /\ inbox' = ib
         /\ UNCHANGED <<nextRAF, delay, nImm>>
    [] sch.mode = 1 ->
         /\ FakeRequestAnimationFrame
         /\ timers' = ts \cup {perf + delay' \div Unit}
         /\ setImmediates' = q /\ inbox' = ib
         /\ UNCHANGED nImm
    [] sch.mode = 2 ->
         /\ EmulatedSetImmediate("runner", q, ib)
         /\ timers' = ts
         /\ UNCHANGED <<nextRAF, delay>>

CallScheduler(ts, q, ib) == ScheduleWith(scheduler, ts, q, ib)

\* Browser.mainLoop.runner with an empty blocker queue and a current
\* generation, called by the host with ts, q and ib as above: count the frame;
\* a frame the swap interval skips re-arms at once, any other records
\* tickStartTime in mode 0 and enters runIter.
Runner(ts, q, ib) ==
  LET f == currentFrameNumber + 1 IN
  /\ ticks < MaxTicks
  /\ ticks' = ticks + 1
  /\ currentFrameNumber' = f
  /\ IF timingMode = 1 /\ timingValue > 1 /\ f % timingValue # 0
     THEN /\ CallScheduler(ts, q, ib)
          /\ UNCHANGED <<tickStartTime, payload>>
     ELSE /\ tickStartTime' = IF timingMode = 0 THEN perf ELSE tickStartTime
          /\ payload' = "called"
          /\ timers' = ts
          /\ setImmediates' = q /\ inbox' = ib
          /\ UNCHANGED <<nextRAF, delay, nImm>>

\* The C function returns from runIter; the runner calls the scheduler
\* installed now, which the C function may have replaced.
PayloadReturns ==
  /\ payload = "ran"
  /\ payload' = "none"
  /\ CallScheduler(timers, setImmediates, inbox)
  /\ UNCHANGED <<now, perf, func, timingMode, timingValue, scheduler,
                 tickStartTime, currentFrameNumber, emulated, nRan, ticks,
                 nOther, nForeign>>

\* Time passes: performance.now() and Date.now() advance together.
Elapse(k) ==
  /\ perf + k <= MaxTime
  /\ perf' = perf + k
  /\ now' = now + k

\* State the clock steps leave alone.
clockFrame == <<nextRAF, delay, func, timingMode, timingValue, scheduler,
                tickStartTime, currentFrameNumber, timers, emulated, setImmediates, inbox, nImm, nRan, ticks, nOther,
                nForeign>>

\* The C function takes d ms.
PayloadTakes(d) ==
  /\ payload = "called"
  /\ payload' = "ran"
  /\ Elapse(d)
  /\ UNCHANGED clockFrame

\* While no JavaScript runs, the host's clock moves on to the earliest
\* pending timer.
AdvanceToTimer ==
  /\ payload = "none"
  /\ timers # {}
  /\ \A t \in timers : t > perf
  /\ LET t == CHOOSE t \in timers : \A u \in timers : t <= u
     IN Elapse(t - perf)
  /\ UNCHANGED <<payload, clockFrame>>

\* The host runs a due setTimeout(runner): the runner.
TimerFires(t) ==
  /\ payload = "none"
  /\ t \in timers /\ t <= perf
  /\ Runner(timers \ {t}, setImmediates, inbox)
  /\ UNCHANGED <<now, perf, func, timingMode, timingValue, scheduler,
                 emulated, nRan, nOther, nForeign>>

\* A variant of the handler that accepts only the {target: ...} form of
\* the marker, which the main thread does not post.
DispatchMessageTargetOnly ==
  /\ payload = "none"
  /\ inbox # <<>>
  /\ inbox' = Tail(inbox)
  /\ UNCHANGED <<now, nextRAF, delay, perf, func, timingMode, timingValue,
                 scheduler, tickStartTime, currentFrameNumber, timers, payload,
                 emulated, setImmediates, nImm, nRan, ticks, nOther, nForeign>>

\* Browser_setImmediate_messageHandler for the oldest posted message.  The
\* data of both kinds of message is the marker, so it shifts setImmediates
\* and calls what it got: the runner, or another page callback, which
\* changes nothing here.  Shifting an empty array gives undefined and the
\* call throws a TypeError out of the handler.  Before the emulation is
\* installed no listener takes the message.
DispatchMessage ==
  /\ payload = "none"
  /\ inbox # <<>>
  /\ IF emulated /\ setImmediates # <<>>
     THEN LET cb == Head(setImmediates) IN
          /\ nRan' = nRan + 1
          /\ IF cb.fn = "runner"
             THEN Runner(timers, Tail(setImmediates), Tail(inbox))
             ELSE /\ setImmediates' = Tail(setImmediates)
                  /\ inbox' = Tail(inbox)
                  /\ UNCHANGED <<timers, nextRAF, delay, nImm, tickStartTime,
                                 payload, currentFrameNumber, ticks>>
     ELSE /\ inbox' = Tail(inbox)
          /\ UNCHANGED <<timers, nextRAF, delay, nImm, tickStartTime,
                         payload, currentFrameNumber, ticks, setImmediates,
                         nRan>>
  /\ UNCHANGED <<now, perf, func, timingMode, timingValue, scheduler,
                 emulated, nOther, nForeign>>

-----------------------------------------------------------------------------
\* emscripten_set_main_loop_timing(mode, value): store mode and value; with
\* no main loop return 1; else install the scheduler closure of the mode
\* (mode 2 first installs the emulation and its message listener unless
\* setImmediate is defined, which it is after the first time).
InstallTiming(m, v) ==
  /\ timingMode' = m /\ timingValue' = v
  /\ scheduler' = IF func' THEN [mode |-> m, value |-> v] ELSE scheduler
  /\ emulated' = (emulated \/ (func' /\ m = 2))

\* A variant that also calls the new scheduler, re-arming the loop.
SetMainLoopTimingRearms(m, v) ==
  /\ UNCHANGED func
  /\ InstallTiming(m, v)
  /\ IF func THEN ScheduleWith([mode |-> m, value |-> v], timers,
                               setImmediates, inbox)
     ELSE UNCHANGED <<nextRAF, delay, timers, setImmediates, inbox, nImm>>
  /\ UNCHANGED <<now, perf, tickStartTime, currentFrameNumber, payload,
                 nRan, ticks, nOther, nForeign>>

SetMainLoopTiming(m, v) ==
  /\ UNCHANGED func
  /\ InstallTiming(m, v)
  /\ UNCHANGED <<now, nextRAF, delay, perf, tickStartTime,
                 currentFrameNumber, timers, payload, setImmediates, inbox,
                 nImm, nRan, ticks, nOther, nForeign>>

\* emscripten_set_main_loop(func, fps, ...) with noSetTiming false: set
\* func, the timing of fps (fd = 1000/fps; mode 1 with interval 1 for
\* fps <= 0) and call the new scheduler.
SetMainLoop(fd) ==
  LET m == IF fd > 0 THEN 0 ELSE 1
      v == IF fd > 0 THEN fd ELSE 1
  IN
  /\ ~func
  /\ func' = TRUE
  /\ InstallTiming(m, v)
  /\ ScheduleWith([mode |-> m, value |-> v], timers, setImmediates, inbox)
  /\ UNCHANGED <<now, perf, tickStartTime, currentFrameNumber, payload,
                 nRan, ticks, nOther, nForeign>>

\* Other page code calls the global setImmediate, which after mode 2 is
\* the emulation.
OtherSetImmediate ==
  /\ emulated
  /\ nOther < MaxOther
  /\ nOther' = nOther + 1
  /\ EmulatedSetImmediate("other", setImmediates, inbox)
  /\ UNCHANGED <<now, nextRAF, delay, perf, func, timingMode, timingValue,
                 scheduler, tickStartTime, currentFrameNumber, timers,
                 payload, emulated, nRan, ticks, nForeign>>

\* Other code (another frame, or a script of the page) posts the string
\* "setimmediate" to this window.
ForeignMessage ==
  /\ nForeign < MaxForeign
  /\ nForeign' = nForeign + 1
  /\ inbox' = Append(inbox, Marker)
  /\ UNCHANGED <<now, nextRAF, delay, perf, func, timingMode, timingValue,
                 scheduler, tickStartTime, currentFrameNumber, timers,
                 payload, emulated, setImmediates, nImm, nRan, ticks, nOther>>

TimerStep == \E t \in timers : TimerFires(t)

PayloadRuns == \E d \in Durations : PayloadTakes(d)

TimingNext ==
  \/ \E fd \in FpsDelays : SetMainLoop(fd)
  \/ \E v \in Delays : SetMainLoopTiming(0, v)
  \/ \E v \in Intervals : SetMainLoopTiming(1, v)
  \/ SetMainLoopTiming(2, 0)
  \/ OtherSetImmediate
  \/ ForeignMessage
  \/ TimerStep
  \/ DispatchMessage
  \/ PayloadReturns
  \/ PayloadRuns
  \/ AdvanceToTimer
  \/ \E d \in ClockSteps : ClockMoves(d) /\ UNCHANGED timingVars

\* The host's clock runs, it runs due timers and posted messages while no
\* JavaScript runs, and the C main loop function returns (its time is
\* bounded by Durations).  C calls and
\* other code carry no fairness.
TimingSpec ==
  /\ TimingInit /\ [][TimingNext]_allVars
  /\ WF_allVars(AdvanceToTimer)
  /\ WF_allVars(TimerStep)
  /\ WF_allVars(DispatchMessage)
  /\ WF_allVars(PayloadRuns)
  /\ WF_allVars(PayloadReturns)

-----------------------------------------------------------------------------
\* Once the loop is set, exactly one call of the runner is pending or
\* running: a timer, a runner in the emulation's array, or the tick in the
\* C function, although set_main_loop_timing replaces the scheduler at any
\* time, also from inside the C function and while a deferral of the old
\* discipline is pending (spec.md 9, open question).
OneRunnerPending ==
  func =>
    Cardinality(timers)
      + Len(SelectSeq(setImmediates, LAMBDA c : c.fn = "runner"))
      + (IF payload # "none" THEN 1 ELSE 0) = 1

LoopKeepsTicking ==
  \A k \in 0..(MaxTicks - 1) : (func /\ ticks = k) ~> (ticks > k)

====
