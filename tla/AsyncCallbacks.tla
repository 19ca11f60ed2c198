---------------------------- MODULE AsyncCallbacks ----------------------------
(***************************************************************************)
(* Browser's abort- and pause-aware callbacks: safeSetTimeout,            *)
(* safeRequestAnimationFrame, safeSetInterval, emscripten_async_call,     *)
(* pauseAsyncCallbacks and resumeAsyncCallbacks.                          *)
(*                                                                         *)
(* Each registration is a number in Regs.  The host keeps the armed       *)
(* timers and fires them in any order, but only when no JavaScript runs:  *)
(* resumeAsyncCallbacks runs the queued callbacks synchronously (its       *)
(* forEach), one DrainNext step per callback, and a callback may call     *)
(* any API of this module between two of those steps.  A fired one-shot   *)
(* timer is disarmed; an interval stays armed.  The callbacks' own work   *)
(* is abstracted to "it ran"; Module['noExitRuntime'] is left out.        *)
(***************************************************************************)
EXTENDS Integers, Sequences, FiniteSets

CONSTANTS
  MaxRegs,   \* bound on registrations
  MaxTicks   \* bound on interval firings

VARIABLES
  allowAsyncCallbacks,   \* Browser.allowAsyncCallbacks
  queuedAsyncCallbacks,  \* Browser.queuedAsyncCallbacks
  draining,   \* the rest of resumeAsyncCallbacks' forEach, innermost first
  armed,      \* registrations with a host timer armed
  kind,       \* registration -> "timeout", "raf" or "interval"
  nextReg,    \* registrations made
  ABORT,      \* the runtime aborted
  runs,       \* registration -> times its callback ran
  dropped,    \* one-shots whose timer fired after abort
  ticks,      \* interval firings (bounded)
  lastRun     \* ghost: <<allowed, aborted>> at the callback run just taken

vars == <<allowAsyncCallbacks, queuedAsyncCallbacks, draining, armed, kind,
          nextReg, ABORT, runs, dropped, ticks, lastRun>>

Regs == 0..(MaxRegs - 1)

\* The fixed part of every step that is not a callback run.
NoRun == lastRun' = <<>>

\* A callback body runs now.
Run(r) ==
  /\ runs' = [runs EXCEPT ![r] = @ + 1]
  /\ lastRun' = <<allowAsyncCallbacks, ABORT>>

Init ==
  /\ allowAsyncCallbacks = TRUE
  /\ queuedAsyncCallbacks = <<>>
  /\ draining = <<>>
  /\ armed = {}
  /\ kind = [r \in Regs |-> "timeout"]
  /\ nextReg = 0
  /\ ABORT = FALSE
  /\ runs = [r \in Regs |-> 0]
  /\ dropped = {}
  /\ ticks = 0
  /\ lastRun = <<>>

-----------------------------------------------------------------------------
(* safeSetTimeout, safeRequestAnimationFrame and safeSetInterval arm one   *)
(* host timer; emscripten_async_call picks safeSetTimeout for millis >= 0  *)
(* and safeRequestAnimationFrame otherwise.                               *)
Register(k) ==
  /\ nextReg < MaxRegs
  /\ armed' = armed \cup {nextReg}
  /\ kind' = [kind EXCEPT ![nextReg] = k]
  /\ nextReg' = nextReg + 1
  /\ NoRun
  /\ UNCHANGED <<allowAsyncCallbacks, queuedAsyncCallbacks, draining,
                 ABORT, runs, dropped, ticks>>

AsyncCall(millis) ==
  Register(IF millis >= 0 THEN "timeout" ELSE "raf")

\* emscripten_async_run_script: safeSetTimeout(run the script, millis).
AsyncRunScript == Register("timeout")

PauseAsyncCallbacks ==
  /\ allowAsyncCallbacks' = FALSE
  /\ NoRun
  /\ UNCHANGED <<queuedAsyncCallbacks, draining, armed, kind, nextReg,
                 ABORT, runs, dropped, ticks>>

\* A variant that empties the queue before taking its copy.
ResumeAsyncCallbacksDropsQueue ==
  /\ allowAsyncCallbacks' = TRUE
  /\ queuedAsyncCallbacks' = <<>>
  /\ NoRun
  /\ UNCHANGED <<draining, armed, kind, nextReg, ABORT, runs, dropped, ticks>>

\* The queue is swapped for [] and the old one run in order; a nested call
\* (from one of those callbacks) runs its own copy before the outer
\* forEach continues.
ResumeAsyncCallbacks ==
  /\ allowAsyncCallbacks' = TRUE
  /\ IF Len(queuedAsyncCallbacks) > 0
     THEN /\ draining' = queuedAsyncCallbacks \o draining
          /\ queuedAsyncCallbacks' = <<>>
     ELSE UNCHANGED <<draining, queuedAsyncCallbacks>>
  /\ NoRun
  /\ UNCHANGED <<armed, kind, nextReg, ABORT, runs, dropped, ticks>>

\* One iteration of resumeAsyncCallbacks' forEach: func(), no checks.
DrainNext ==
  /\ draining # <<>>
  /\ Run(Head(draining))
  /\ draining' = Tail(draining)
  /\ UNCHANGED <<allowAsyncCallbacks, queuedAsyncCallbacks, armed, kind,
                 nextReg, ABORT, dropped, ticks>>

\* abort() elsewhere in the runtime.
Abort ==
  /\ ~ABORT
  /\ ABORT' = TRUE
  /\ NoRun
  /\ UNCHANGED <<allowAsyncCallbacks, queuedAsyncCallbacks, draining, armed,
                 kind, nextReg, runs, dropped, ticks>>

-----------------------------------------------------------------------------
(* The host fires an armed timer while no JavaScript is running.           *)

Idle == draining = <<>>

\* The wrapper of safeSetTimeout / safeRequestAnimationFrame: nothing after
\* abort, run when allowed, otherwise queue the callback.
FireOnce(r) ==
  /\ Idle
  /\ r \in armed
  /\ kind[r] # "interval"
  /\ armed' = armed \ {r}
  /\ \/ /\ ABORT
        /\ dropped' = dropped \cup {r}
        /\ NoRun
        /\ UNCHANGED <<queuedAsyncCallbacks, runs>>
     \/ /\ ~ABORT /\ allowAsyncCallbacks
        /\ Run(r)
        /\ UNCHANGED <<queuedAsyncCallbacks, dropped>>
     \/ /\ ~ABORT /\ ~allowAsyncCallbacks
        /\ queuedAsyncCallbacks' = Append(queuedAsyncCallbacks, r)
        /\ NoRun
        /\ UNCHANGED <<runs, dropped>>
  /\ UNCHANGED <<allowAsyncCallbacks, draining, kind, nextReg, ABORT, ticks>>

\* The wrapper of safeSetInterval: a tick while paused is dropped.
FireInterval(r) ==
  /\ Idle
  /\ r \in armed
  /\ kind[r] = "interval"
  /\ ticks < MaxTicks
  /\ ticks' = ticks + 1
  /\ IF ~ABORT /\ allowAsyncCallbacks THEN Run(r) ELSE NoRun /\ UNCHANGED runs
  /\ UNCHANGED <<allowAsyncCallbacks, queuedAsyncCallbacks, draining, armed,
                 kind, nextReg, ABORT, dropped>>

-----------------------------------------------------------------------------
Next ==
  \/ \E k \in {"timeout", "raf"} : Register(k)
  \/ Register("interval")
  \/ \E millis \in {-1, 0} : AsyncCall(millis)
  \/ AsyncRunScript
  \/ PauseAsyncCallbacks
  \/ ResumeAsyncCallbacks
  \/ DrainNext
  \/ Abort
  \/ \E r \in Regs : FireOnce(r) \/ FireInterval(r)

Spec == Init /\ [][Next]_vars

-----------------------------------------------------------------------------
\* How many times registration r occurs in sequence s.
Occurrences(r, s) == Cardinality({i \in DOMAIN s : s[i] = r})

\* Every one-shot registration is, at every moment, in exactly one place:
\* armed, queued, in a running forEach, run once, or dropped after abort.
\* No pause/fire/resume/nested-resume order loses one or runs one twice.
OneShotExactlyOnce ==
  \A r \in 0..(nextReg - 1) :
    kind[r] # "interval" =>
      (IF r \in armed THEN 1 ELSE 0)
        + Occurrences(r, queuedAsyncCallbacks) + Occurrences(r, draining)
        + runs[r] + (IF r \in dropped THEN 1 ELSE 0) = 1

\* The comment on these wrappers calls them pause-aware: no callback runs
\* while async callbacks are paused.
NoCallbackWhilePaused ==
  [][lastRun' # <<>> => lastRun'[1]]_vars

=============================================================================
