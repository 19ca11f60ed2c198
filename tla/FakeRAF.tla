-------------------------------- MODULE FakeRAF --------------------------------
(***************************************************************************)
(* Browser.fakeRequestAnimationFrame, the setTimeout-based stand-in for   *)
(* requestAnimationFrame when there is no window (or no native one).      *)
(*                                                                         *)
(* Time is counted in units of 1/60 ms so that the frame length 1000/60 ms *)
(* is exactly Frame = 1000 units and the 2 ms fudge is Fudge = 120 units;  *)
(* Date.now() returns whole milliseconds, i.e. multiples of 60 units.     *)
(* The code adds the double 1000/60 repeatedly; the model adds it         *)
(* exactly, so rounding drift of nextRAF is not modelled.                 *)
(* The clock is Date.now(): wall-clock time, which moves by the steps in  *)
(* ClockSteps (ms) between calls and may step back when they include      *)
(* negative values.                                                        *)
(***************************************************************************)
EXTENDS Integers

CONSTANTS
  ClockSteps,  \* ms Date.now() may move between two calls
  MaxNow,      \* bound on Date.now() in ms
  NoDelay      \* no timer armed yet

VARIABLES
  now,      \* Date.now() in ms
  nextRAF,  \* Browser.nextRAF in 1/60 ms (0: never called)
  delay     \* the delay of the setTimeout just armed, in 1/60 ms

vars == <<now, nextRAF, delay>>

Frame == 1000
Fudge == 120
Unit  == 60

\* while (now + 2 >= Browser.nextRAF) Browser.nextRAF += 1000/60;
RECURSIVE AdvanceFrom(_, _)
AdvanceFrom(t, n) ==
  IF t + Fudge >= n THEN AdvanceFrom(t, n + Frame) ELSE n

Init ==
  /\ now \in 0..MaxNow
  /\ nextRAF = 0
  /\ delay = NoDelay

\* A variant that advances nextRAF by at most one frame (if for while).
FakeRequestAnimationFrameOnce ==
  LET t == now * Unit
      n == IF nextRAF = 0 THEN t + Frame
           ELSE IF t + Fudge >= nextRAF THEN nextRAF + Frame ELSE nextRAF
  IN
  /\ nextRAF' = n
  /\ delay' = IF n - t > 0 THEN n - t ELSE 0
  /\ UNCHANGED now

\* fakeRequestAnimationFrame(func): advance nextRAF, arm setTimeout.
FakeRequestAnimationFrame ==
  LET t == now * Unit
      n == IF nextRAF = 0 THEN t + Frame ELSE AdvanceFrom(t, nextRAF)
  IN
  /\ nextRAF' = n
  /\ delay' = IF n - t > 0 THEN n - t ELSE 0
  /\ UNCHANGED now

\* Date.now() moves.
ClockMoves(d) ==
  /\ now + d \in 0..MaxNow
  /\ now' = now + d
  /\ UNCHANGED <<nextRAF, delay>>

Next ==
  \/ FakeRequestAnimationFrame
  \/ \E d \in ClockSteps : ClockMoves(d)

Spec == Init /\ [][Next]_vars

-----------------------------------------------------------------------------
\* "try to keep 60fps between calls": every armed delay is more than the
\* 2 ms fudge and at most one frame beyond it, however the calls and the
\* clock are interleaved.
DelayWithinOneFrame ==
  delay # NoDelay => delay > Fudge /\ delay <= Frame + Fudge

=============================================================================
