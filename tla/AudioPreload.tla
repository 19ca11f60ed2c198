----------------------------- MODULE AudioPreload -----------------------------
(***************************************************************************)
(* The audio preload plugin (audioPlugin.handle) composed with the pause- *)
(* and abort-aware timers of AsyncCallbacks: its fallback finish is a     *)
(* Browser.safeSetTimeout of 10 s, so it is queued while async callbacks  *)
(* are paused, dropped after abort, and run by resumeAsyncCallbacks.      *)
(*                                                                         *)
(* A handle call is a number in Handles.  The browser may fire            *)
(* canplaythrough and error on the Audio element any number of times, in  *)
(* any order, or never (the code's "chrome bug 124926"); MaxEvents bounds *)
(* them.  The base64 re-encoding of onerror only sets audio.src, so it is *)
(* abstracted to the finish call that follows it.                          *)
(***************************************************************************)
EXTENDS AsyncCallbacks

CONSTANTS
  MaxHandles,  \* bound on audioPlugin.handle calls
  MaxEvents    \* bound on canplaythrough and error events together

VARIABLES
  nHandles,   \* handle calls made
  done,       \* handle -> the closure's done flag
  loads,      \* handle -> times onload was called
  errors,     \* handle -> times onerror was called
  preloaded,  \* handle -> Module["preloadedAudios"][name]: "none", "audio", "shim"
  listening,  \* handle calls whose Audio element has its listeners attached
  timer,      \* handle -> the registration of its safeSetTimeout, or -1
  events,     \* browser events fired so far
  audioSrc    \* handle -> its byteArray and the base64 digits onerror put
              \* in audio.src (both empty before)

audioVars == <<nHandles, done, loads, errors, preloaded, listening, timer,
               events, audioSrc>>
allVars == <<vars, audioVars>>

Handles == 0..(MaxHandles - 1)

AudioInit ==
  /\ Init
  /\ nHandles = 0
  /\ done = [h \in Handles |-> FALSE]
  /\ loads = [h \in Handles |-> 0]
  /\ errors = [h \in Handles |-> 0]
  /\ preloaded = [h \in Handles |-> "none"]
  /\ listening = {}
  /\ timer = [h \in Handles |-> -1]
  /\ events = 0
  /\ audioSrc = [h \in Handles |-> [bytes |-> <<>>, digits |-> <<>>]]

\* A variant of finish without its "if (done) return".
FinishUnchecked(h) ==
  /\ done' = [done EXCEPT ![h] = TRUE]
  /\ preloaded' = [preloaded EXCEPT ![h] = "audio"]
  /\ loads' = [loads EXCEPT ![h] = @ + 1]
  /\ UNCHANGED errors

\* finish(audio): once only, store the audio and call onload.
Finish(h) ==
  IF done[h] THEN UNCHANGED <<done, preloaded, loads, errors>>
  ELSE /\ done' = [done EXCEPT ![h] = TRUE]
       /\ preloaded' = [preloaded EXCEPT ![h] = "audio"]
       /\ loads' = [loads EXCEPT ![h] = @ + 1]
       /\ UNCHANGED errors

\* fail(): once only, store an empty Audio shim and call onerror.
Fail(h) ==
  IF done[h] THEN UNCHANGED <<done, preloaded, loads, errors>>
  ELSE /\ done' = [done EXCEPT ![h] = TRUE]
       /\ preloaded' = [preloaded EXCEPT ![h] = "shim"]
       /\ errors' = [errors EXCEPT ![h] = @ + 1]
       /\ UNCHANGED loads

-----------------------------------------------------------------------------
(* encode64, the base64 encoder of audio.onerror's data: URL fallback.     *)
(* leftchar is a JavaScript int32: << 8 keeps the low 32 bits and may     *)
(* turn it negative; >> is floor division by a power of two and & of a    *)
(* low mask is % on the two's-complement value, so both are exact on      *)
(* negative values too.  The | after << 8 sets bits that << left zero, so *)
(* it is +.  A digit is its index in BASE, and PAD is Pad.                *)

Pad == 64

\* x << 8 on an int32 x: bits 0..22 move up, bit 23 becomes the sign bit.
ShiftLeft8(x) ==
  LET low == (x % 2^23) * 256
  IN IF (x \div 2^23) % 2 = 1 THEN low - 2^30 - 2^30 ELSE low

\* A variant of the inner while loop that stops at six bits.
RECURSIVE DrainStrict(_, _, _)
DrainStrict(leftchar, leftbits, ret) ==
  IF leftbits > 6
  THEN DrainStrict(leftchar, leftbits - 6,
                   Append(ret, (leftchar \div 2^(leftbits - 6)) % 64))
  ELSE <<leftbits, ret>>

\* while (leftbits >= 6) { curr = (leftchar >> (leftbits-6)) & 0x3f;
\*   leftbits -= 6; ret += BASE[curr]; }
RECURSIVE Drain(_, _, _)
Drain(leftchar, leftbits, ret) ==
  IF leftbits >= 6
  THEN Drain(leftchar, leftbits - 6,
             Append(ret, (leftchar \div 2^(leftbits - 6)) % 64))
  ELSE <<leftbits, ret>>

\* The for loop: leftchar = (leftchar << 8) | data[i]; leftbits += 8; drain.
RECURSIVE Encode64Loop(_, _, _, _, _)
Encode64Loop(data, i, leftchar, leftbits, ret) ==
  IF i > Len(data) THEN <<leftchar, leftbits, ret>>
  ELSE LET lc == ShiftLeft8(leftchar) + data[i]
           d  == Drain(lc, leftbits + 8, ret)
       IN Encode64Loop(data, i + 1, lc, d[1], d[2])

\* encode64(data): the loop, then two or four leftover bits padded.
Encode64(data) ==
  LET r == Encode64Loop(data, 1, 0, 0, <<>>)
      leftchar == r[1]
      leftbits == r[2]
  IN IF leftbits = 2 THEN r[3] \o <<(leftchar % 4) * 16, Pad, Pad>>
     ELSE IF leftbits = 4 THEN r[3] \o <<(leftchar % 16) * 4, Pad>>
     ELSE r[3]

\* RFC 4648 base64 by groups of three bytes, as the reference.
Base64Reference(data) ==
  LET n == Len(data)
      full == n \div 3
      Group(j) == data[3*j - 2] * 65536 + data[3*j - 1] * 256 + data[3*j]
      Digit(v, k) == (v \div (2^(6 * (3 - k)))) % 64
      body == [k \in 1..(4 * full) |-> Digit(Group((k - 1) \div 4 + 1), (k - 1) % 4)]
  IN body \o
     CASE n % 3 = 0 -> <<>>
       [] n % 3 = 1 -> <<data[n] \div 4, (data[n] % 4) * 16, Pad, Pad>>
       [] n % 3 = 2 -> LET v == data[n - 1] * 256 + data[n]
                      IN <<v \div 1024, (v \div 16) % 64, (v % 16) * 4, Pad>>

\* The byte arrays an audio preload may carry: every length mod 3, a first
\* byte that makes leftchar negative after the fourth byte, and a fifth
\* byte that shifts it out again.
EncodeInputs == {<<255, 254, 129, 1, 0>>, <<129>>, <<1, 254>>, <<255, 1, 129>>}

-----------------------------------------------------------------------------
\* A variant of handle that relies on the Audio element's events alone.
HandleWithoutTimeout(blob) ==
  LET h == nHandles IN
  /\ h < MaxHandles
  /\ nHandles' = h + 1
  /\ IF blob = "ok"
     THEN /\ listening' = listening \cup {h}
          /\ UNCHANGED <<done, preloaded, loads, errors, timer>>
     ELSE /\ Fail(h)
          /\ UNCHANGED <<listening, timer>>
  /\ NoRun
  /\ UNCHANGED <<allowAsyncCallbacks, queuedAsyncCallbacks, draining, armed,
                 kind, nextReg, ABORT, runs, dropped, ticks, events, audioSrc>>

\* audioPlugin.handle(byteArray, name, onload, onerror).  blob is how the
\* Blob step goes: "none" (no Blob constructor) and "throws" end in fail();
\* "ok" creates the Audio element, attaches its listeners and arms the
\* 10 s safeSetTimeout(finish).
Handle(blob) ==
  LET h == nHandles IN
  /\ h < MaxHandles
  /\ nHandles' = h + 1
  /\ IF blob = "ok"
     THEN /\ listening' = listening \cup {h}
          /\ timer' = [timer EXCEPT ![h] = nextReg]
          /\ Register("timeout")
          /\ UNCHANGED <<done, preloaded, loads, errors>>
     ELSE /\ Fail(h)
          /\ NoRun
          /\ UNCHANGED <<listening, timer, allowAsyncCallbacks,
                         queuedAsyncCallbacks, draining, armed, kind, nextReg,
                         ABORT, runs, dropped, ticks>>
  /\ UNCHANGED <<events, audioSrc>>

\* The Audio element fires canplaythrough: finish(audio).  Browser events
\* are dispatched only while no JavaScript runs.
CanPlayThrough(h) ==
  /\ Idle
  /\ h \in listening
  /\ events < MaxEvents
  /\ events' = events + 1
  /\ Finish(h)
  /\ NoRun
  /\ UNCHANGED <<allowAsyncCallbacks, queuedAsyncCallbacks, draining, armed,
                 kind, nextReg, ABORT, runs, dropped, ticks,
                 nHandles, listening, timer, audioSrc>>

\* audio.onerror: "if (done) return", else audio.src becomes the data: URL
\* of encode64(byteArray), and finish(audio) without waiting for it to
\* work.  The handle's byteArray is first read here, so it is chosen here.
AudioOnError(h, data) ==
  /\ Idle
  /\ h \in listening
  /\ events < MaxEvents
  /\ events' = events + 1
  /\ IF done[h] THEN UNCHANGED <<done, preloaded, loads, errors, audioSrc>>
     ELSE /\ audioSrc' = [audioSrc EXCEPT ![h] =
                            [bytes |-> data, digits |-> Encode64(data)]]
          /\ Finish(h)
  /\ NoRun
  /\ UNCHANGED <<allowAsyncCallbacks, queuedAsyncCallbacks, draining, armed,
                 kind, nextReg, ABORT, runs, dropped, ticks,
                 nHandles, listening, timer>>

\* What a timer callback body does beyond AsyncCallbacks' "it ran": the
\* fallback timer of a handle call runs finish(audio); others touch no
\* audio state.
TimerBody(r) ==
  IF lastRun' # <<>> /\ \E h \in 0..(nHandles - 1) : timer[h] = r
  THEN /\ Finish(CHOOSE h \in 0..(nHandles - 1) : timer[h] = r)
       /\ UNCHANGED <<nHandles, listening, timer, events, audioSrc>>
  ELSE UNCHANGED audioVars


-----------------------------------------------------------------------------
TimerFires == \E r \in Regs : FireOnce(r) /\ TimerBody(r)

QueuedRuns == draining # <<>> /\ DrainNext /\ TimerBody(Head(draining))

AudioNext ==
  \/ \E blob \in {"none", "throws", "ok"} : Handle(blob)
  \/ \E h \in Handles : CanPlayThrough(h) \/ \E d \in EncodeInputs : AudioOnError(h, d)
  \/ TimerFires
  \/ QueuedRuns
  \/ /\ \/ \E k \in {"timeout", "raf"} : Register(k)
        \/ Register("interval")
        \/ \E millis \in {-1, 0} : AsyncCall(millis)
        \/ AsyncRunScript
        \/ PauseAsyncCallbacks
        \/ ResumeAsyncCallbacks
        \/ Abort
        \/ \E r \in Regs : FireInterval(r)
     /\ UNCHANGED audioVars

\* The host runs due timers whenever no JavaScript runs, and a running
\* resumeAsyncCallbacks finishes its forEach.  Canplaythrough and error
\* carry no fairness: the browser may never send them.
AudioSpec ==
  /\ AudioInit /\ [][AudioNext]_allVars
  /\ WF_allVars(TimerFires)
  /\ WF_allVars(QueuedRuns)

-----------------------------------------------------------------------------
\* Every handle call ends in exactly one of onload and onerror, once: the
\* done flag holds against canplaythrough, error and the fallback timer
\* arriving in any order and any number of times, and a timer queued while
\* paused and run by resumeAsyncCallbacks after the element already
\* finished adds nothing.
SettlesOnce ==
  \A h \in Handles :
    loads[h] + errors[h] = IF done[h] THEN 1 ELSE 0

\* A handle call settles even when the browser never fires canplaythrough
\* or error ("we do not always get oncanplaythrough or onerror"), unless
\* the runtime aborts or async callbacks stay paused: the 10 s fallback
\* timer finishes it.
AudioEventuallySettles ==
  \A h \in Handles :
    (h < nHandles) ~> (done[h] \/ ABORT \/ ~allowAsyncCallbacks)

\* The data: URL of audio.onerror's fallback is standard base64 of the
\* handle's bytes, also where leftchar << 8 passes 2^31 and wraps, and
\* where two or four bits are left over.
Encode64MatchesReference ==
  \A h \in Handles : audioSrc[h].digits = Base64Reference(audioSrc[h].bytes)
====
