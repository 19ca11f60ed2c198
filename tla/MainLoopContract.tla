-------------------------- MODULE MainLoopContract --------------------------
(***************************************************************************)
(* What the main loop promises its callers, without timers or generation   *)
(* numbers: one loop that is either active or not.  Only starting or       *)
(* resuming it makes it active; pausing, cancelling, aborting or a         *)
(* throwing tick ends it.  The payload starts only while the loop is       *)
(* active and no blocker is queued; blockers run one at a time, in the     *)
(* order they were pushed, and never while the payload runs.              *)
(*                                                                         *)
(* MainLoop is checked to implement this module (MainLoop!ContractSpec).   *)
(***************************************************************************)
EXTENDS Sequences

CONSTANTS Funcs, NULL

VARIABLES
  func,     \* the configured main-loop function, or NULL
  active,   \* whether the loop will keep ticking
  queue,    \* blockers still to run (their counted flags), in order
  tick,     \* "none", or the "blocker" or "payload" now running
  aborted   \* the runtime has aborted

cvars == <<func, active, queue, tick, aborted>>

Init ==
  /\ func = NULL
  /\ active = FALSE
  /\ queue = <<>>
  /\ tick = "none"
  /\ aborted = FALSE

Start(f) ==
  /\ func = NULL
  /\ func' = f
  /\ active' = ~aborted
  /\ UNCHANGED <<queue, tick, aborted>>

Pause ==
  /\ active' = FALSE
  /\ UNCHANGED <<func, queue, tick, aborted>>

Resume ==
  /\ active' = (func # NULL /\ ~aborted)
  /\ UNCHANGED <<func, queue, tick, aborted>>

Cancel ==
  /\ func' = NULL
  /\ active' = FALSE
  /\ UNCHANGED <<queue, tick, aborted>>

Abort ==
  /\ aborted' = TRUE
  /\ active' = FALSE
  /\ UNCHANGED <<func, queue, tick>>

PushBlocker(c) ==
  /\ queue' = Append(queue, c)
  /\ UNCHANGED <<func, active, tick, aborted>>

RunBlocker ==
  /\ tick = "none" /\ ~aborted /\ queue # <<>>
  /\ tick' = "blocker"
  /\ queue' = Tail(queue)
  /\ UNCHANGED <<func, active, aborted>>

RunPayload ==
  /\ tick = "none" /\ active /\ queue = <<>>
  /\ tick' = "payload"
  /\ UNCHANGED <<func, active, queue, aborted>>

TickDone ==
  /\ tick # "none"
  /\ tick' = "none"
  /\ UNCHANGED <<func, active, queue, aborted>>

TickFails ==
  /\ tick # "none"
  /\ tick' = "none"
  /\ active' \in {active, FALSE}
  /\ UNCHANGED <<func, queue, aborted>>

Next ==
  \/ \E f \in Funcs : Start(f)
  \/ Pause \/ Resume \/ Cancel \/ Abort
  \/ \E c \in BOOLEAN : PushBlocker(c)
  \/ RunBlocker \/ RunPayload \/ TickDone \/ TickFails

Spec == Init /\ [][Next]_cvars

=============================================================================
