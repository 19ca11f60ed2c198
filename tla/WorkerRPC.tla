------------------------------ MODULE WorkerRPC ------------------------------
(***************************************************************************)
(* The request/response protocol between the page and its web workers     *)
(* (emscripten_create_worker, _call_worker, _destroy_worker,              *)
(* _worker_respond[_provisionally], _get_worker_queue_size, and the       *)
(* page-side onmessage handler).                                          *)
(*                                                                         *)
(* Browser.workers is a function from worker ids to an info record or     *)
(* NULL; an id is Browser.workers.length at creation and is never reused. *)
(* Each worker has two FIFO channels (postMessage keeps order per port).  *)
(* On the worker side only what src/ does is modelled: respond and        *)
(* respond_provisionally answer workerCallbackId, the id of the last       *)
(* message the worker took, and refuse once a final response was sent.    *)
(* Taking a message (which sets workerCallbackId and clears               *)
(* workerResponded) is the worker runtime's, outside this repository.     *)
(*                                                                         *)
(* Response payloads are abstracted to their length (NoData when the      *)
(* worker passes a null pointer).  The Emscripten heap is a set of        *)
(* <<pointer, size>> blocks; malloc returns a fresh pointer.              *)
(***************************************************************************)
EXTENDS Integers, Sequences, FiniteSets

CONSTANTS
  NULL,          \* a destroyed entry of Browser.workers / a removed callback
  NoData,        \* a response without data (data pointer 0)
  NoMsg,         \* workerCallbackId before the worker took any message
  MaxWorkers,    \* bound on emscripten_create_worker calls
  MaxCalls,      \* bound on emscripten_call_worker calls, all workers
  MaxResponses,  \* bound on responses posted, all workers
  DataSizes      \* lengths a response payload may have

VARIABLES
  workers,     \* Browser.workers: id -> info record or NULL
  nWorkers,    \* Browser.workers.length
  toWorker,    \* id -> callbackIds posted to the worker, in order
  toMain,      \* id -> responses posted by the worker, in order
  terminated,  \* ids whose worker was terminated
  wCallbackId, \* worker side: workerCallbackId
  wResponded,  \* worker side: workerResponded
  heap,        \* allocated blocks <<ptr, size>>
  nextPtr,     \* next pointer malloc returns
  ABORT,       \* the runtime aborted
  calls,       \* calls made (bounded)
  responses,   \* responses posted (bounded)
  delivery     \* ghost: <<ptr, len>> handed to the callback just run, or NULL

vars == <<workers, nWorkers, toWorker, toMain, terminated, wCallbackId,
          wResponded, heap, nextPtr, ABORT, calls, responses, delivery>>

WorkerIds == 0..(MaxWorkers - 1)

Payloads == {NoData} \cup DataSizes

Response == [callbackId : Int \cup {NoMsg}, finalResponse : BOOLEAN,
             data : Payloads]

\* The info record emscripten_create_worker stores (lines 1347-1353);
\* callbacks[k+1] is TRUE while callbackId k still has its callback object.
NewInfo == [callbacks |-> <<>>, awaited |-> 0, buffer |-> 0, bufferSize |-> 0]

Live(i) == i < nWorkers /\ workers[i] # NULL

\* emscripten_get_worker_queue_size(id): -1 without a worker, else awaited.
GetWorkerQueueSize(id) == IF Live(id) THEN workers[id].awaited ELSE -1

Init ==
  /\ workers = [i \in WorkerIds |-> NULL]
  /\ nWorkers = 0
  /\ toWorker = [i \in WorkerIds |-> <<>>]
  /\ toMain = [i \in WorkerIds |-> <<>>]
  /\ terminated = {}
  /\ wCallbackId = [i \in WorkerIds |-> NoMsg]
  /\ wResponded = [i \in WorkerIds |-> FALSE]
  /\ heap = {}
  /\ nextPtr = 1
  /\ ABORT = FALSE
  /\ calls = 0
  /\ responses = 0
  /\ delivery = NULL

-----------------------------------------------------------------------------
(* Page side.                                                              *)

CreateWorker ==
  /\ nWorkers < MaxWorkers
  /\ workers' = [workers EXCEPT ![nWorkers] = NewInfo]
  /\ nWorkers' = nWorkers + 1
  /\ delivery' = NULL
  /\ UNCHANGED <<toWorker, toMain, terminated, wCallbackId, wResponded,
                 heap, nextPtr, ABORT, calls, responses>>

\* free(info.buffer) when it is set.
FreeBuffer(info) == {b \in heap : b[1] # info.buffer}

\* A variant that counts every call as awaited, with or without callback.
CallWorkerAlwaysAwaits(i, hasCallback) ==
  LET info == workers[i]
      cbId == IF hasCallback THEN Len(info.callbacks) ELSE -1
  IN
  /\ Live(i)
  /\ calls < MaxCalls
  /\ workers' = [workers EXCEPT ![i] =
        [info EXCEPT !.callbacks = IF hasCallback THEN Append(@, TRUE) ELSE @,
                     !.awaited = @ + 1]]
  /\ toWorker' = [toWorker EXCEPT ![i] = Append(@, cbId)]
  /\ calls' = calls + 1
  /\ delivery' = NULL
  /\ UNCHANGED <<nWorkers, toMain, terminated, wCallbackId, wResponded,
                 heap, nextPtr, ABORT, responses>>

\* Calling a destroyed or unknown id throws a TypeError before any state
\* changes (info is null), so only live ids are called.
CallWorker(i, hasCallback) ==
  LET info == workers[i]
      cbId == IF hasCallback THEN Len(info.callbacks) ELSE -1
  IN
  /\ Live(i)
  /\ calls < MaxCalls
  /\ workers' = [workers EXCEPT ![i] =
        IF hasCallback
        THEN [info EXCEPT !.callbacks = Append(@, TRUE), !.awaited = @ + 1]
        ELSE info]
  /\ toWorker' = [toWorker EXCEPT ![i] = Append(@, cbId)]
  /\ calls' = calls + 1
  /\ delivery' = NULL
  /\ UNCHANGED <<nWorkers, toMain, terminated, wCallbackId, wResponded,
                 heap, nextPtr, ABORT, responses>>

\* A variant that terminates and frees but leaves the entry in place.
DestroyWorkerKeepsEntry(i) ==
  /\ Live(i)
  /\ terminated' = terminated \cup {i}
  /\ heap' = FreeBuffer(workers[i])
  /\ delivery' = NULL
  /\ UNCHANGED <<workers, nWorkers, toWorker, toMain, wCallbackId,
                 wResponded, nextPtr, ABORT, calls, responses>>

\* Destroying a destroyed id throws (info is null) before any state changes.
DestroyWorker(i) ==
  /\ Live(i)
  /\ terminated' = terminated \cup {i}
  /\ heap' = FreeBuffer(workers[i])
  /\ workers' = [workers EXCEPT ![i] = NULL]
  /\ delivery' = NULL
  /\ UNCHANGED <<nWorkers, toWorker, toMain, wCallbackId, wResponded,
                 nextPtr, ABORT, calls, responses>>

(* info_worker_onmessage (lines 1354-1379).  A response is dropped when   *)
(* the runtime aborted, the worker was destroyed, or its callbackId has   *)
(* no callback (-1, or removed by an earlier final response).             *)
Accepts(i, m) ==
  /\ ~ABORT
  /\ workers[i] # NULL
  /\ m.callbackId \in 0..(Len(workers[i].callbacks) - 1)
  /\ workers[i].callbacks[m.callbackId + 1]

\* A variant that decrements awaited on every response.
AnsweredAlwaysDecrements(info, m) ==
  [info EXCEPT !.awaited = @ - 1,
               !.callbacks[m.callbackId + 1] = ~m.finalResponse]

\* A final response ends the call: awaited--, callbacks[callbackId] = null.
Answered(info, m) ==
  IF m.finalResponse
  THEN [info EXCEPT !.awaited = @ - 1, !.callbacks[m.callbackId + 1] = FALSE]
  ELSE info

\* A variant with the size comparison the wrong way round.
NeedsGrowInverted(info, d) == info.buffer = 0 \/ info.bufferSize > d

\* The shared receive buffer is (re)allocated when unset or too small.
NeedsGrow(info, d) == info.buffer = 0 \/ info.bufferSize < d

MessageDelivered(i) ==
  LET m    == Head(toMain[i])
      info == Answered(workers[i], m)
      grow == m.data # NoData /\ NeedsGrow(info, m.data)
      next == IF grow THEN [info EXCEPT !.buffer = nextPtr,
                                        !.bufferSize = m.data]
                      ELSE info
  IN
  /\ toMain[i] # <<>>
  /\ Accepts(i, m)
  /\ toMain' = [toMain EXCEPT ![i] = Tail(@)]
  /\ workers' = [workers EXCEPT ![i] = next]
  /\ heap' = IF grow THEN FreeBuffer(info) \cup {<<nextPtr, m.data>>}
                     ELSE heap
  /\ nextPtr' = IF grow THEN nextPtr + 1 ELSE nextPtr
  /\ delivery' = [worker |-> i, callbackId |-> m.callbackId,
                  ptr |-> IF m.data = NoData THEN 0 ELSE next.buffer,
                  len |-> IF m.data = NoData THEN 0 ELSE m.data]
  /\ UNCHANGED <<nWorkers, toWorker, terminated, wCallbackId, wResponded,
                 ABORT, calls, responses>>

\* A variant that counts a final response down before the callback lookup.
MessageIgnoredCountsFinal(i) ==
  LET m == Head(toMain[i]) IN
  /\ toMain[i] # <<>>
  /\ ~Accepts(i, m)
  /\ toMain' = [toMain EXCEPT ![i] = Tail(@)]
  /\ workers' = IF ~ABORT /\ workers[i] # NULL /\ m.finalResponse
                THEN [workers EXCEPT ![i].awaited = @ - 1] ELSE workers
  /\ delivery' = NULL
  /\ UNCHANGED <<nWorkers, toWorker, terminated, wCallbackId,
                 wResponded, heap, nextPtr, ABORT, calls, responses>>

MessageIgnored(i) ==
  /\ toMain[i] # <<>>
  /\ ~Accepts(i, Head(toMain[i]))
  /\ toMain' = [toMain EXCEPT ![i] = Tail(@)]
  /\ delivery' = NULL
  /\ UNCHANGED <<workers, nWorkers, toWorker, terminated, wCallbackId,
                 wResponded, heap, nextPtr, ABORT, calls, responses>>

\* abort() elsewhere in the runtime.
Abort ==
  /\ ~ABORT
  /\ ABORT' = TRUE
  /\ delivery' = NULL
  /\ UNCHANGED <<workers, nWorkers, toWorker, toMain, terminated,
                 wCallbackId, wResponded, heap, nextPtr, calls, responses>>

-----------------------------------------------------------------------------
(* Worker side.                                                            *)

Running(i) == i < nWorkers /\ i \notin terminated

\* The worker runtime takes the next message: workerCallbackId is set and
\* workerResponded cleared.  Its handler may return before responding and
\* respond later, so responses are separate steps.
TakeMessage(i) ==
  /\ Running(i)
  /\ toWorker[i] # <<>>
  /\ wCallbackId' = [wCallbackId EXCEPT ![i] = Head(toWorker[i])]
  /\ wResponded' = [wResponded EXCEPT ![i] = FALSE]
  /\ toWorker' = [toWorker EXCEPT ![i] = Tail(@)]
  /\ delivery' = NULL
  /\ UNCHANGED <<workers, nWorkers, toMain, terminated, heap, nextPtr,
                 ABORT, calls, responses>>

\* emscripten_worker_respond_provisionally / emscripten_worker_respond:
\* both throw once the final response was sent, else post to the page.
Post(i, d, final) ==
  /\ Running(i)
  /\ wCallbackId[i] # NoMsg
  /\ ~wResponded[i]
  /\ responses < MaxResponses
  /\ toMain' = [toMain EXCEPT ![i] = Append(@,
        [callbackId |-> wCallbackId[i], finalResponse |-> final, data |-> d])]
  /\ responses' = responses + 1
  /\ delivery' = NULL
  /\ UNCHANGED <<workers, nWorkers, toWorker, terminated, wCallbackId,
                 heap, nextPtr, ABORT, calls>>

RespondProvisionally(i, d) ==
  /\ Post(i, d, FALSE)
  /\ UNCHANGED wResponded

Respond(i, d) ==
  /\ Post(i, d, TRUE)
  /\ wResponded' = [wResponded EXCEPT ![i] = TRUE]

-----------------------------------------------------------------------------
Next ==
  \/ CreateWorker
  \/ \E i \in WorkerIds :
       \/ \E cb \in BOOLEAN : CallWorker(i, cb)
       \/ DestroyWorker(i)
       \/ MessageDelivered(i)
       \/ MessageIgnored(i)
       \/ TakeMessage(i)
       \/ \E d \in Payloads : RespondProvisionally(i, d) \/ Respond(i, d)
  \/ Abort

Spec == Init /\ [][Next]_vars

-----------------------------------------------------------------------------
TypeOK ==
  /\ nWorkers \in 0..MaxWorkers
  /\ \A i \in WorkerIds :
       workers[i] = NULL \/
       /\ workers[i].callbacks \in Seq(BOOLEAN)
       /\ workers[i].awaited \in Nat
       /\ workers[i].buffer \in 0..(nextPtr - 1)
       /\ workers[i].bufferSize \in Nat
  /\ toWorker \in [WorkerIds -> Seq(Int)]
  /\ toMain \in [WorkerIds -> Seq(Response)]
  /\ heap \subseteq (1..(nextPtr - 1)) \X Nat
  /\ ABORT \in BOOLEAN

\* emscripten_get_worker_queue_size reports, for a live worker, exactly the
\* calls made with a callback whose final response has not been handled,
\* whatever mix of callback-less calls, provisional responses and
\* responses to removed callbacks the page and worker exchanged.
QueueSizeCountsPending ==
  \A i \in WorkerIds :
    GetWorkerQueueSize(i) =
      IF Live(i) THEN Cardinality({k \in DOMAIN workers[i].callbacks :
                                      workers[i].callbacks[k]})
      ELSE -1

\* The pointer info_worker_onmessage hands to a callback is 0 with length 0,
\* or a block of the heap that is still allocated and at least as long as
\* the data copied into it, across buffer reuse, regrowth and destroy.
CallbackBufferValid ==
  delivery # NULL =>
    \/ delivery.ptr = 0 /\ delivery.len = 0
    \/ \E b \in heap : b[1] = delivery.ptr /\ b[2] >= delivery.len

\* No callback of a worker runs after emscripten_destroy_worker, although
\* the worker's responses may still be in flight when it is destroyed.
NoCallbackAfterDestroy ==
  delivery # NULL => delivery.worker \notin terminated

=============================================================================
