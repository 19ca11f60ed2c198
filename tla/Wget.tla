--------------------------------- MODULE Wget ---------------------------------
(***************************************************************************)
(* The XHR downloads of library_browser.js: emscripten_async_wget (through *)
(* FS.createPreloadedFile), emscripten_async_wget_data (through           *)
(* Browser.asyncLoad), emscripten_async_wget2, emscripten_async_wget2_data *)
(* and emscripten_async_wget2_abort, with Browser.wgetRequests and the     *)
(* request handle counter.                                                 *)
(*                                                                         *)
(* A request is a number in Reqs.  The browser answers an in-flight XHR   *)
(* with exactly one of load (with an HTTP status) or error, in any order  *)
(* across requests; XHR.abort() fires onabort synchronously and no load   *)
(* or error after it.  Progress events only call C and change no state of *)
(* this module, so they are left out.  The C callbacks are assumed        *)
(* present and returning; URLs, paths and bodies are abstracted to        *)
(* "http" or "relative" and the status code.                               *)
(***************************************************************************)
EXTENDS Integers, FiniteSets

CONSTANTS
  MaxReqs,    \* bound on requests started
  Statuses    \* HTTP status codes a load may carry (0: file:// and the like)

VARIABLES
  nextWgetRequestHandle,  \* Browser.nextWgetRequestHandle
  wgetRequests,           \* the handles that are keys of Browser.wgetRequests
  kind,      \* request -> "wget", "wget_data", "wget2" or "wget2_data"
  url,       \* request -> "http" or "relative" (what _url starts with)
  handle,    \* request -> its wget2 handle, -1 for the other two kinds
  free,      \* request -> the free argument of wget2_data
  xhr,       \* request -> "loading", "done" or "aborted"
  heap,      \* requests whose malloc'd response buffer is live
  files,     \* requests whose destination file was written
  delivered, \* request -> C callback received: "none", "load" or "error"
  nReqs      \* requests started

vars == <<nextWgetRequestHandle, wgetRequests, kind, url, handle, free, xhr,
          heap, files, delivered, nReqs>>

Reqs  == 0..(MaxReqs - 1)
Kinds == {"wget", "wget_data", "wget2", "wget2_data"}
Urls  == {"http", "relative"}

Init ==
  /\ nextWgetRequestHandle = 0
  /\ wgetRequests = {}
  /\ kind = [r \in Reqs |-> "wget"]
  /\ url = [r \in Reqs |-> "http"]
  /\ handle = [r \in Reqs |-> -1]
  /\ free = [r \in Reqs |-> FALSE]
  /\ xhr = [r \in Reqs |-> "loading"]
  /\ heap = {}
  /\ files = {}
  /\ delivered = [r \in Reqs |-> "none"]
  /\ nReqs = 0

InFlight(r) == r < nReqs /\ xhr[r] = "loading"

IsWget2(r) == kind[r] \in {"wget2", "wget2_data"}

-----------------------------------------------------------------------------
(* Starting a request: the XHR is opened and sent.  wget2 and wget2_data   *)
(* take the next handle and enter the XHR in Browser.wgetRequests after   *)
(* send; wget and wget_data have no handle.                               *)

\* A variant of getNextWgetRequestHandle that does not advance the counter.
StartHandleNotAdvanced(k, u, f) ==
  /\ nReqs < MaxReqs
  /\ kind' = [kind EXCEPT ![nReqs] = k]
  /\ url' = [url EXCEPT ![nReqs] = u]
  /\ free' = [free EXCEPT ![nReqs] = f]
  /\ nReqs' = nReqs + 1
  /\ IF k \in {"wget2", "wget2_data"}
     THEN /\ handle' = [handle EXCEPT ![nReqs] = nextWgetRequestHandle]
          /\ wgetRequests' = wgetRequests \cup {nextWgetRequestHandle}
     ELSE UNCHANGED <<handle, wgetRequests>>
  /\ UNCHANGED <<nextWgetRequestHandle, xhr, heap, files, delivered>>

Start(k, u, f) ==
  /\ nReqs < MaxReqs
  /\ kind' = [kind EXCEPT ![nReqs] = k]
  /\ url' = [url EXCEPT ![nReqs] = u]
  /\ free' = [free EXCEPT ![nReqs] = f]
  /\ nReqs' = nReqs + 1
  /\ IF k \in {"wget2", "wget2_data"}
     THEN /\ handle' = [handle EXCEPT ![nReqs] = nextWgetRequestHandle]
          /\ nextWgetRequestHandle' = nextWgetRequestHandle + 1
          /\ wgetRequests' = wgetRequests \cup {nextWgetRequestHandle}
     ELSE UNCHANGED <<handle, nextWgetRequestHandle, wgetRequests>>
  /\ UNCHANGED <<xhr, heap, files, delivered>>

\* The four entry points.  The request method, POST parameter, paths and
\* the callbacks' arguments are abstracted away.
AsyncWget(u) == Start("wget", u, FALSE)
AsyncWgetData(u) == Start("wget_data", u, FALSE)
AsyncWget2(u) == Start("wget2", u, FALSE)
AsyncWget2Data(u, f) == Start("wget2_data", u, f)

\* wget_data and wget2_data on success: buffer = _malloc(len), copy, call
\* onload(..., buffer, len), then _free(buffer) (wget2_data: if free).
DeliverBuffer(r) ==
  heap' = IF kind[r] = "wget2_data" /\ ~free[r] THEN heap \cup {r} ELSE heap

\* The end common to every load and error handler: the XHR is done, C got
\* outcome, and a wget2 handle is deleted from Browser.wgetRequests.
Settle(r, outcome) ==
  /\ xhr' = [xhr EXCEPT ![r] = "done"]
  /\ delivered' = [delivered EXCEPT ![r] = outcome]
  /\ wgetRequests' = IF IsWget2(r) THEN wgetRequests \ {handle[r]}
                     ELSE wgetRequests
  /\ UNCHANGED <<nextWgetRequestHandle, kind, url, handle, free, nReqs>>

\* Module['readAsync'] (the shell's XHR helper that asyncLoad and
\* createPreloadedFile use) succeeds on status 200, or 0 with a response.
ReadAsyncOk(status) == status \in {0, 200}

\* Browser.asyncLoad's callbacks from readAsync, for wget_data (then its
\* onload: malloc, onload, free; or its onerror) and for wget (then
\* createPreloadedFile's preFinish unlink and mkdirTree, the file, and
\* doCallback(onload); or doCallback(onerror)).  The preload plugins
\* createPreloadedFile runs on the way are the subject of AudioPreload.
AsyncLoadDone(r, status) ==
  /\ InFlight(r)
  /\ kind[r] \in {"wget", "wget_data"}
  /\ IF ReadAsyncOk(status)
     THEN /\ Settle(r, "load")
          /\ IF kind[r] = "wget_data"
             THEN DeliverBuffer(r) /\ UNCHANGED files
             ELSE files' = files \cup {r} /\ UNCHANGED heap
     ELSE Settle(r, "error") /\ UNCHANGED <<files, heap>>

\* http_onload of wget2: on 200 replace the file and call onload, else
\* onerror with the status; then delete the handle.
Wget2Load(r, status) ==
  /\ InFlight(r)
  /\ kind[r] = "wget2"
  /\ IF status = 200
     THEN Settle(r, "load") /\ files' = files \cup {r}
     ELSE Settle(r, "error") /\ UNCHANGED files
  /\ UNCHANGED heap

\* http_onload of wget2_data: success on status 200 or on any status when
\* the URL does not start with "http"; then delete the handle.
Wget2DataLoad(r, status) ==
  /\ InFlight(r)
  /\ kind[r] = "wget2_data"
  /\ IF status = 200 \/ url[r] # "http"
     THEN Settle(r, "load") /\ DeliverBuffer(r)
     ELSE Settle(r, "error") /\ UNCHANGED heap
  /\ UNCHANGED files

\* The browser's error event: onerror, then the handle is deleted.
NetError(r) ==
  /\ InFlight(r)
  /\ Settle(r, "error")
  /\ UNCHANGED <<heap, files>>

\* emscripten_async_wget2_abort(h): abort the XHR stored under h, if any;
\* its onabort runs synchronously and deletes the entry.  h is any handle
\* C may pass, including finished and never-issued ones.
Abort(h) ==
  /\ h \in wgetRequests
  /\ LET r == CHOOSE q \in 0..(nReqs - 1) :
                IsWget2(q) /\ handle[q] = h /\ xhr[q] = "loading"
     IN xhr' = [xhr EXCEPT ![r] = "aborted"]
  /\ wgetRequests' = wgetRequests \ {h}
  /\ UNCHANGED <<nextWgetRequestHandle, kind, url, handle, free, heap, files,
                 delivered, nReqs>>

Next ==
  \/ \E u \in Urls : AsyncWget(u) \/ AsyncWgetData(u) \/ AsyncWget2(u)
  \/ \E u \in Urls, f \in BOOLEAN : AsyncWget2Data(u, f)
  \/ \E r \in Reqs :
       \/ NetError(r)
       \/ \E s \in Statuses : AsyncLoadDone(r, s) \/ Wget2Load(r, s)
                                              \/ Wget2DataLoad(r, s)
  \/ \E h \in 0..nextWgetRequestHandle : Abort(h)

Spec == Init /\ [][Next]_vars

-----------------------------------------------------------------------------
TypeOK ==
  /\ nextWgetRequestHandle \in 0..MaxReqs
  /\ wgetRequests \subseteq 0..(MaxReqs - 1)
  /\ kind \in [Reqs -> Kinds]
  /\ url \in [Reqs -> Urls]
  /\ handle \in [Reqs -> -1..(MaxReqs - 1)]
  /\ free \in [Reqs -> BOOLEAN]
  /\ xhr \in [Reqs -> {"loading", "done", "aborted"}]
  /\ heap \subseteq Reqs /\ files \subseteq Reqs
  /\ delivered \in [Reqs -> {"none", "load", "error"}]
  /\ nReqs \in 0..MaxReqs

\* Browser.wgetRequests holds exactly the handles of the wget2 and
\* wget2_data requests still in flight, so emscripten_async_wget2_abort(h)
\* reaches the request C got h for while it runs, and nothing once it has
\* loaded, failed or been aborted, whatever order starts, loads, errors
\* and aborts of several requests come in.
TableTracksInFlight ==
  wgetRequests = {handle[r] : r \in {q \in 0..(nReqs - 1) :
                                       IsWget2(q) /\ xhr[q] = "loading"}}

====
