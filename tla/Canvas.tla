-------------------------------- MODULE Canvas --------------------------------
(***************************************************************************)
(* The canvas side of Browser: Browser.init's pointer-lock listeners and  *)
(* click handler, createContext, requestFullscreen with its wrapper div   *)
(* and fullscreenChange handler, the canvas size computation, and         *)
(* calculateMouseEvent.                                                    *)
(*                                                                         *)
(* The DOM is the canvas's chain of ancestors, innermost first: the page  *)
(* nodes PageChain and, inside them, the wrapper divs requestFullscreen   *)
(* creates (numbered 1, 2, ...).  The browser is an environment that      *)
(* grants or denies fullscreen and pointer-lock requests, lets the user   *)
(* leave either with Esc, lets other page code make another element       *)
(* fullscreen, and queues one change event per change, dispatched later   *)
(* while no JavaScript runs.  Each handler reads the document's state     *)
(* when it runs, not when the change happened.  One axis of the mouse is  *)
(* modelled (y is the same code); SDL is not part of this repository and  *)
(* is taken as undefined.  Sizes are abstracted to which rule produced    *)
(* them: "native", "aspect" (forcedAspectRatio) or "screen".              *)
(***************************************************************************)
EXTENDS Integers, SequencesExt

CONSTANTS
  Main, Body, Html,  \* the page's ancestors of the canvas (model values)
  NoElement,         \* document.fullscreenElement is null
  OtherElement,      \* a page element outside the canvas's ancestors
  MaxWrappers,       \* bound on requestFullscreen calls
  MaxChanges,        \* bound on browser fullscreen and pointer-lock changes
  MaxMouseEvents,    \* bound on calculateMouseEvent calls
  MaxMouseX,         \* bound on |mouseX| while the pointer is locked
  Positions,         \* canvas x coordinates an unlocked event may carry
  TouchIds           \* touch identifiers

PageChain == <<Main, Body, Html>>
Wrappers == 1..MaxWrappers
NoTouch == -1
Movements == {-1, 1}  \* movementX values a locked event may carry
\* The page's style sheet, as rule kinds: two adjacent canvas rules and others around them.
PageRules == <<"a", "canvas", "canvas", "b", "canvas">>

VARIABLES
  initted, ctx,                   \* Browser.initted, Module.ctx
  chain,                          \* the canvas's ancestors, innermost first
  nWrappers,                      \* wrapper divs created
  fsRequests,                     \* wrappers whose requestFullscreen is unanswered
  fsElement,                      \* document.fullscreenElement
  fsEvents,                       \* fullscreenchange events not yet dispatched
  fullscreenHandlersInstalled, lockPointer, resizeCanvas, isFullscreen,
  width, css,                     \* canvas.width and canvas.style width
  forcedAspect,                   \* Module.forcedAspectRatio is set
  plLocked,                       \* document.pointerLockElement is the canvas
  plRequested,                    \* a requestPointerLock is unanswered
  plEvents,                       \* pointerlockchange events not yet dispatched
  pointerLock,                    \* Browser.pointerLock
  mouseX, mouseMovementX, touches, lastTouches,
  changes, mouseEvents,           \* bounds' counters
  styleRules                      \* kinds of document.styleSheets[0].cssRules

fsVars == <<chain, nWrappers, fsRequests, fsElement, fsEvents,
            fullscreenHandlersInstalled, lockPointer, resizeCanvas,
            isFullscreen, width, css, forcedAspect>>
plVars == <<plLocked, plRequested, plEvents, pointerLock>>
mouseVars == <<mouseX, mouseMovementX, touches, lastTouches, mouseEvents>>
canvasVars == <<initted, ctx, fsVars, plVars, mouseVars, changes>>
vars == <<canvasVars, styleRules>>

Init ==
  /\ initted = FALSE /\ ctx = "none"
  /\ chain = PageChain /\ nWrappers = 0 /\ fsRequests = {}
  /\ fsElement = NoElement /\ fsEvents = 0
  /\ fullscreenHandlersInstalled = FALSE
  /\ lockPointer = TRUE /\ resizeCanvas = FALSE /\ isFullscreen = FALSE
  /\ width = "native" /\ css = "none"
  /\ forcedAspect \in BOOLEAN
  /\ plLocked = FALSE /\ plRequested = FALSE /\ plEvents = 0
  /\ pointerLock = FALSE
  /\ mouseX = 0 /\ mouseMovementX = 0
  /\ touches = [t \in TouchIds |-> NoTouch]
  /\ lastTouches = [t \in TouchIds |-> NoTouch]
  /\ changes = 0 /\ mouseEvents = 0
  /\ styleRules = PageRules

-----------------------------------------------------------------------------
(* Browser's own code.                                                     *)

\* canvas.requestPointerLock(): the browser answers later.
RequestPointerLock == plRequested' = TRUE

\* updateCanvasDimensions(canvas) after the DOM step ch: the fullscreen
\* test compares document.fullscreenElement with canvas.parentNode as it
\* is now; with resizeCanvas the backing size follows, else the CSS size.
UpdateCanvasDimensions(ch) ==
  LET target == IF fsElement = ch[1] THEN "screen"
                ELSE IF forcedAspect THEN "aspect" ELSE "native"
  IN /\ width' = IF resizeCanvas THEN target ELSE "native"
     /\ css' = IF resizeCanvas \/ target = "native" THEN "none" ELSE target

\* setFullscreenCanvasSize and setWindowedCanvasSize: the SDL_FULLSCREEN
\* flag (SDL is not part of this repository) aside, updateCanvasDimensions
\* and the resize listeners, which are C callbacks.
SetFullscreenCanvasSize(ch) == UpdateCanvasDimensions(ch)
SetWindowedCanvasSize(ch) == UpdateCanvasDimensions(ch)

\* Browser.init as createContext reaches it: once only, and, with a canvas,
\* the pointerlockchange listeners and the elementPointerLock click handler.
BrowserInit == initted' = TRUE

\* createContext(canvas, useWebGL, setInModule = true): a WebGL request
\* returns the existing Module.ctx; a failed creation returns null; a 2D
\* context asserts that no GL context exists; then Module.ctx and init.
CreateContext(useWebGL, created) ==
  /\ ~(useWebGL /\ ctx # "none")
  /\ created
  /\ ~(~useWebGL /\ ctx = "webgl")
  /\ ctx' = IF useWebGL THEN "webgl" ELSE "2d"
  /\ BrowserInit
  /\ UNCHANGED <<fsVars, plVars, mouseVars, changes>>

\* The canvas click handler (Module.elementPointerLock): request the lock
\* if Browser.pointerLock says it is not held.
CanvasClick ==
  /\ initted
  /\ ~pointerLock
  /\ RequestPointerLock
  /\ UNCHANGED <<initted, ctx, fsVars, plLocked, plEvents, pointerLock,
                 mouseVars, changes>>

\* A variant of pointerLockChange that only ever sets the flag.
PointerLockChangeSticky == pointerLock' = (pointerLock \/ plLocked)

\* pointerLockChange: Browser.pointerLock = (pointerLockElement === canvas).
PointerLockChange == pointerLock' = plLocked

\* requestFullscreen(lockPointer, resizeCanvas): store the options, install
\* fullscreenChange once, wrap the canvas in a new div and ask for it.
RequestFullscreen(lp, rc) ==
  LET w == nWrappers + 1 IN
  /\ nWrappers < MaxWrappers
  /\ nWrappers' = w
  /\ lockPointer' = lp /\ resizeCanvas' = rc
  /\ fullscreenHandlersInstalled' = TRUE
  /\ chain' = <<w>> \o chain
  /\ fsRequests' = fsRequests \cup {w}
  /\ UNCHANGED <<initted, ctx, fsElement, fsEvents, isFullscreen, width, css,
                 forcedAspect, plVars, mouseVars, changes>>

\* The deprecated requestFullScreen: after one err() it forwards.
RequestFullScreen(lp, rc) == RequestFullscreen(lp, rc)

\* A variant of fullscreenChange that does not first clear isFullscreen.
FullscreenChangeNoReset ==
  IF fsElement = chain[1]
  THEN /\ isFullscreen' = TRUE
       /\ IF lockPointer THEN RequestPointerLock ELSE UNCHANGED plRequested
       /\ UNCHANGED chain
       /\ IF resizeCanvas THEN SetFullscreenCanvasSize(chain)
          ELSE UpdateCanvasDimensions(chain)
  ELSE /\ UNCHANGED <<isFullscreen, plRequested>>
       /\ IF Len(chain) >= 2
          THEN /\ chain' = Tail(chain)
               /\ IF resizeCanvas THEN SetWindowedCanvasSize(Tail(chain))
                  ELSE UpdateCanvasDimensions(Tail(chain))
          ELSE UNCHANGED <<chain, width, css>>

\* fullscreenChange: isFullscreen = false; if the fullscreen element is the
\* canvas's parent, lock the pointer if asked, set isFullscreen and size
\* the canvas; otherwise take the canvas out of its parent (insertBefore
\* into the grandparent, removeChild of the parent) and size it.  When the
\* parent is <html> the insertBefore into the document throws.
FullscreenChange ==
  IF fsElement = chain[1]
  THEN /\ isFullscreen' = TRUE
       /\ IF lockPointer THEN RequestPointerLock ELSE UNCHANGED plRequested
       /\ UNCHANGED chain
       /\ IF resizeCanvas THEN SetFullscreenCanvasSize(chain)
          ELSE UpdateCanvasDimensions(chain)
  ELSE /\ isFullscreen' = FALSE
       /\ UNCHANGED plRequested
       /\ IF Len(chain) >= 2
          THEN /\ chain' = Tail(chain)
               /\ IF resizeCanvas THEN SetWindowedCanvasSize(Tail(chain))
                  ELSE UpdateCanvasDimensions(Tail(chain))
          ELSE UNCHANGED <<chain, width, css>>

\* setCanvasSize(width, height, noUpdates) and emscripten_set_canvas_size:
\* the new native size goes through updateCanvasDimensions; resize
\* listeners are C callbacks with no state here.
SetCanvasSize ==
  /\ UpdateCanvasDimensions(chain)
  /\ UNCHANGED <<initted, ctx, chain, nWrappers, fsRequests, fsElement,
                 fsEvents, fullscreenHandlersInstalled, lockPointer,
                 resizeCanvas, isFullscreen, forcedAspect, plVars, mouseVars,
                 changes>>

EmscriptenSetCanvasSize == SetCanvasSize

\* The unlocked mouse branch: the movement is the change from the stored
\* position, and the position is the event's canvas coordinate.
MouseAbsolute(x) == mouseMovementX' = x - mouseX /\ mouseX' = x

\* calculateMouseEvent(event).  Locked: the movement is the event's
\* movementX (0 for a non-mousemove event that carries mozMovementX, the
\* Firefox 764498 workaround, and for touch events, which carry none) and
\* is added to mouseX.  Unlocked: touch events without SDL's event.touch
\* return; other touch events record the previous and the new position of
\* their identifier; mouse events take the absolute coordinate.
CalculateMouseEvent(type, x, m, moz, id, hasTouch) ==
  LET isTouch == type \in {"touchstart", "touchmove", "touchend"}
      mv == IF type # "mousemove" /\ moz THEN 0 ELSE m
  IN
  /\ mouseEvents < MaxMouseEvents
  /\ mouseEvents' = mouseEvents + 1
  /\ IF pointerLock
     THEN /\ -MaxMouseX <= mouseX + mv /\ mouseX + mv <= MaxMouseX
          /\ mouseMovementX' = mv /\ mouseX' = mouseX + mv
          /\ UNCHANGED <<touches, lastTouches>>
     ELSE IF isTouch
     THEN /\ IF ~hasTouch THEN UNCHANGED <<touches, lastTouches>>
             ELSE IF type = "touchstart"
             THEN /\ lastTouches' = [lastTouches EXCEPT ![id] = x]
                  /\ touches' = [touches EXCEPT ![id] = x]
             ELSE /\ lastTouches' = [lastTouches EXCEPT ![id] =
                                       IF touches[id] = NoTouch THEN x
                                       ELSE touches[id]]
                  /\ touches' = [touches EXCEPT ![id] = x]
          /\ UNCHANGED <<mouseX, mouseMovementX>>
     ELSE MouseAbsolute(x) /\ UNCHANGED <<touches, lastTouches>>
  /\ UNCHANGED <<initted, ctx, fsVars, plVars, changes>>

-----------------------------------------------------------------------------
(* The browser.                                                            *)

Change == changes < MaxChanges /\ changes' = changes + 1

\* A pending requestFullscreen is granted while its div is in the document,
\* or denied (fullscreenerror, no listener here).
GrantFullscreen(w) ==
  /\ w \in fsRequests /\ w \in Range(chain)
  /\ Change
  /\ fsRequests' = fsRequests \ {w}
  /\ fsElement' = w /\ fsEvents' = fsEvents + 1
  /\ UNCHANGED <<initted, ctx, chain, nWrappers, fullscreenHandlersInstalled,
                 lockPointer, resizeCanvas, isFullscreen, width, css,
                 forcedAspect, plVars, mouseVars>>

DenyFullscreen(w) ==
  /\ w \in fsRequests
  /\ fsRequests' = fsRequests \ {w}
  /\ UNCHANGED <<initted, ctx, chain, nWrappers, fsElement, fsEvents,
                 fullscreenHandlersInstalled, lockPointer, resizeCanvas,
                 isFullscreen, width, css, forcedAspect, plVars, mouseVars,
                 changes>>

\* The user leaves fullscreen, or other page code makes another element
\* fullscreen.
FullscreenMoves(e) ==
  /\ fsElement # e
  /\ Change
  /\ fsElement' = e /\ fsEvents' = fsEvents + 1
  /\ UNCHANGED <<initted, ctx, chain, nWrappers, fsRequests,
                 fullscreenHandlersInstalled, lockPointer, resizeCanvas,
                 isFullscreen, width, css, forcedAspect, plVars, mouseVars>>

\* A queued fullscreenchange reaches fullscreenChange once it is installed.
DispatchFullscreenChange ==
  /\ fsEvents > 0
  /\ fsEvents' = fsEvents - 1
  /\ IF fullscreenHandlersInstalled THEN FullscreenChange
     ELSE UNCHANGED <<chain, isFullscreen, width, css, plRequested>>
  /\ UNCHANGED <<initted, ctx, nWrappers, fsRequests, fsElement,
                 fullscreenHandlersInstalled, lockPointer, resizeCanvas,
                 forcedAspect, plLocked, plEvents, pointerLock, mouseVars,
                 changes>>

\* A pending requestPointerLock is granted (a change event follows, also
\* when the canvas already held the lock) or denied.
AnswerPointerLock(granted) ==
  /\ plRequested
  /\ plRequested' = FALSE
  /\ IF granted
     THEN Change /\ plLocked' = TRUE /\ plEvents' = plEvents + 1
     ELSE UNCHANGED <<plLocked, plEvents, changes>>
  /\ UNCHANGED <<initted, ctx, fsVars, pointerLock, mouseVars>>

\* The user leaves pointer lock.
ExitPointerLock ==
  /\ plLocked
  /\ Change
  /\ plLocked' = FALSE /\ plEvents' = plEvents + 1
  /\ UNCHANGED <<initted, ctx, fsVars, plRequested, pointerLock, mouseVars>>

\* A queued pointerlockchange reaches pointerLockChange once Browser.init
\* has added the listeners.
DispatchPointerLockChange ==
  /\ plEvents > 0
  /\ plEvents' = plEvents - 1
  /\ IF initted THEN PointerLockChange ELSE UNCHANGED pointerLock
  /\ UNCHANGED <<initted, ctx, fsVars, plLocked, plRequested, mouseVars,
                 changes>>

-----------------------------------------------------------------------------
(* emscripten_hide_mouse, on the first style sheet's rules, each given by  *)
(* whether its cssText starts with "canvas" ("canvas") or not (any other  *)
(* value, kept to tell rules apart).                                      *)

\* A variant of the delete loop without the i-- after deleteRule(i).
RECURSIVE HideMouseNoStepBack(_, _)
HideMouseNoStepBack(rules, i) ==
  IF i > Len(rules) THEN rules
  ELSE IF rules[i] = "canvas" THEN HideMouseNoStepBack(RemoveAt(rules, i), i + 1)
  ELSE HideMouseNoStepBack(rules, i + 1)

\* for (i = 0; i < rules.length; i++) if canvas rule: deleteRule(i); i--.
RECURSIVE HideMouseLoop(_, _)
HideMouseLoop(rules, i) ==
  IF i > Len(rules) THEN rules
  ELSE IF rules[i] = "canvas" THEN HideMouseLoop(RemoveAt(rules, i), i)
  ELSE HideMouseLoop(rules, i + 1)

\* Then insertRule('canvas.emscripten {...}', 0), itself a canvas rule.
EmscriptenHideMouse(rules) == <<"canvas">> \o HideMouseLoop(rules, 1)

\* emscripten_hide_mouse() called from C.
HideMouse ==
  /\ styleRules' = EmscriptenHideMouse(styleRules)
  /\ UNCHANGED canvasVars

-----------------------------------------------------------------------------
CanvasNext ==
  \/ \E gl, ok \in BOOLEAN : CreateContext(gl, ok)
  \/ CanvasClick
  \/ \E lp, rc \in BOOLEAN : RequestFullscreen(lp, rc) \/ RequestFullScreen(lp, rc)
  \/ EmscriptenSetCanvasSize
  \/ \E t \in {"mousemove", "mousedown"}, x \in Positions, m \in Movements,
        moz \in BOOLEAN :
       CalculateMouseEvent(t, x, m, moz, CHOOSE i \in TouchIds : TRUE, FALSE)
  \/ \E t \in {"touchstart", "touchmove", "touchend"}, x \in Positions,
        id \in TouchIds, has \in BOOLEAN :
       CalculateMouseEvent(t, x, 0, FALSE, id, has)
  \/ \E w \in Wrappers : GrantFullscreen(w) \/ DenyFullscreen(w)
  \/ \E e \in {NoElement, OtherElement} : FullscreenMoves(e)
  \/ DispatchFullscreenChange
  \/ \E g \in BOOLEAN : AnswerPointerLock(g)
  \/ ExitPointerLock
  \/ DispatchPointerLockChange

Next ==
  \/ CanvasNext /\ UNCHANGED styleRules
  \/ HideMouse

Spec == Init /\ [][Next]_vars


-----------------------------------------------------------------------------
\* Browser.isFullscreen never claims fullscreen once every fullscreenchange
\* has been handled unless the canvas really is inside the fullscreen
\* element: the handler clears the flag before looking, whatever order
\* grants, user exits, other elements' fullscreen and wrapper creation
\* come in.
CanvasInFullscreen ==
  (fsEvents = 0 /\ isFullscreen) => fsElement \in Range(chain)

\* Browser.pointerLock, which calculateMouseEvent trusts to pick relative
\* movement, is never stale in the dangerous direction: while it says
\* locked, the document holds the lock or a pointerlockchange that will
\* clear it is still queued.
PointerLockNotStale ==
  pointerLock => (plLocked \/ plEvents > 0)

\* emscripten_hide_mouse leaves exactly its own rule first and every rule
\* whose text does not start with "canvas" in its order: none of the
\* adjacent canvas rules survives the delete loop.
HideMouseMatchesReference ==
  [][HideMouse => styleRules' = <<"canvas">> \o
                    SelectSeq(styleRules, LAMBDA r : r # "canvas")]_vars

\* The page nodes above the canvas stay in the document in their order:
\* fullscreenChange only ever removes wrapper divs requestFullscreen made.
PageKept == IsSuffix(PageChain, chain)

====
