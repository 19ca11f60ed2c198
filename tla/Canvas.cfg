\* Two requestFullscreen calls around the page's three ancestors, three
\* browser changes (grants, user exits, another element's fullscreen,
\* pointer-lock grants and exits), two mouse or touch events.
CONSTANTS
  Main = Main
  Body = Body
  Html = Html
  NoElement = NoElement
  OtherElement = OtherElement
  MaxWrappers = 2
  MaxChanges = 3
  MaxMouseEvents = 2
  MaxMouseX = 2
  Positions = {2}
  TouchIds = {1}

SPECIFICATION Spec

INVARIANT CanvasInFullscreen
INVARIANT PointerLockNotStale
PROPERTY HideMouseMatchesReference

CHECK_DEADLOCK FALSE
