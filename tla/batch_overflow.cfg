SPECIFICATION Spec
CONSTANTS
  Sessions = {s1}
  Keys = {"F1"}
  Shortcuts = {"F1"}
  Mod = "mod"
  Codes = {"F1", "mod", "left-mod"}
  Keybindings <- DefaultBindings
  Pads = {0}
  MaxPads = 1
  Pointers = {1, 2}
  Mixes = {{"relative"}}
  Steps = {1, 20000}
  MaxMessages = 2
  Ids = {a1}
  None = None
INVARIANT
  MovesKept
CHECK_DEADLOCK FALSE
