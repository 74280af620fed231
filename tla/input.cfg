SPECIFICATION Spec
CONSTANTS
  Sessions = {s1, s2}
  Keys = {"F1"}
  Shortcuts = {"F1"}
  Mod = "mod"
  Codes = {"F1", "mod", "left-mod"}
  Keybindings <- DefaultBindings
  Pads = {0}
  MaxPads = 1
  Pointers = {1, 2}
  Mixes = {{"relative", "absolute", "button"}, {"key", "button"}, {"pad", "arrival"}, {"touch"}}
  Steps = {0}
  MaxMessages = 3
  Ids = {a1, a2}
  None = None
SYMMETRY Symmetry
INVARIANTS
  TypeOK
  KeysAsSent
  PadsOwned
  NeverSleepsOnWork
CHECK_DEADLOCK FALSE
