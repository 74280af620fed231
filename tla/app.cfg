SPECIFICATION Spec
CONSTANTS
  Https = https
  Config = config
  Pollers = {control}
  Games = {game}
  Desktops = {desktop}
  NoApp = NoApp
  NumPreps = 3
INVARIANTS
  TypeOK
  RunningIsPrepared
  PrepsUndone
  CleanSlate
CONSTRAINT Whole
