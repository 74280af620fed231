SPECIFICATION Spec
CONSTANTS
  Https = https
  Config = config
  Pollers = {control}
  Games = {game}
  Desktops = {desktop}
  NoApp = NoApp
  NumPreps = 2
INVARIANTS
  RunningIsKnown
CHECK_DEADLOCK FALSE
