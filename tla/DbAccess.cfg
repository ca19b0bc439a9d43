SPECIFICATION Spec
CONSTANTS
  Main = main
  Scripts = {script}
  Loaders = {browse, result}
INVARIANTS TypeOK UsedIsHeld SharedOnlyByRace NobodyForgotten
PROPERTY SomebodyWakes
