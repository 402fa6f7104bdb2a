SPECIFICATION LoopSpec
CONSTANTS
  MaxKey = 40
  MaxInstances = 45
INVARIANTS LoopInv KeysPartitioned EveryHashOwnedButOne
