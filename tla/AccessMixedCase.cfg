SPECIFICATION FairSpec
CONSTANTS
  Typed = {"lower", "mixed"}
  Opener = {o1, o2}
PROPERTIES EveryOwnerGetsIn
