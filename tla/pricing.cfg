SPECIFICATION FairSpec
CONSTANTS
  Prices = {1}
  Mults = {2}
  CondKinds = {"eq", "contains", "blank"}
  MaxTiers = 2
  MaxTierConds = 1
  MaxGroups = 1
  MaxConds = 1
  Stored <- AllTexts
  Typed <- AllTexts
  Presets <- MCPresets
INVARIANTS
  TypeOK
  ShownIsSaved
  WhatIsWrittenIsCharged
PROPERTIES
  Settles
