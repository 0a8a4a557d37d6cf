CONSTANTS
  Thread = {t1, t2, t3}
  Seen = {1, 3, 5}
  MaxTime = 5
SPECIFICATION FairSpec
INVARIANTS
  TypeOK
  TimesAreFresh
PROPERTIES
  Linearizable
  WitnessEnds
