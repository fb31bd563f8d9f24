\* Three loads and events in full; two publications, numbered 2 and, after the wrap, 0.
SPECIFICATION FairSpec
CONSTANTS
  MaxChanges = 3
  Modulus = 4
  MaxPublishes = 2
  MaxAttempts = 2
  MaxSessions = 2
  Budgets <- MCBudgets
INVARIANTS ReadIsLinearizable LoadSurvivesBlock
PROPERTIES LastIsShown Settles
