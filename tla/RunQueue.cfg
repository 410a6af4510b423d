CONSTANTS
  Owner = owner
  Thieves = {t1}
  Works = {w1, w2, w3, w4, w5}
  NoWork = noWork
  NoThread = noThread
  kSize = 4
  Laps = 3
SPECIFICATION HistorySpec
INVARIANTS ElementsAreSafe SizeNeverTooSmall RefusesOnlyWhenCrowded
PROPERTIES IsADeque
