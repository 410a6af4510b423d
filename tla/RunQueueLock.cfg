CONSTANTS
  Owner = owner
  Thieves = {t1, t2}
  Works = {w1, w2}
  NoWork = noWork
  NoThread = noThread
  kSize = 4
  Laps = 8
SPECIFICATION Spec
INVARIANTS ElementsAreSafe
