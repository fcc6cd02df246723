SPECIFICATION Spec
CONSTANTS
  m1 = m1
  m2 = m2
  Methods = {m1, m2}
  Threads = {t1, t2}
  Groups = {g1, g2, g3}
  Tariffs <- MCTariffs
  MethodSets <- MCMethodSets
  Limits = {1}
  Window = 2
  NoGroup = NoGroup
SYMMETRY Symmetry
INVARIANTS
  BlocksOnlyWhenFull
