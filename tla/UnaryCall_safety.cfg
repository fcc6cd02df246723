SPECIFICATION UnarySpec
CONSTANTS
  tariff = tariff
  post = post
  Methods = {tariff, post}
  Threads = {t1, t2}
  Groups = {g1, g2, g3}
  Tariffs <- MCTariffs
  MethodSets <- MCMethodSets
  Limits = {1}
  Window = 2
  NoGroup = NoGroup
  max_attempts = 2
  on_rate_limit = TRUE
  on_unavailable = TRUE
  max_wait = 65000
  Answers <- MCAnswers
  Retries = {"unset", "off"}
  AsyncCalls = {a1}
  TariffMethod = tariff
  TradingMethods = {post}
SYMMETRY Symmetry
INVARIANTS
  EveryAttemptPaid
  RetriesJustified
  CallbackOnce
  QuotaKept
  RefusedOnlyWhenFull
  NoLostWakeup
PROPERTIES
  AsyncCallSpec
