SPECIFICATION UnarySpec
CONSTANTS
  tariff = tariff
  post = post
  Methods = {tariff, post}
  Threads = {t1}
  Groups = {g1}
  Tariffs <- MCOneTariff
  MethodSets <- MCMethodSets
  Limits = {1}
  Window = 1
  NoGroup = NoGroup
  max_attempts = 3
  on_rate_limit = TRUE
  on_unavailable = TRUE
  max_wait = 65000
  Answers <- MCAnswers
  Retries = {"unset", "on", "off"}
  AsyncCalls = {a1}
  TariffMethod = tariff
  TradingMethods = {post}
INVARIANTS
  TradingNotRetried
