SPECIFICATION UnaryFairSpec
CONSTANTS
  tariff = tariff
  post = post
  Methods = {tariff, post}
  Threads = {t1, t2}
  Groups = {g1, g2, g3}
  Tariffs <- MCOneTariff
  MethodSets = {}
  Limits = {1}
  Window = 1
  NoGroup = NoGroup
  max_attempts = 2
  on_rate_limit = TRUE
  on_unavailable = TRUE
  max_wait = 65000
  Answers <- MCFewAnswers
  Retries = {"unset"}
  AsyncCalls = {a1}
  TariffMethod = tariff
  TradingMethods = {post}
PROPERTIES
  CallsEnd
