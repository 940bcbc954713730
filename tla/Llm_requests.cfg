\* Four chat requests, a reload between two configurations, failures and expiry.
CONSTANTS
  Configs <- TwoConfigs
  Requests = {"r1", "r2", "r3", "r4"}
  Body <- ChatBodies
  Users = {"ann", "bob"}
  Urls <- SomeUrls
  Models <- SomeModels
  Fails = {"get", "upstream", "set"}

SPECIFICATION LlmSpec
CHECK_DEADLOCK FALSE
INVARIANTS
  LlmTypeOK
  AnswerFitsRequest
  EveryDeliveryBilled
  RoutedServiceMatches
  RoutedIsConsumed
