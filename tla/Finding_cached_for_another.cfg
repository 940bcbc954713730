\* Two embeddings requests for different texts, with the documented configuration.
CONSTANTS
  Configs <- OneWildcard
  Requests = {"r1", "r2"}
  Body <- EmbeddingBodies
  Users = {"ann"}
  Urls = {}
  Models = {}
  Fails = {}

SPECIFICATION LlmSpec
CHECK_DEADLOCK FALSE
INVARIANTS
  AnswerFitsRequest
