# Verification of ai-kevent

ai-kevent puts inference services behind an HTTP gateway.  A client submits a
file, the gateway stores it in S3, records the job in Redis and publishes an
event to Kafka; a KafkaSource posts the event to a relay, a sidecar of the
model, which calls the model, stores the result in S3 and publishes a result
event; the gateway consumes that event, updates the record and calls a webhook;
the client polls the job and takes the result.  This directory holds TLA+
modules of that system, TLC configurations that check them on small instances,
and proofs checked by TLAPS.

    tlc -workers 2 -config Pipeline_work.cfg MCPipeline.tla
    tlapm AsyncPipeline_proofs.tla

## The system

| Component | Source | State it keeps | Operations | Talks to |
|---|---|---|---|---|
| Job API | `internal/handler/jobs.go` | none of its own; handlers in progress | `Submit`, `GetStatus`, `ListJobs`, two goroutines (discard an unpublished input, clean up after an answer) | Redis, S3, Kafka |
| Redis job store | `internal/storage/redis.go` | `job:<id>` records with a TTL, `consumer:<name>:jobs` sorted sets, a pub/sub channel per job | `SaveJob`, `GetJob`, `UpdateJobResult` (Lua), `DeleteJob` (Lua), `ListJobsByConsumer`, `SubscribeJobDone`, `NotifyJobDone` | |
| Object store clients | `internal/storage/s3.go`, `relay/internal/storage/s3.go` | `<job>/input.ext`, `<job>/result.json` | upload, get, put, delete, with optional encryption | |
| Kafka producers | `internal/kafka/producer.go`, `relay/internal/kafka/publisher.go` | a writer per topic | `PublishInputEvent`, `PublishResultEvent` | |
| KafkaSource | external, configured in `ARCHITECTURE.md:440-450` | the offset of the input topic | posts each message until it is answered 200 or `delivery.retry` is used up | relay |
| Relay dispatcher | `relay/internal/relay/relay.go`, `sync.go` | the counter `syncPriority`, requests in progress, deletion goroutines | `ServeHTTP`, `ServeHTTPSync`, `process` | S3, the model, Kafka |
| Result consumer | `internal/kafka/consumer.go` | a consume loop per result topic, webhook goroutines, the map of cancel functions | `Start`, `Reconcile`, `Wait`, `consume`, `handleResult`, `sendWebhook` | Kafka, Redis, S3 |
| Synchronous requests | `internal/handler/sync.go` | a waiting handler per request | proxy, sync-over-Kafka | S3, Redis, Kafka, the model |
| Service registry | `internal/service/registry.go` | immutable tables of services | routing by type, model, path, wildcard | |
| Gateway process | `cmd/gateway/main.go`, `internal/handler/reload.go` | the current router | reload, graceful shutdown | |
| LLM proxy and cache | `internal/llmproxy`, `internal/cache` | cached answers | key, lookup, fill | Redis, providers |
| Provider adapters | `internal/llmproxy/provider` | none | `BuildRequest`, `TranslateResponse`: OpenAI's format to and from the backend's | the LLM backends |
| Consumer tracker | `internal/metrics/consumer_tracker.go` | a sorted set of sums per user | `Track` | Redis |
| Configuration | `internal/config/config.go` | the file, read at the start and at each reload | `Load`, `validate` | |
| Relay adapter | `relay/internal/adapter` | a goroutine and a pipe per call | `Call` | the model |
| Encryption | `internal/crypto/aes.go` and its twin in the relay | a goroutine and a pipe per stream, the chunk counter | size, encrypt, decrypt | |

The rest (OpenAPI documents, model list, health, metrics, Kafka authentication,
dashboards, charts) reads configuration or observes, and is not modelled; the
last section says what else is not.  `PROJECT.json` lists every component with
its status.

What makes the system hard: no transaction spans Redis, S3 and Kafka, so every
handler is a sequence of calls of which any may fail, with or without effect;
four kinds of actors (API handlers, polls, relay requests, the consumer) touch
the same record and objects with nothing but their order to protect them; the
KafkaSource sends a message again while an earlier request for it may still
run; processes die between any two calls.  The properties are aimed at that:
what a component may rely on when it finds a record, an event or an object.

## The modules

| Module | Models |
|---|---|
| `Platform` | Redis records, S3 objects, input message delivery, result topic; faults |
| `JobsApi` | `Submit`, `GetStatus` and their goroutines |
| `Relay` | the KafkaSource's requests, `ServeHTTP`, `ServeHTTPSync`, `process`, deletions, evictions, timeouts |
| `PubSub` | the Redis channel that tells a synchronous handler that its job is done |
| `ResultConsumer` | `consume`, `handleResult`, `sendWebhook`, restart |
| `AsyncPipeline` | the composition of `JobsApi`, `Relay` and `ResultConsumer`: the asynchronous path, with its properties |
| `SyncJobs` | `handleMultipartViaKafka` and its two cleanup goroutines |
| `SyncPipeline` | the composition of `SyncJobs`, `Relay`, `ResultConsumer` and the polls of `JobsApi`: the synchronous path, with its properties |
| `ConsumerIndex` | the job records and the index of each consumer's jobs, with their TTLs in ticks |
| `JobListing` | `ListJobs`, `ListJobsByConsumer`: clients that go through their list page by page; with `ConsumerIndex` |
| `Configuration` | what `Load` accepts, as operators |
| `ConsumerManager` | `Start`, `Reconcile`, `Wait`; hot reload and graceful shutdown of the gateway process; with `Configuration` |
| `Registry` | `NewRegistry`, `RouteAsync`, `RouteSync`, `KafkaServices` as operators |
| `Providers` | `BuildRequest`, `TranslateResponse` as operators; what the backends say, which is external |
| `LlmProxy` | `handleJSON`, `ServeJSON`, the cache and its key, billing; with `Registry` and `Providers` |
| `FileStreams` | a file encrypted on its way to S3 and decrypted on its way to the model: the format, the goroutines and their pipes |
| `JobLifecycle` | the abstract specification: what a reader of job records is promised |
| `AsyncPipeline_proofs` | theorems: the asynchronous path whatever fails |
| `Outcomes_proofs` | theorems: what else it guarantees without some kinds of fault, its refinement of `JobLifecycle`, the priority counter |
| `SyncPipeline_proofs` | theorems: the synchronous path |
| `JobListing_proofs` | theorems: the index and its listing |
| `ConsumerManager_proofs` | theorems: reloads and shutdown |
| `FileStreams_proofs` | theorems: sizes, nonces and whole files, for any size |
| `Registry_proofs` | lemmas about routing |
| `LlmProxy_proofs` | theorems: routing, answers and bills of the LLM proxy; with `Registry_proofs` |
| `MCPipeline`, `MCSync`, `MCListing`, `MCGateway`, `MCLlm` | instances for TLC |

`Platform` owns the shared state and `PubSub` the subscriptions; `JobsApi`,
`SyncJobs`, `Relay` and `ResultConsumer` each extend them with the state of their
own processes, and the two pipelines put their steps side by side.  A job is
asynchronous in one and synchronous in the other; which of them goes first on a
pod depends on `PriorityJobs` alone, and `Pipeline_lifecycle` has one of either.  Correspondence with the code:

* One action is one call that leaves the process (Redis, S3, Kafka, HTTP), with
  the local code up to the next.  `submit[j]`, `poll[p].pc`, `slot[s].pc` and
  `cons.pc` say which call is next.  A goroutine is the tail of the handler
  that starts it where the handler has nothing left to do (`DiscardInput`,
  `DropResult`, `DropRecord`), and state of its own where several may pile up
  (`reapers`, `hooks`).
* A call that fails does so as a *fault* of a kind named in the constant
  `Faults`; a write that reports an error may have taken effect.  `MaxFaults`
  bounds the number of faults in a run, and nothing else bounds them.  A call
  made with the context of a request that the KafkaSource has given up may
  fail at no charge (`CallFails`).  `Submit` and the sync handler call with the
  context of their client's request, so each call fails too when that client
  leaves (`CallFailsOrClientLeft`).  `Submit` then cannot mark the job failed,
  since it would do so with the same context, but its goroutine deletes the input.
* A process of the gateway dies between any two calls (`ApiCrash`, `SyncCrash`,
  `ConsumerRestart`, `CloseAll`, composed in `GatewayRestart` and
  `SyncGatewayRestart`).  That is external; a graceful shutdown that outlives its
  30 s ends the same way.
* A record is its status alone: `result_ref` is set exactly when the status is
  `completed`, because the three callers of `UpdateJobResult` pair the two.
  `processing` is declared in `job.go` and written nowhere.
* `Platform` lets a record expire at some time or other, because the pipelines'
  properties do not depend on when.  `ConsumerIndex` models the same records
  again with their time: `TTL` ticks, counted down by `Tick`, which stands for
  Redis's clock and removes both keys when theirs is over.  Each operation of the
  store is one step, as `MULTI` and the scripts are; who calls them (`Save`,
  `Settle`, `Cleanup`) is reduced to when it may.
* In `JobListing` a page is read as the code reads it: `ZCARD`, `ZREVRANGE` and
  `MGET` are three steps, since the pipeline that is sent after the discarded
  transaction (`redis.go:150-163`) is none.  `missing` and `disturbed` are history
  variables of each walk: the jobs that were there ever since it began and that
  it has not been given yet, and whether the index lost one meanwhile.
* `log` is one partition of one result topic; kafka-go hands a partition's
  messages to one reader in order.  `cons.at` is the reader's position,
  `committed` the group's.
* The KafkaSource is external.  `delivery` and `retries` model what
  `ARCHITECTURE.md:278-282, 440-450` configures: 200 commits, anything else is
  sent again `delivery.retry` times, then dropped (there is no dead letter
  sink).  Messages are delivered independently, as those of different
  partitions are; the order within a partition would only remove behaviours.
* `Respond` and `Answer200` are two steps: `WriteHeader` without a body leaves
  the process when the handler returns, and the deletion goroutine may run
  before that.
* `channel[j]` is the subscription to the channel of job `j`: `closed`, `open`,
  `down` while go-redis reconnects, `signal` once a message waits in the Go
  channel.  go-redis writes SUBSCRIBE before `Subscribe` returns, so that a
  later publish finds the subscriber unless the connection breaks.  A request
  whose context ends (the client leaves, or Knative's `timeoutSeconds`) is a
  fault of kind `client`; `GiveUp` competes with a signal that has arrived, as
  `select` in `Wait` does.
* The keepalive of `sync.go:320-325` writes a newline to the client and is left
  out, and with it the status code: after 20 s the handler has sent 200, and a
  failure shows in the body only.
* A synchronous job is listed by `GET /jobs` with its consumer's other jobs, so
  `SyncPipeline` lets clients poll it; an answered poll deletes the record and
  the result, which the handler may be about to read.
* `answered` and `announced` are history variables: they record what clients
  and webhooks were given, and no step reads them.

* `ConsumerManager` reads its configurations from `Files`, of which `validate`
  rejects some; a reload of one of those answers 500 and changes nothing.  A
  process whose first file has no brokers has no manager (`managed`), and a reload
  does not give it one.
* `ConsumerManager` looks at the consumers from above: a consumer is `live`
  until its goroutine returns, `cancelled` once its context is, `busy` while it
  handles an event; `cancels` is the manager's map, `wg` the wait group.  `Start`
  and `Reconcile` hold the mutex and are one step each; the swap of the router
  before `Reconcile` is a step of its own.  A consumer is named after what
  started it, so that a topic that was removed and added has two for a while.
* `Registry` keeps a list of entries instead of Go maps: what a map holds for a
  key is the last entry indexed under it (`Latest`).  A service's operations are
  a Go map whose iteration order is random, so `NewRegistry` yields a set of
  registries.
* `Configuration` has the services as a set.  `place` is where an entry stands in
  the file, so that `KafkaServices` keeps the last one of a type and model.
* In `LlmProxy` a body is a record of the fields that the cache key, the adapters
  or a backend look at; `rest` stands for those outside the key, such as `input`.
  Texts are tokens, and a sequence of them stands for their concatenation (the
  newline that joins system messages is left out).  `SwapRegistry` is a reload; a
  request keeps the service it was routed to.  Requests that have no provider
  leave for the direct proxy and are over.  The two `ZINCRBY`s of a count fail
  separately (`Added`); they are one step, since additions
  commute and no step reads the sums.  `Forward` takes it that a backend answers 400 to a
  request that names no model, an assumption about the backends.
* In `Providers` each format has a meaning (`Meaning`, `AnthropicMeaning`), and
  what a backend says depends on the model it was asked for and on that meaning
  alone.  So the answer that is due (`Due`) can be stated without the adapters,
  and a translation that loses something shows in it.  Sampling parameters, which
  `BuildRequest` passes on as they are, and headers are left out.
* In `FileStreams` a pipe holds the bytes of the `Write` that waits to be read,
  how its writer has closed it and whether its reader is still there; a byte of
  a sealed chunk is known by counter, chunk and place, so that a chunk can be
  opened only whole and in its turn.  `OpenChunk` gets what `io.ReadFull` has
  returned: the number of bytes and the error, which tells `EOF` from
  `ErrUnexpectedEOF`.  Upload is the gateway's, download the relay's; the
  gateway's `GetObject` and the relay's `PutObject` run the same two streams.
  `EncryptedSize` is a formula that only the repository's tests call: `Upload`
  ignores the size it is given and sends no length (`s3.go:56-76`).  `Call` fails
  before it starts its goroutine if there is no URL (`multipart.go:22-26`).

Definitions marked "Variant" are plausible mistakes (a check dropped, two calls
swapped).  No specification uses them; `PROJECT.json` pairs each with a property
that must catch it when it takes the place of the definition that follows it.

## What the runs check

Every run is exhaustive.  Deadlock is not an error: a finished instance stops.

| Run | Instance | Shows |
|---|---|---|
| `Pipeline_work` | two jobs; S3 errors, evictions, clients that leave, expiry | `AckedHasEvent`, `CommittedIsStored`, `PendingHasWork`: the retries cover these faults, and a pending job always has something left that will settle it |
| `Pipeline_lifecycle` | a job with priority and one without, three slots on two pods; every fault but a publish error, a timeout, an eviction | `ImplementsLifecycle`: a record goes from pending to one outcome to gone, as `JobLifecycle` says |
| `Pipeline_delivery` | one job, two clients; Redis, Kafka, relay and gateway faults, failed deletions | `TypeOK`, `Inv`, `CompletedHasResult`, `InputKeptUntilOutcome`, `NoResurrection`, which are proved for all faults; `LastCommitIsStored`, which is too; `NoResultLost`, `WebhookCarriesResult`, which need these |
| `Pipeline_liveness` | two jobs on one slot, S3 errors, as many retries | `AcceptedSettles`, `CallbackAnnounced`, `InputReclaimed` |
| `Sync_requests` | two sync requests on one slot; S3 errors and clients that leave; nobody polls | `WokenFindsOutcome`, `SyncAnswered`, `SyncLeavesNothing` |
| `Sync_faults` | one sync request, two slots, one polling client, every fault that concerns it, two of them | `SyncCompletedHasResult`, `SyncPriorityCounts` |
| `Consumer_index` | three jobs of one consumer, two of them created in one second, and one client that walks through pages of one job; a TTL of two ticks | `ListingTypeOK`, `PendingListed`, `WalkCovers`, `StaleForgotten`: what is pending is listed, a walk that no deletion disturbs finds what was there all the time, and the index forgets what expired |
| `Gateway_reload` | three configurations and three that `Load` rejects, a process started with brokers or without, three reloads that may overlap and fail, a shutdown at any time, one webhook | `ManagerTypeOK`, `RunningAreKnown`, `ConsumersMatchRouter`, `DrainedBeforeShutdown`, `ShutdownEnds`, `GroupsSettle`: reloads lose and leave over no consumer, consumers are never those of two configurations, `Wait` returns when nothing runs and always returns, and readers of one group do not stay on different topics |
| `Llm_requests` | one dialogue put by two users to two aliases, to none, and once to be streamed; a configuration that translates and one that does not, in every map order; reloads, expiry, errors of the cache and the backend | `LlmTypeOK`, `AnswerFitsRequest`, `EveryDeliveryBilled`, `RoutedServiceMatches`, `RoutedIsConsumed` |
| `File_streams` | files of 0 to 10 bytes in chunks of 3 with a tag of 2; the source, S3, both connections and the model may fail, and there may be no URL | `StreamTypeOK`, `StoredSize`, `NonceUsedOnce`, `NothingTruncated`, `GoroutinesEnd`: sizes, nonces, no broken stream taken for a whole file, no goroutine left behind |

Two faults are enough for the known ways in which one recovery meets another
(an eviction during the retry of a failed publish, a restart of the gateway
while a duplicate event is on its way); two slots are enough for a request that
outlives its delivery timeout to meet its successor; two clients for two
cleanups of one job.  Three reloads are enough for one to overtake another while
a third comes after both, and the configurations add a topic, remove one, move a
type to another topic and remove all.  Pages of one job make the walk as long as
the list, and the third job comes before, between and after its calls; two ticks
let one key outlive another.  The sizes of files cover zero, one, two and three
chunks and every remainder.  The dialogue has system messages in two places, a
message of several parts, a limit and a stop word, which is what the adapter
moves; one request names no model, and the streamed one bypasses the cache; one
service has two entries.  The
faults a run leaves out are those for which the
property is false, and the next table says so.

Fairness (`FairSpec`): handlers, goroutines and the consumer loop are weakly
fair, since the Go scheduler runs every goroutine; delivery of a message is
strongly fair, since the KafkaSource keeps sending; clients, faults and expiry
owe nothing.  `Pipeline_liveness` leaves out polls, because a poll may stop a
webhook (see below), and evictions, because they take deletion goroutines with
them.  `SyncFairSpec` assumes the same of the sync handlers, and that a broken
subscription is re-established.  `Sync_requests` leaves out Redis faults, because
a signal that cannot be sent is not sent again and the request waits until its
client gives up; polls and expiry, because they remove the record a woken handler
reads; and evictions and timeouts, because a message that is processed again
stores a result that nobody will delete.

`Gateway_reload` lets every goroutine, webhook and reload go on, and `main` too;
nobody owes a reload or a signal.  `GroupsSettle` is claimed for configurations
with one topic per type in which no topic changes its type.  `File_streams` lets each goroutine and each
caller go on.  `Llm_requests` leaves out a failing `ZINCRBY`: the count is then
lost, and only logged.  `Consumer_index` assumes that time passes (`Tick`), and
that is all: nobody owes a job, and no handler or client its next call.

`ConsumersMatchRouter` says two things of a process that serves and has a manager.
The consumers are those of one configuration, however reloads overlap.  And it is
the router's configuration if no reload is between its swap and its `Reconcile`,
and the last to swap met no other there (`lone`): two that overlap may leave the
router of one with the consumers of the other until the next reload.

Consequences of the code that no run needs to show: a request that is given
up (504) leaves its record until the TTL and its result object for ever, and a
job that is deferred by 503 while sync jobs run uses up `delivery.retry`, after
which the KafkaSource drops its message.  Others:

* `consumer.go:160-163` skips a message it could not handle and does not commit
  it, which `LastCommitIsStored` checks and proves.  The commit of the next message
  covers it all the same, so that no restart reads it again, although
  `consumer.go:148-149, 162` expects one: the job stays pending until its TTL.
  `CommittedIsStored`, about all offsets up to the committed one, therefore holds
  in `Pipeline_work` only because Redis does not fail there.
* `jobs.go:333` deletes the result even if the answer did not carry it or the
  client has gone: `Pipeline_delivery` leaves S3 reads and clients alone.  That the
  result goes only after some answer holds with these too; `Sync_faults` has them.
* A client that leaves before the publish of `Submit` leaves a record that is
  pending until its TTL and a job that nobody has accepted; its message may be on
  the topic, and its input is deleted.
* A poll between `UpdateJobResult` and `GetJob` of `handleResult` deletes the
  record, and no webhook is sent (`README.md:736` promises one): there are no
  polls in `Pipeline_liveness`.
* The group of a result consumer is named after the service type
  (`consumer.go:131`), so that two models of one type, as in
  `config.yaml:103-114`, share a group with different topics, which
  `consumer.go:127-130` sets out to avoid; so do the two readers of a type that
  moves to another topic, until the old one stops, and of a topic that changes
  its type at a reload the consumer keeps the old group.  A group that is new
  starts at the end of its topic: what is published between the swap of the router
  and the reader's first fetch is not read.
* A reload that removes a topic strands the jobs whose results are still to come.
* A process whose first file has no brokers has neither producer nor consumers:
  after a reload that adds services with topics, `Submit` saves the job, panics on
  the producer and answers 500, and the record stays pending.
* `validate` accepts a sync topic without a result topic (`config.go:249-256`): a
  synchronous request to that service waits for a result nobody reads.
* `Start` starts a consumer per service: of two services with one result topic
  the map keeps the last consumer, and no reload can stop the other.
  `RunningAreKnown` is checked with a topic per service.
* A reload that arrives while `Wait` waits starts consumers that are cancelled
  from the start, and may call `WaitGroup.Add` while `Wait` finds zero.
* The consumers stop before the HTTP server (`main.go:253-262`): a synchronous
  request in flight waits for an event nobody reads, until `Shutdown` gives up.
* `UpdateJobResult` renews the record's TTL and not the index's
  (`redis.go:204`), so that a completed job may outlive the index and vanish
  from `GET /jobs`: `PendingListed` speaks of pending jobs.
* `ListJobsByConsumer` skips ids whose record is gone and removes none, so that
  `total` counts them and pages come out shorter; the index of a consumer that
  keeps submitting never forgets them.
* The deletion of a job on a page already read moves the others up, and a client
  misses the one that crosses the boundary; the total may be older than its page,
  because only the transaction whose answers are discarded is atomic.  Jobs of one
  second are listed in the order of their random ids (`redis.go:68-71`).
* The Anthropic adapter drops the fields its request type does not have, `tools`
  and `tool_choice` among them (`docs/architecture/llm-proxy.md:43` has them
  forwarded), answers 500 to every streamed request, since events are no JSON, and
  sends whatever path a wildcard matched to `/v1/messages`.  Streamed answers are
  billed to nobody.
* A request without a model is sent on without one unless the service has a
  `backend_model`.
* If `http.NewRequestWithContext` rejects the URL (`multipart.go:70-73`) nobody
  closes the pipe, and the goroutine that writes the form stays for ever.

### Where the code and its documents disagree

| Run | What happens |
|---|---|
| `Finding_acked_without_event` | The publish of "completed" fails; `relay.go:179-183` logs it and answers 200.  The job is pending until its TTL.  `ARCHITECTURE.md:280` says 200 means the result was published.  A delivery timeout has the same effect without any Kafka error: the event is published with the cancelled request context, unlike the failure event (`relay.go:146-151`). |
| `Finding_cached_for_another` | The key of the response cache has neither the URL path nor `input` and `prompt` (`key.go:12-18`): with the documented `/v1/*` and `response_cache_ttl`, every embeddings request to a model is answered with the embedding of the first text.  `CHANGELOG.md:26` calls the cache exact-match on the request body, and `docs/architecture/llm-proxy.md:84, 100` configures the wildcard and names `/v1/embeddings`. |

## What is proved

`AsyncPipeline_proofs` proves, for any sets of jobs, clients, pods and slots,
any faults and any number of retries:

* `Invariance`: `Spec => []Inv`.
* `TypeCorrect`, `ResultsKept`, `InputsKept`: the type invariant,
  `CompletedHasResult`, `InputKeptUntilOutcome`.
* `RecordsStayGone`: the action property `NoResurrection`.

The assumptions are those of the modules: `NoJob` is no job, the sets of jobs
with priority or callback are sets of jobs, every slot has a pod.

Neither guarantee is inductive as it stands.  `Inv` adds what each actor may
rely on at each call.  `ResultFirst`: a request that is about to publish
"completed", an event that says so and a record that says so all come after the
result object, and a cleanup comes after an answer.  `OutcomeFirst`: whatever
deletes an input (a failed request, a deletion goroutine) comes after an event
or a result for that job, and every poll comes after an event.  The two need each
other: a result may only disappear under a poll's cleanup, so the outcome that
justified deleting an input survives it as an event.  `WellFormed` keeps the
consumer's position inside the topic, so that the event in hand exists.

The proof first shows types (`TypedNext`), then for each variable of the
invariant who can disturb it (`LogChanges`, `ResultsLost`, `InputsLost`,
`RecordCompletes`, `SlotReaches`, `ReaperStarts`, `PollReaches`,
`SubmitReaches`), and from those the two halves (`ResultFirstNext`,
`OutcomeFirstNext`).

`JobListing_proofs` proves, for any sets of jobs, consumers and clients, any TTL
and any page size:

* `ListingTypeCorrect`, `PendingIsListed`, `WalkIsComplete`: the type invariant,
  `PendingListed`, `WalkCovers`.

The assumptions are `IndexAssumption` and `ListingAssumption`: finitely many
jobs, scores are numbers, ids are ordered, `Limit` is in `1..100` as
`jobs.go:359-371` has it.  `PendingListed` is inductive once the types say that a
record has a TTL: `SaveJob` gives both keys the same, later ones of the consumer
only renew the index's, and `UpdateJobResult` ends the pending state.
`WalkCovers` is not: its strengthening `MissingAhead` says where a missing job is,
namely on the page in hand or on a later one (its rank is at least the offset),
within the reach of `total`.  New jobs only raise the rank of the others
(`RankGrows`), a page takes all ranks up to the next offset (`AheadAsWalkMoves`),
and a rank is below the cardinality that `ZCARD` has returned (`RankBelow`), so
that a walk that ends has nothing left before it.

`ConsumerManager_proofs` proves, for any configuration files, any number of
reloads and of webhooks:

* `ManagerTypeCorrect`, `WaitDrains`: the type invariant, with a counter of the
  wait group that is never negative, and `DrainedBeforeShutdown`.
* `RunningKnown`: `RunningAreKnown`, for configurations with one service per
  result topic (`OneServicePerTopic`), without which it is false.

The assumption is `ManagerAssumption`: finitely many services in a file.
`ManagerInv` has why: `Counted`, the counter is the number of consumers and
webhooks; `Draining`, once the context is cancelled every consumer is, so that
after `Wait` has seen zero a consumer that a late reload adds cannot fetch; and
`StartedOnce`, the consumers of a `Reconcile` are new, so that `Add` counts each
(`AddedAreNew`).

`ConsumersFollowRouter`, for the same configurations, is `ConsumersMatchRouter`.
`MapOfOneConfig` is its part about every overlap: the map of cancel functions has
the topics of one configuration, because `Reconcile` replaces it under the mutex.
Its part about the router is what `lone` allows: `MapFollowsRouter` says which
reload a difference between the map and the router is owed to: none has swapped
and the map's topics are those of the router, or the one that has swapped brought
the router and will reconcile to it.

`Outcomes_proofs` proves the properties of the asynchronous path that some kinds
of fault break.  Each theorem names these in its hypothesis, and holds for all
other faults and any sets:

| Theorem | Property | Without | Inductive with |
|---|---|---|---|
| `ResultsDelivered` | `NoResultLost` | S3 errors, clients that leave | `AnswersInFull`: a poll that fetches finds the result, one that answers has it or comes after one that had |
| `WebhooksCarryResults` | `WebhookCarriesResult` | S3 errors | `AnnouncesStored`: a webhook starts after the result was stored |
| `AcksFollowEvents` | `AckedHasEvent` | publish errors, timeouts | `AnswersAfterEvent`: a request that is about to answer 200, and a deletion goroutine, come after an event |
| `CommitsAreStored` | `CommittedIsStored` | Redis errors, restarts of the gateway | `CommitsBehind`: of what the consumer is done with nothing is pending, and it commits no further |
| `PendingIsWorkedOn` | `PendingHasWork` | the faults of the two rows above; jobs with priority; more faults than retries | `Deliverables`: a job that is being accepted and has no event has its input, was resent no more often than there were faults, and can be delivered |
| `PipelineImplementsLifecycle` | `ImplementsLifecycle` | publish errors, timeouts, relay evictions | `Once`: one request at a time works on a message, and writes one event |
| `LastCommitStored` | `LastCommitIsStored` | nothing | `StoredThenCommitted`: what the loop reads, notifies and commits it has stored |
| `SyncJobsAreCounted` | `SyncPriorityCounts` | nothing | the count is the cardinality of `Busy`, which changes by one job at a time |

The hypotheses are those of the runs.  They are needed: with one of the faults a
row names its property is false, as the comments of the theorems say; that a job
which is deferred too often, or resent more often than `delivery.retry` allows,
has nothing left is what `PendingHasWork` must exclude.  `Launched` is what they
have in common: `Inv`, and `SentFirst`, that nothing speaks of a job before its
message was sent.  The refinement is proved as a step simulation: the map
`PhaseOf` takes initial states to initial states (`Init => Lifecycle!Init`), and
each step to a move of the lifecycle or to none.  With `Once` a record's outcome is
that of the only event of its job, so that no later one replaces it.

`SyncPipeline_proofs` reuses the lemmas about `Relay`, the consumer and the polls
(`SyncCases`: a step is one of a sync handler, of a connection, or one that
`AsyncPipeline` could take), and adds the handlers':

* `SyncTypeCorrect`, `SyncResultsStored`, `SyncRecordsStayDeleted`,
  `SyncRequestsAreCounted`: the type invariant, `SyncCompletedHasResult`,
  `SyncNoResurrection`, `SyncPriorityCounts`, whatever fails.  Every job of this
  composition has priority; that the counter is right where jobs without priority
  compete for the slots is `SyncJobsAreCounted`.  `SyncStored` is the
  counterpart of `ResultFirst`: a result that an event or a record speaks of was
  stored, and is there unless a poll has answered or the handler has deleted it.
* `WokenHandlersFindOutcomes`: `WokenFindsOutcome`, if nobody polls and records do
  not expire meanwhile (`OnlyHandlersDelete`), since both take away the record the
  handler is about to read.  `WokenAfterOutcome` carries the order from the
  consumer's `UpdateJobResult` over its signal and the channel to the handler.

`FileStreams_proofs` proves, for any set of file sizes, any chunk size, tag size,
length of the prefix and number of counters that a file does not use up (`StreamAssumption`):

* `StreamTypeCorrect`, `StoredSizeCorrect`, `NoncesUsedOnce`, `WholeFileSent`:
  `StreamTypeOK`, `StoredSize`, `NonceUsedOnce`, `NothingTruncated`.

The invariant `StreamInv` follows the bytes, wherever they are by now: what
Encrypt has written (`Written`: the body so far and what waits in the pipe) has
every byte in the place that its chunk and counter give it, and as much as the
chunk counter says; what Decrypt has written (`Read`) is the file from its first
byte on; a pipe is closed by its writer's last step (`Closed`), so that an end
without error comes after the last byte and is passed on from pipe to pipe.  That
an end of the object is the end of the file is arithmetic: `n` bytes left at a
chunk's boundary mean the last chunk (`WholeObject`, `Divided`).

`LlmProxy_proofs` proves, for any configurations and requests, any failures and
any number of reloads:

* `RoutesMatch`: `RoutedServiceMatches`, without further hypothesis, in every order
  in which the maps of operations are walked.
* `RoutesConsumed`: `RoutedIsConsumed`, for configurations in which entries of one
  type and model repeat each other's paths, backend and default mark
  (`RepeatsAgree`); without it the consumer of the last entry need not be that of
  the one a path leads to.
* `LlmTypeCorrect`: `LlmTypeOK`; nothing but a 200 is cached.
* `AnswersDue`: `AnswerFitsRequest`, if requests name one model (`OneModelNamed`:
  where the URL names an alias that is the backend's own name, the body names that
  or none), if what goes to the Messages API can be said in it
  (`PlainIfTranslated`), and if requests with one cache key differ in nothing a
  backend looks at (`KeysTellApart`).  The last is what the code does not ensure:
  it is false for embeddings, as `Finding_cached_for_another` shows, and for an
  alias whose `backend_model` a reload changes while an answer is cached.
* `DeliveriesBilled`: `EveryDeliveryBilled`, if `ZINCRBY` does not fail and with
  `PlainIfTranslated`.

The instance of `Llm_requests` satisfies all of these hypotheses.  `AnswersFit`
speaks of the cache: an entry is what was due to some request with its key, at the
time; `SameDue` takes it to the others.  `BillsKept` says that the sums are those
over the requests delivered (`Billed`), of which there are finitely many, and that
a step delivers to one request at most, together with its bill (`BillingSteps`).
The adapters' part is `DialogueKept`, that the dialogue that arrives means what
the one sent did, and `PutBack`, that the client gets what the backend said.

The community modules' sums and flattened sequences are recursive functions under
a `CHOOSE`.  The library's induction theorems take an operator and cannot be used,
so the proofs argue with sets instead: the counterexamples of a property of
numbers are a set without a least element (`LeastOf`, `Induction`), and a
collection of parts of a finite set that has the empty one and with each a larger
one has all (`SubsetInduction`).  That the function exists, so that `CHOOSE` finds
it, is proved first (`SumExists`, `FlattensExists`).

### What is only model-checked

* Liveness: `AcceptedSettles`, `CallbackAnnounced`, `InputReclaimed`,
  `SyncAnswered`, `SyncLeavesNothing`, `StaleForgotten`, `ShutdownEnds`,
  `GroupsSettle`, `GoroutinesEnd`.  They need fairness, and so `ENABLED`, which is
  out of the prover's reach.
* That the hypotheses of the theorems are met where it matters: they are
  assumptions about faults and inputs, and the runs are instances of them.
* The two disagreements above.

Every invariant and every action property of the other runs is a theorem.
`SyncNoResurrection` is one that no run repeats.

## Plan

1. The asynchronous path, sync-over-Kafka, the consumer index and its listing,
   the consumer manager with its configurations, routing, the LLM proxy with its
   providers, the file streams: done as above.
2. Proofs of every safety property of these: done as above.  Left: what a relay
   request that is handled twice may do to the lifecycle, stated as a weaker
   refinement in which a later outcome replaces an earlier one, so that
   `Outcomes_proofs` needs no hypothesis on faults there.
3. The writer maps of the producers, with their double-checked lock and `Close`.
4. Graceful shutdown composed with the synchronous requests it keeps waiting.

## Not modelled

* OpenAPI documents, the model list, listings and the other read-only handlers:
  they are computed from an immutable registry and change nothing.
* Health, metrics, logging and middleware observe; Kafka authentication and TLS
  set up connections.
* The direct proxy of a synchronous request to a service without topics or
  provider passes a request on and has no state of its own; in `LlmProxy` it ends
  the request.
* Expansion of the environment, defaults and the fetching of services' documents
  in `Load` and `buildRouter`, and the relay's configuration, which is read once.
* The producers' writer maps: a publish succeeds or fails, with or without
  effect, whichever writer it goes through.
* The assignment of partitions to the readers of a group, and where a new group
  begins to read; `GroupsSettle` says which readers are together, not what Kafka
  makes of them.
* The wording of what is sent: forms, headers, JSON, error texts.  The checks of
  file names and sizes, and malformed requests (400, 404, 405, 413), end a request
  before it changes anything.
* The ranking that a goroutine reads from the tracker for the metrics.
