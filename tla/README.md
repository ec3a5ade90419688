# A specification of the FireViewer AI worker

TLA+ modules for `src/firewarning_worker`, the worker that analyses fire media
on a GPU pod and the CPU services around it. Each definition is translated from
the Python source; `PROJECT.json` gives the lines of each one. TLC checks small
instances, TLAPS proves the main results for every value of the constants.

    tlc -workers 2 -config MCPodQueue.cfg MCPodQueue
    tlapm PodQueueProofs.tla

All paths below are under `src/src/firewarning_worker/`.

## 1. The system

| Component | State it keeps | Operations | What is hard | What makes it correct |
|---|---|---|---|---|
| Pod job queue, `pod_server.py` | a table of jobs, a FIFO of job ids, one lock | submit, status, cancel; one consumer thread | HTTP threads read jobs without the lock; cancel races the consumer | answers are consistent and monotonic, cancelled jobs do not run, every job ends |
| Job handler, `handler.py` | `_GPU_SESSION_LOCK` | batch, event and research jobs | non-blocking lock with several exits | one user of the GPU; the lock comes back |
| Research client and service, `research_client.py`, `research_service.py`, `research_rpc.py` | one connection, a child process | run; configure and revoke at the broker | three limits inside, a fourth outside, no cancellation | the client outlives the service |
| Session runner, `session_runner.py`, `memory_manager.py` | what is on the GPU, results, a trace | four stages, candidates, repair, judge | exceptions in `finally`, retries, partial results | one checkpoint at a time; only agreed answers go on; an honest status |
| Stage gates, `stage_gates.py`, `stage_contracts_data` | none | preflight, postflight | rules that overlap | a promised retry can help |
| Consensus, `consensus.py`, `model_registry.py` | none | single, cascade, quorum, adjudication | thresholds, ties, a judge | a disputed answer is withheld |
| Burned-area stage, `v2_burned_area.py`, `prithvi_burned_area.py` | the Prithvi model | one run after the four stages | exceptions at release | as the session runner |
| Satellite worker, `mvp/satellite_cpu.py`, `mvp/satellite_cpu_service.py` | reservations in S3, batches in the backend | reserve, submit, poll, publish | crashes and SDK retries around a paid call | no request is paid twice; work moves on |
| Source acquisition, `mvp/research/source_acquisition*.py`, `source_planner.py` | cursor, known sources, streak of empty searches | plan a wave, search a page, publish it | failed pages, crashes, other writers, convergence | the pages form one sequence, nothing is recorded twice or dropped without a trace, a wave ends |
| Evidence services, `mvp/vision/*_service.py`, `mvp/localization/geographic_cpu_service.py`, `mvp/supervision/durable_endpoint.py` | revisions in the backend | read, derive, publish | several publishers on one chain of revisions, lost answers | nothing is published from a stale revision; every candidate is assessed |
| Bootstrap, `bootstrap.py`, `model_provisioning.py`, `pod_validation.py` | a shared volume, a manifest | provision, verify, start the research runtime | pods in parallel, crash in the middle of a download | a pod serves only what it verified |
| Research agent and broker, `research_agent.py`, `research_broker.py` | sessions with a policy | configure, search, fetch, revoke | revocation during a fetch | nothing is fetched for a revoked session |
| Media fetcher, `media_fetcher.py`; Panoramax cache | files with digests, LRU order | fetch, verify, evict | eviction of a file in use, digests of earlier files | a path that was handed out keeps what it was handed out for |
| Event pipeline, `event_pipeline.py`, `event_perception.py` | none | steps over one event | degraded steps | an event is not published on failed steps |

How they meet: an HTTP thread of `pod_server` puts a job into the queue; the
consumer calls `handle_job`, which takes the GPU lock and runs the session
runner in its own process, or sends a research job to the isolated service over
a Unix socket and waits for it. The service asks the broker for a session, runs
the agent in a sandboxed child that uses the same GPU, revokes the session and
answers. The runner calls the gates, the models and the consensus for every
stage. The CPU services run elsewhere and share nothing but the backend's
evidence revisions and the object store. Before a pod serves anything, its
bootstrap provides the models on a volume that it shares with other pods.

What is not modelled, and why, is in section 5.

## 2. Modules

| Module | Models | Proofs |
|---|---|---|
| `JobLifecycle` | what the queue promises: a job is registered, lined up, started in order, ended or cancelled | |
| `PodQueue` | `pod_server.py`, with the steps a thread can be interrupted between | `PodQueueProofs` |
| `GpuSession` | the GPU lock, the research client and the service, with their clocks | `GpuSessionProofs` |
| `StageGates` | the gates as operators on sets of capabilities | |
| `Consensus` | the strategies and the adjudication as operators on answers | |
| `SessionRunner` | one batch; extends `StageGates` and `Consensus` | `SessionRunnerProofs` |
| `AnalysisLine` | what the satellite worker promises: the products of a day are reserved, asked for once, computed and published, one after the other | |
| `SatelliteWorker` | the paid analysis of satellite products, `mvp/satellite_cpu.py` | `SatelliteWorkerProofs` |
| `AcquisitionLog` | what the acquisition promises: the log of one searcher that knows all that is recorded | |
| `SourceAcquisition` | waves and pages of the search for sources, `mvp/research/source_acquisition.py`, its service and its planner | `SourceAcquisitionProofs` |
| `EventRecord` | what the evidence services promise: each reads, derives and records in one step | |
| `PointEvidence` | the services that build the evidence of one event, on one chain of revisions | `PointEvidenceProofs` |
| `ModelCache` | `bootstrap.py` and `model_provisioning.py`, with pods that share a volume | `ModelCacheProofs` |
| `MediaFetcher` | the media cache of one batch, `media_fetcher.py` | `MediaFetcherProofs` |
| `MC*` | instances for TLC | |

**PodQueue.** `status`, `output` and `pending` are the job table and the queue.
A request thread has a program counter `hpc`: `Submit` registers the job under
the lock, `Put` is the `put` of line 58 after it, `ReadStatus` and `ReadOutput`
are the two reads of `PodJob.response`, which takes no lock. The consumer's
`cpc` separates the dequeue, the claim under the lock and the writes of the end,
`EndWith` and `WriteStatus`, because a reader may come between them. The order
of those writes, output before status, is the only thing that keeps an answer
whole. `told` and `floor` remember what clients were told; no guard reads them.

**GpuSession.** `lock` and `pc` belong to the callers of `handle_job`. `backlog`
is the listen queue of the socket; `serving`, `spc` and `elapsed` belong to the
service, which handles one connection at a time. Time is discrete. `Tick` is
blocked while someone is at a limit and has not left, so a limit is never
overrun, and steps that take no time happen before the next tick. `GiveUp` is
the client's timeout: it leaves the lock, and the service works on for
`Nobody`.

**SessionRunner.** `pc` is the place in `_run_with_trace`. An execution of a
candidate keeps its answer, its error, its attempts and whether it was
repaired. A model may answer anything in `Outputs`, answer invalidly, or raise;
so may every CUDA call, in `finally` blocks as well. `Produces`, `TooMany` and
`Silent` say what the gates and the empty-result rule make of an answer,
`Score` what the comparison of two answers is, in either direction. `answer` is
what `handle_job` returns: an output with a status, an input error, or a failed
job. `IsRefused` and the two `...IsRefused` actions are the validators of the
output contract, whose refusal turns a finished batch into an input error.
`StepsLeft` is a count of the steps a batch may still take, from its stage, its
place, and the candidates its registry has left; nothing in the model reads it.

**SatelliteWorker.** A worker is a thread of the service in one call of
`SatelliteCpuWorker.run`; `pc` is the request it makes next, of the object
store, the endpoint or the backend. `Start` reads the evidence and takes the
first product without an analysis, as `pending[0]` does. The request of a
product is built the same way each time, so a product stands for its request,
and `reservation`, `stored` and `result` are the objects of that request in the
bucket. `published` is the backend's list. Each request to the store or the
endpoint has a second action, `...IsLost`: it, or its answer, is lost, whether
or not it was carried out, and botocore tries again (`Retry`) or the call of the
service ends. `calls` counts inferences that cost money, `submissions` the times
the worker asked for one; no guard reads `submissions`. `Crash` forgets
everything of a worker. What the service tells its caller is left out: any
answer may be followed by another call. Also left out: a product that is
materialized only later, and a change of the incident's time window between two
calls, which changes the request and so its reservation. `InLine` maps the
worker to `AnalysisLine`: a product is reserved once it has a reservation of any
state, and was asked for as often as it was submitted. In `AnalysisLine` nobody
calls, repeats or crashes, a product is asked for once, and none is touched
before those ahead of it are published.

**SourceAcquisition.** A request (`Request`) plans a wave from what the backend
holds; the worker reads the evidence again and refuses the plan (`Refuse`),
answers at once (`Return`) or begins (`Open`). `progress` is the cursor the
backend keeps, `run` what a run carries in memory: its cursor, its counters and
the sources it knows. A search shares nothing with other threads, so `Search`
and `Fail` are one step with the publication of their page; a page whose
revision is not the latest is lost with its request (`Conflict`). `Reached` is
the arithmetic of the cursor, `SearchedPage` and `FailedPage` say what a page
brings and which sources are known afterwards: a failed page forgets its sources
but not that they are known. Of the media only `full` is left, whether those of
public sources have reached `media_ticket_limit`: a page with sources may fill the
evidence (`fills`), which ends its wave with that page and a later one with its first. `empties`, `dropped` and `passedOver` remember what
the properties are about; no guard reads them. Left out: claims, the media
themselves, and the budget of the multimodal analysis.
`OneAcquisition` maps the backend's progress to `AcquisitionLog`, in which there
are no runs, plans, conflicts or crashes: a page follows the one that is
recorded, an answered search brings what is not recorded yet or counts as empty,
a failed one brings nothing and counts for nothing, and a wave ends when its
queries or its pages are used up or the media have reached their limit.

**PointEvidence.** All services do the same: read the evidence with its revision,
derive something, publish it with that revision. Supervision reads twice, before
and after its assessments, and publishes per candidate; key frames publish one
frame after the other and carry the revision of each answer to the next. A
revision is a hash and can only be compared, so it is the set `fresh` of the
requests that hold the latest. A publication may be lost, or carried out with
its answer lost. `todo` is what a request has still to publish; `seen`, `own`
and `disturbed` are history. Left out: the content of media and assessments, the
analysis of public media, and the review of geometries. `AsIfInOneStep` maps the
evidence to `EventRecord`, which has no requests, revisions or lost answers: a
service selects from what is recorded and records in the same step, so an
observation is of a medium that was among the first ones when it was recorded,
an assessment of a candidate that was proposed at that time, and key frames come
in their order.

**ModelCache.** `snapshot` says how much of a model's weights is on the volume,
`manifest` which models the manifest names. `check`, `wait`, `recheck`,
`provide` and `final` are the places of `ensure_model_cache`: a check without the
lock, the lock, a check with it, the downloads and the write of the manifest, a
last check. A download may fail in the middle and a pod may stop anywhere, which
releases its lock and leaves the volume as it is. `Ready` sees weight files, not
whether there are all of them, as the code does.

**MediaFetcher.** `order`, `file`, `size`, `bytes` and `sha` are the cache of a
batch. A caller asks for a URL, perhaps with a digest, and holds the path
(`held`) until it returns all of its files at once, as the spatial pipeline's
`ExitStack` does. Meanwhile the origin may change (`remote`) and a file that is
not held may get lost. `BudgetAssumption` is what `WorkerSettings` enforces.

## 3. Runs

| Run | Shows | Distinct states |
|---|---|---|
| `pod_queue` | a client's answers are whole and monotonic, a cancelled job does not run, the queue implements `JobLifecycle`, every queued job ends | 64,354 |
| `gpu_session` | who shares the GPU and when; nested limits exclude it; the lock comes back | 51,907 |
| `gpu_overlap` (violation) | with the default limits a research job is given up at 900 s while its model runs, and the next job infers beside it | |
| `session_runner` | one checkpoint; only consensus results go on; valid records; honest status; useful retries; every step brings the batch closer to its end; every batch ends | 363,361 |
| `judge_verdict` (violation) | a judge that fails in `synchronize_cuda` after its verdict still decides the stage | |
| `satellite_worker` | one submission per request; one paid inference if the SDK tries once; no orphan without a loss; implements `AnalysisLine`; every product ends or is blocked | 86,492 |
| `paid_once` (violation) | the SDK repeats the submission behind the reservation, and two inferences of one request are paid | |
| `source_acquisition` | no source twice; convergence is earned; what is left out is recorded or journaled; plans are accepted; implements `AcquisitionLog`; a wave that began ends | 667,158 |
| `source_convergence` (violation) | a page fails after its source became known, and the wave converges without it | |
| `evidence` | nothing from stale evidence; a request is refused only because of another one; implements `EventRecord`; every candidate is assessed | 266,194 |
| `model_cache` | a worker starts with whole models; who provisions is not disturbed; no pod is set back; every pod that may download launches | 6,898 |
| `media_fetcher` | what a caller holds is what it was given, with the digest it asked for | 557,232 |

Bounds. `MCPodQueue`: two jobs and two request threads. One job waits while the
other runs, is cancelled or fails; the hazards are between one reader and one
writer, and two readers make the reads of one client overlap. `MCGpuSession`:
a tick is a minute, so the limits are the real ones (2, 14, 2 and 15 minutes)
beside a client timeout of 19, the least that nests. Two callers are the
abandoned one and the next; a backlog of two is filled by them.
`MCSessionRunner`: three registries hold every strategy, groups of one and two
and a quorum of three, in which two agree against one or no two do, with and
without a judge, and unconfigured stages; four answers cover
agreement, one-sided agreement, an answer without yield, and an empty one. The
batches have one kind of input each, or all that the burned-area stage asks
for. `MCSatelliteWorker`: two workers are enough for one to find what the other left;
two products show the order; one or two attempts tell an SDK that repeats from
one that does not (the code allows five, which adds repetitions of the same
kind); `MaxLosses` = 2 allows a lost answer and a crash after it.
`MCSourceAcquisition`: two runners, so that one finds what the other recorded;
one source, as two of them differ in nothing; two queries of two pages and three
pages a wave reach the end of the queries and the limit of pages, and any page that
brings a source may reach that of the media; two empty
searches converge, as configured; two waves, of which the second may
not be followed by another; one mishap, a write of another service or a crash.
The violation needs four pages in a wave and one runner.
`MCPointEvidence`: two threads of key frames meet each other, and the other
services; three media for requests of two, so that a second request has work, and
two of them frames, which come before the photo and push it out of a selection;
two candidates, of which one may be assessed or go before the other;
`MaxRequests` = 2 beside any number of supervisions. `MCModelCache`: two pods of
one configuration and one of another that shares a model, one of them without
the right to download; three mishaps stop or fail each pod once.
`MCMediaFetcher`: three URLs and contents of 1, 2 and 4 bytes, downloads of at
most 2 and a cache of 3, so that three small files fit, two large ones do not,
and one content is refused; three files held make the caller exceed the cache. Nothing else is
bounded but `rev` of `SourceAcquisition`, which its pages and mishaps bound.

Fairness. `PodQueue`: weak fairness of the consumer thread, and of a request
once it has begun; nobody has to make a request. `handle_job` is assumed to
return, as its own limits make it. `GpuSession`: time passes, the service and
inference go on, a client at its limit leaves. `SessionRunner`: the thread goes
on (`WF_vars(Next)`) and every call returns or raises; `BatchEnds` is then about
the repair loop and the exceptions, not about a model that hangs.
`SatelliteWorker`: the service is called again and again (the caller's part: each
call handles one product and reports how many remain), a call goes on once it
has begun, and an inference ends with an output or a failure. The losses are
bounded, so in the end calls succeed. `SourceAcquisition`: someone asks again and
again, and some thread goes on (`WF_vars(Serve)`); a thread that never gets to
run is not excluded. `PointEvidence`: one thread of supervision, which is asked
again and again and goes on; the others need not do anything. With two such
threads nothing is promised: each may keep refusing the other. A bundle that
cannot be assembled (`mvp/supervision/point_evidence.py:219`) is one of the
bounded mishaps, so `EveryCandidateIsAssessed` is about candidates whose bundle
can be assembled in the end. `ModelCache`: a pod that has started goes on; a pod takes the lock once per start, so none keeps
it from another for ever. `SourceAcquisition`, `PointEvidence` and `ModelCache` run with deadlock
off because their work, or what is bounded of it, ends. `SessionRunner` and `SatelliteWorker` run
with deadlock off because a batch ends, and so does the work of an incident day.

### Disagreements found

* `gpu_overlap`. `pod_server.py:45` says one consumer keeps GPU work sequential.
  That holds within the process. The research model is in another process, and
  its client waits 900 s (`research_client.py:26`) for a service that may need
  120 + 840 + 120 s. `NestedIsExclusive`, checked and proved, gives the
  condition: a client timeout above the sum of the three.
* `judge_verdict`. `_judge_disagreement` sets the verdict before
  `synchronize_cuda` (`session_runner.py:577`) and does not take it back when
  that call raises. `contracts.py:1143` asserts that an adjudicated consensus
  has a successful judge, and refuses the whole version 2 batch as an input
  error. The packaged registry gives only `fire_detection` a judge, a text model
  that always abstains there, so this needs another registry: a judge of
  `multimodal_extraction` or a visual judge.

* `paid_once`. `mvp/satellite_cpu.py:361` says the reservation prevents paid
  duplicate calls. It does between calls of the service (`OneSubmission`). But the
  `sagemaker-runtime` client has the retries of the object store
  (`satellite_cpu.py:426-432`), and botocore sends `invoke_endpoint_async` again
  when its answer is lost. `PaidOnceWithoutRetries` gives the condition: one
  attempt for that client.
* `source_convergence`. `docs/SOURCE_ACQUISITION_METHOD.md:288` says that
  collection converges only after waves that add no new independent source.
  `_collect_search_page` puts a source into the sets of known ones
  (`source_acquisition.py:531`) before its media are processed; when that raises,
  the sources of the page are discarded and the sets are not restored. Later
  searches of the run pass the source over, count as empty, and the wave
  converges without it. `NothingSilentlyDropped`, checked and proved, says what
  remains: such a source was on a page whose failure the journal has. The entry
does not name the source (its `source_url` is None).

Seen in the source acquisition without a run: the limit of pages ends a wave with
no cursor, where `docs/SOURCE_ACQUISITION_METHOD.md:178` promises a resumable
one; for a candidate the planner plans a second wave that the worker refuses for
ever, where line 379 says that every retry changes the wave (`PlanIsAccepted` is
about incident days for that reason); and `authorized_invocations_per_run` is a
budget of the process, not of a run. In the evidence services: a candidate added
after the first reading is not assessed though the answer says `completed`;
every retry pays for all assessments again; media beyond the limits of a request
are never processed. In the bootstrap: a pod that must not download fails when a
pod of another configuration has written the manifest, although its models are
there. In the fetcher: with a cache as small as one download, which the settings
allow, the catalog of the spatial pipeline may evict the orthophoto it holds, and
the error of opening it is not caught (`spatial_pipeline.py:413`).

Seen while modelling, with no line of the repository that contradicts it: a
judge that repeats the evaluator's reason code loses the batch
(`AdjudicationIsRefused`); `failed` is a status the runner cannot give, since a
failed stage also makes the batch incomplete; the gate's
`downstream_possible = False` for a late or long answer does not keep its
results from the next stages; a failed revoke call replaces a good research
result (`RevokeFails`). In the satellite worker, a call that finds a reservation
just before its owner submits gets the final answer
`sagemaker_submission_state_ambiguous`, although the result will come; a
reservation whose answer is lost gives `sagemaker_reservation_failed`, marked
retryable, although the retry can only find the reservation and give up; and a
product that can never be analysed blocks those after it (`Blocks`).

## 4. Proofs

Every theorem is about `Spec`, without fairness, and for every value of the
constants under the assumptions of the module that declares them.

`PodQueueProofs`. `IInv` adds to the types: at most one job is in progress and it
is the one the consumer holds (`OneInProgress`); outputs match statuses
(`OutputMatches`); a job is in one place, in the queue or with the consumer, or
about to be put there by one thread (`OnePlace`); and what a thread has read is
not ahead of the job (`ReadsArePast`). `OnePlace` is why a claimed job cannot be
dequeued twice; `ReadsArePast` is why two reads of one answer fit together. From
`IInv` follow `AnswerIsWhole`, `NeverGoBack`, `CancelledNeverRuns`, and the step
simulation of `Refinement`, which maps the queue plus the job in the consumer's
hand to the line of `JobLifecycle`.

`GpuSessionProofs`. `ConnectionInv` says that a caller is in at most one
connection; it gives `SharedOnlyWhenAbandoned` whatever the limits. `NestedInv`
bounds how long the client has waited by what the service has spent
(`ServiceIsAwaited`, `BacklogIsAwaited`); under `Nested` the client is never at
its limit, which gives `Exclusive` and `InTime`.

`SessionRunnerProofs`. `Checkpoint` says what `loaded` is at each place of the
runner; `NeverTwoCheckpoints` follows. `TypeInv` joins the types with what is
known at each place: the stage, how many executions there are, which decision
is pending. `ConsensusInv` carries the reason for a decision (`Justified`) to
the results (`Used`); `ConsensusOnly` follows.
With these two, `RecordInv` lists the ways a stage can end (`Skipped`, `Merged`,
`Kept`) and the shape of an execution (`ExecOK`); what the validators, the
status and the offer of a retry require follows case by case
(`RecordsAreValid`, `StatusIsHonest`, `RetryCanHelp`).
`BoundedBatch` proves `StepsRunOut`: `StepsLeft` is a natural number and falls with
every step. That is what is hard in `BatchEnds`: the repair, the skipped and
exhausted candidates, the judge and every exception. What `BatchEnds` adds is
that some step is possible until the end. `Counted` says how many executions
there are at each place; the stages still to come count in full (`Ahead`), so a
step is compared within its stage (`WithinStage`), at its end (`StageEnds`), or at
an exception (`RaiseSteps`).

`SatelliteWorkerProofs`. `OneSubmitter` says that one worker at most is between
reservation and submission of a request, and that a request without a
reservation has neither an object nor a submission; `SubmittedOnce` follows.
With one attempt, an inference needs a submission (`PaidBySubmission`), which
gives `PaidOnceIfSentOnce`. `Undisturbed` says that before anything is lost
whoever submits holds a reservation in state `reserved` and no object is in its
way; `ReservedIsSubmitted` follows. `Waited` says that whoever publishes has seen
a result, and results do not change; `ComputedIsPublished` follows. `InOrder` says
that whoever works on a product does so after those before it were published,
that an SDK repeats only what was submitted, and that what the endpoint computes
was asked for. With it every step of the worker is one of `AnalysisLine` or none
(`LineStep`), which gives `Implements`: crashes, losses, time-outs and the second
worker cannot be seen in the record.

`SourceAcquisitionProofs`. `RunOK` says of a run whose revision is the latest that
it knows all that is recorded and that its next page is the next one of the
record (`Fits`); a run with an older revision can record nothing, so nothing need
be said of its cursor. That is why concurrent runs, crashes and other writers
cannot break the sequence of pages (`PagesInOrder`) or record a source twice.
`Limits` relates the streak to the pages that were really empty, which gives
`ConvergenceIsEarned`. `Implements` shows that all runs together are the one
searcher of `AcquisitionLog`: by `RunOK` a page that is accepted starts where the
record stands, with its streak and its sources, and every other step leaves the
record alone. All invariants of the run are proved.

`PointEvidenceProofs`. Whoever is in `fresh` has seen the evidence there is, but
for what it recorded itself, and has work of its own service only; both go
through the chain of publications of a request (`ChainOK`), lost answers
included. `Implements` follows step by step: what a request has still to publish
was selected from evidence that is still the evidence, if its revision is fresh,
and is refused if not; so its publication is one step of `EventRecord`.

`ModelCacheProofs`. The manifest names whole models only, because it is written
after all downloads have succeeded and nothing takes weights away; with the
lock, a pod that provides finds its own manifest at the last check. `NotSetBack`
proves `NothingIsRepeated`: files only arrive on the volume (`Grows`), so what a
pod has left (`StepsLeft`) falls with each of its steps and never rises with
another's; whoever waits for the lock waits for a bounded number of steps of its
holder. What `EveryPodLaunches` adds is fairness.

`MediaFetcherProofs`. A remembered digest is that of the file that is there
(`Digests`), so what was given out under a digest has it (`Verified`, the first
part of `HeldIsKept`). The second part, that files in use stay, is about sums: as
long as all that is held fits, the eviction makes room before it reaches a file
that is held. `SpaceInvariant` has the two facts it takes. `Accounts`: the bytes
of the cache are the sum over its files. `Kept`: the files that are held were
used later than the others, so they are evicted last. The sum over a set is a
fold of the library; its laws are proved first, for every finite set, from a
smallest counterexample among its subsets. `HeldFilesStay` is then the whole of
`HeldIsKept`.

Proved and not run: the types of `SessionRunner`, `PointEvidence` and `ModelCache`,
the order of the pages (`PagesInOrder`, theorem `InOrder`) and that only results
are published (`PublishedIsComputed`, theorem `ComputedIsPublished`). The refinements,
`StepsRunOut` and `NothingIsRepeated`, which the runs check instead, say more.

Only model-checked: the liveness properties (`EveryJobEnds`, `LockIsReleased`,
`BatchEnds`, `EveryProductEnds`, `WaveEnds`, `EveryCandidateIsAssessed`,
`EveryPodLaunches`), which need fairness and ENABLED, out of the prover's reach.

## 5. Not modelled

* Computations without state that outlives a call, mostly numerical: the spatial
  pipeline's geometry and rasters, satellite observations and corpora, ranking
  and localization, the mapping of results to output documents, costs,
  benchmarks, the event pipeline and the orchestration of bundles. Floating point
  is out of TLC's reach, and there is no interleaving or failure to explore.
* Calls of model services and libraries and the checks of their answers: adapters,
  vision and supervisor providers, transcription, the multimodal analysis. In the
  models they are calls that answer, answer wrongly or raise.
* Message shapes, manifests and URL checks: predicates over one document.
* The research agent and broker: fetches of a page under a policy and a loop of one
  model over them, in a process that is thrown away. `GpuSession` has their
  duration and failures; a policy that is revoked during a fetch (`hazards`) ends
  no later than the fetch.
* The analysis of public media: it publishes as the services of `PointEvidence` do,
  to another document; its failure is a failing page in `SourceAcquisition`.
* Pod validation, one job and a report of it, and the SageMaker service, a thin
  HTTP layer with one lock.
* Offline code, most of the repository's lines: training, dataset tools,
  deployment, the preparation of indexes and caches. Single processes run by hand.
* The TypeScript supervisor and the C launcher, beside the worker.

Hazards in `PROJECT.json` without a property have a note that says why.
