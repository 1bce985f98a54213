# A TLA+ verification of the distributed testing system

The repository is an online judge: a web server (userver) takes solutions, a
broker hands them to testing processors, these fetch the tests of the task from
tabasco (the *task batcher and storage coordinator*), run the solution on them
in a docker container with the help of a small executor, and send the report
back to userver. This directory holds TLA+ models of these parts, the TLC runs
that check them on small instances, and TLAPS proofs of all their safety properties,
those of the composition of tabasco with a testing processor included, for every instance.

## 1. Inventory

| Part | State | Operations | Talks to |
|---|---|---|---|
| tabasco HTTP server (`http/`), 2 workers | the request at hand | `PUT /uploadTests`, `PUT /uploadBuild`, `PUT /uploadTaskRootDir`, `GET /builds`, `GET /build` | MongoDB |
| storage client (`common/storage_client`) | collections `taskTests`, `taskMeta`, `builds` | `UpsertTaskTests`, `UpsertTaskMetaData`, `UpsertBuild`, `GetTaskMetaData`, `GetTaskBatch`, `GetBuild` | shared by HTTP and gRPC processes through the database only |
| tabasco gRPC server (`grpc/`) | none | `GetScripts`, `GetBatch` | storage client, testing processors |
| testing processor (`testing_processor/`) | container, files in `localStorage`, the report | `Process` = `Prepare`, `Test`, `ExecuteAndTest`, `Commit` | docker, tabasco, checker, userver |
| broker client (`broker_client.cpp`) | AMQP connection, message at hand | consume callback, acknowledgement | RabbitMQ |
| executor (`executor/`) | child process, its group, limits | `Execute` | the kernel, `report.json` |
| userver (`userver/`) | relational database | `save_solution`, `send_solution`, `save_resolution`, accounts, tasks, challenges | broker, tabasco, testing processors |
| accounts (`userver/lib/db/auth.py`, `authlib.py`) | table `users`, signed tokens | `signup`, `signin`, `verify_token` | every userver endpoint with a token |
| start-up (`testing_processor/main.cpp`) | threads, their directories, the logging library | `main`, `TBrokerClient::Run` | RabbitMQ |
| LRU cache (`utils/lru_cache.h`) | a list and a map of iterators into it | `Insert`, `Get`, `Erase` | nobody: its uses are commented out |

What is hard here, and what makes each part correct:

* **Uploads.** A request's 2n database updates and its metadata update are not a
  transaction; workers overlap, calls fail, the server dies in between, and a
  testing processor reads meanwhile with three separate queries. Correct: what
  is announced can be read, is complete, and is never older than the last
  accepted upload.
* **Batching.** `GetTaskBatch` takes `front()` and `back()` of a batch and reads
  the tests between: batches must be non-empty runs of consecutive ids.
* **Process.** Almost no result of an external call is looked at; files of
  earlier tests lie around in the container and on the host. Correct: a pass
  was earned on every test.
* **Delivery.** The message is acknowledged after the report was posted, and the
  callback blocks the event loop: lost connections, crashes and missed
  heartbeats mean testing and committing twice, possibly at the same time.
* **Builds.** A build is a row in one database and scripts in another, written one
  after the other by a request that may break off in between or arrive late.
* **Executor.** A timeout races the end of the solution; units and integer
  widths decide how long it is. Correct: a pass is earned, a penalty is due.
* **Resources.** Containers are never removed, and `fork`, `popen` and `open` are not checked.
* **End to end.** `GetScripts` and the `GetBatch` calls of a submission are separate
  reads of a database that uploads change. Correct: a submission is accepted on
  the task as it was last uploaded.
* **Accounts.** Names are checked and inserted in two steps, passwords are hashed
  by the process, tokens outlive it.

`PROJECT.json` lists every hazard with its line and the properties that cover it.

## 2. Modules

| Module | Models | Composes |
|---|---|---|
| `UploadTests` | `Parse` and `SplitIntoBatches` as operators | |
| `BatchLoop` | the two loops of `SplitIntoBatches`, one iteration a step | `UploadTests` |
| `UploadRequest` | `Handle` up to the storage access: parse, then split | `BatchLoop` |
| `UploadRequestProofs` | theorems about `BatchLoop` and `UploadRequest` | |
| `TabascoStorage` | HTTP workers, MongoDB, gRPC reads | `UploadTests` |
| `TabascoStorageProofs` | theorems about what `TabascoStorage` keeps and what its readers get | `UploadRequestProofs` |
| `TestingReport` | verdicts, `CheckOutput`, the order of the verdict checks, the final verdict | |
| `TestRun` | `TTestingProcessor::Process` of one instance | `TestingReport` |
| `ProcessSpec` | what `Process` promises: abstract specification | `TestingReport` |
| `DTS` | tabasco and a testing processor together | `TabascoStorage`, `TestRun` |
| `DTSProofs` | theorems about `DTS` | `TabascoStorageProofs`, `TestRunProofs` |
| `SubmissionFlow` | userver, broker, instances; `Process` reduced to the reports `ProcessSpec` allows | `TestingReport` |
| `SubmissionLifecycle` | what the owner of a submission may see: abstract specification | |
| `Executor` | `TExecutor::Execute` and the verdict from its report | `TestingReport` |
| `Accounts` | sign-up, sign-in, tokens, access to solutions | |
| `BuildFlow` | tasks and builds: userver's rows, the PUT to tabasco, the stored documents | |
| `TestRunProofs`, `SubmissionFlowProofs`, `ExecutorProofs`, `AccountsProofs`, `BuildFlowProofs` | theorems about the module of that name | |
| `MC*` | constants for TLC | |

Definitions that begin with *mutant* in their comment are not part of any
specification: they are plausible bugs used to see that a property notices them.

### UploadTests, BatchLoop, UploadRequest

A multipart request is a sequence of part names; the taskData part is a text that is
no JSON, or the fields it has and whether they are numbers. `Parse` keeps the
order of the early returns and the halving of the number of parts. Test contents
are their sizes. `SplitIntoBatches` is made of two recursive *functions*, one for each
loop; `BatchLoop` has the loops as they stand, and `UploadRequest`
runs them for a request that `Parse` has accepted. `total` is a
history variable: the sums of the sizes so far, from which the weight of a batch
is read without summing.

### TabascoStorage

`testDocs[key]` is the sequence of documents that match one update filter (there
is no unique index), a document's content being the number of the upload that
wrote it. `taskMeta[t]` is the metadata document. `http[w]` says where a worker
is: `BeginUpload` (parsed and split), then `UpdateTest` / `NoTestMatches` +
`InsertTest` for each update - an upsert that matches nothing inserts in a second
step, which is how two workers can both insert - then `UpsertTaskMetaData`. Every
call may fail before or after its effect, and `HttpCrash` ends all workers. The workers
share one `mongocxx::client`, which is not safe for threads: of this race a call that
fails and the death of the process are modelled, a call that seems to succeed and did
something else is not.

A session is one testing processor's `GetScripts` followed by its `GetBatch`
calls; `OpenBatch` reads the metadata again and opens the cursor, `ReadDoc`
delivers one document as it is now, `CloseBatch` replies. `due` are the
documents that existed when the cursor was opened and that it must deliver.
`OpenUndefinedBatch` is the undefined behaviour of indexing past the batches or
taking `front()` of an empty one. `calm`, `solo`, `base` and `torn` are history:
whether an upload of the task overlapped the session, whether earlier uploads
overlapped each other, the last accepted upload, and whether a later one broke off.

### TestRun and ProcessSpec

One action per call: container, `GetScripts`, init script, `GetBatch`, executor
run, report and checker, commit. Each external call has its failures: docker not
starting, `docker exec` failing (the redirected output file is truncated all the
same), the executor killed before it wrote a report (the one of the previous test
stays), an empty `report.json` (the conversion throws), the checker unable to
compare, or killed by a signal: `testing_processor.cpp:126` applies `WEXITSTATUS`
without `WIFEXITED`, so that a killed `diff` says OK. `files` keeps the host's files from
one submission to the next, and `containers` counts what `Kill` does not kill. When the
host holds `Capacity` of them `docker run` fails, or `popen` returns NULL and the
process dies. At any time the host may fail a `fork`, the opening of a file or the
writing of one, and nobody looks: `Exec` returns 0 without a child, files keep what they
held or are cut short, and the verdict is about whatever is there. `basis` is history and
says of each test what its verdict is about: the solution `"ran"` on it or was `"not run"`, or
else the `"host failed"` (then what the checker compares is left open) or the `"checker died"`.
`ProcessSpec` says: each submission ends, with nothing committed or with one
commit of a report that stops at the first failure. The refinement maps `busy` to
`run.pc # "idle"` and `outcome` to itself.

### DTS

The two specifications are instantiated side by side, submission n being session n of
the storage. `GetScripts` and the answers to `GetBatch` are joint steps: the number of
batches and the expected outputs `TestRun` chooses freely are now the ones
`TabascoStorage` reads. A test's expected output is the name of the upload that wrote
it. `KeepsPromise` is checked again, because joint steps could have blocked it.

### SubmissionFlow and SubmissionLifecycle

`solution` is userver's table, `queue` the ready messages of the broker, `inst` the
instances, `posts` the requests userver is handling. The result and the rows of a
report are two transactions, as in `save_resolution`. The broker requeues an
unacknowledged message when a connection is lost, while the callback of the old
delivery goes on. `excuse` records the places where the code gives a submission up
(an exception in `Process`, an unreachable commit service, a request failing half
way, a restart of the broker, whose queue is not durable).

`SubmissionLifecycle` is the view of the owner: saved, then pending or given up, a
result that may change but not go away, rows that follow a result, closed for good.
A submission is mapped to *pending* while the broker has it, an instance works on it
(also one that has lost its connection) or userver handles a report of it.

### Executor

Time advances in seconds. `MsPerSecond` stands for the 1000 of the two conversions
and `IntHalf` for 2^31, so that the cast to `int` wraps within reach of TLC. The
child is first only forked: `kill(-pid)` finds no group until it has called
`setpgrp`. With `Leave`, that is `setpgid` or `setsid`, the solution or a process it has started
gets out of the group and of the kill's reach: `helpers` holds `"stayed"` and `"left"` for
whether such processes are alive, and `child.left` remembers it of the solution itself.
`ContainerKills` is the memory limit of the container, which is not the task's. `timeout` is the last argument of `epoll_wait`, negative meaning for ever.
The report goes through `ExecuteAndTest`: seconds become microseconds, the limit
seconds, milliseconds and microseconds, memory stays in KB and is compared with bytes.

### BuildFlow

`tasks` and `builds` are userver's tables, `documents` tabasco's `builds` collection,
`puts` the PUT requests under way. `create_task` is a check and an insert, `add_build`
a committed row followed by a request that may be refused, fail, be answered too
late or be lost with the server. Scripts are known by the request that brought them.
The JSON of a build is modelled by the one field that matters, its id: `MoveToJSON`,
`Erased` and `FromJSON` do with it what the code does. `GET /builds` opens a cursor and
answers later with all that was stored when it began and some of what came since.

### Accounts

A person is a password nobody else has. `hash()` of a string is the string together
with the number of the process, as `PYTHONHASHSEED` is not set; a token is signed with a key
from the environment and survives. `add_user` is a check and an insert. `refused` and
`shown` are history: what the server answered to whom.

## 3. Runs

| Run | Checks | Shows |
|---|---|---|
| `upload_handler` | `BatchesPartitionTests`, `BatchesFit`, `BatchesMaximal`, `LoopIsSplit`, `AcceptedIsExact` | exactly the well-formed requests are accepted, although only parts are counted; the loops build consecutive, non-empty, fitting, maximal batches, the ones the function gives |
| `storage` | `MetaCovered`, `NoBlankTests`, `AcceptedIsServed`, `NoDuplicateDocs`, `AnnouncedIsDefined` | two workers overlap, fail and crash while a submission reads |
| `storage_empty_upload` | `AnnouncedHoldsTests` (violated) | finding 1 |
| `dts` | `AcceptedOnItsTests`, `AcceptedOnNothingOlder`, `KeepsPromise` | from the upload to the verdict: a submission fetched in a calm moment is accepted on the tests of its task, any other on nothing older than they were |
| `test_run` | `OKWasRun`, `AcceptedIsComplete`, `KeepsPromise` | neither an old report nor an old output earns a pass; `Process` implements `ProcessSpec` |
| `submission_flow` | `NothingLost`, `ResultFromRows`, `StoredOncePerDelivery`, `KeepsLifecycle` | redelivery, overlapping and late commits and failed requests stay within `SubmissionLifecycle` |
| `submission_consumed` | `Consumed` | every submission that was sent is dealt with unless all instances are down |
| `executor` | `PassIsEarned`, `PenaltyIsDue`, `NoSurvivors`, `ExecutorEnds` | the timeout, the end of the solution, its way out of its group, and the limits of the task and of the container in every order, up to the verdict |
| `executor_limit` | `LimitIsInSeconds` (violated) | finding 2 |
| `build_flow` | `OneTaskPerName`, `ScriptsOfTheirRow`, `ListedIsUsable`, `CreatedIsShown` | concurrent, broken and late administration requests keep the two databases in step |
| `accounts` | `OneAccountPerName`, `RefusedOnlyAfterRestart`, `ShownToItsOwner` | races for a name, restarts and old tokens show nobody another one's solution |
| `accounts_password` | `RightPasswordAccepted` (violated) | finding 3 |

All but `dts`, `submission_consumed` and the violated ones also check the type
invariant of their module.

### Bounds, and why they are enough

* `upload_handler`: requests of any shape with up to 5 parts, named after tests 1 and 2,
  taskData.json or something else (missing, duplicate, stray and misnumbered parts
  around a request of two tests), and well-formed ones of up to 5 tests of sizes 0..4
  with `BatchSize` 3: empty tests, tests that fill a batch exactly, tests larger than
  the limit, up to five batches.
* `storage`: two workers, two uploads of no test, one, or two in a batch each, one
  reader: every overlap of two uploads and of an upload with a read. The proofs
  remove these bounds for every property of the run.
* `test_run`: two submissions (leftovers of the first meet the second), two batches
  of two tests, all combinations of exit code and limits, two expected outputs, of which
  one is empty, beside the text no test expects; room for one container, so that the
  second submission meets a full host.
* `dts`: one worker, two uploads of one test or of two in a batch each, and one
  submission: it may come before, between, during and after them. With one worker uploads
  do not overlap, and `solo` holds throughout; with two the run does not finish (more than
  twenty million states). Uploads that overlap, before or during a submission, and empty
  ones are the subject of `storage` and `storage_empty_upload`, and the proofs cover the two
  invariants and the safety part of `KeepsPromise` for any number of workers and uploads.
* `submission_flow`: two submissions, two instances, two faults: a message
  delivered three times and two commits of one submission at once. Reports: none,
  a pass, a failure after a pass. Instances and submissions are symmetric.
* `submission_consumed`: one report and one fault; no symmetry, as it is liveness.
* `executor`: two cores, memory peaks on both sides of the limit in either unit; limits 0
  to 4 with an `int` of 5 bits give timeouts of 0, 4, 8, 12 and -16 milliseconds: none at
  all, in range, and wrapped to a negative one.
* `accounts`: two people, two names, three accounts, two solutions, a restart, and time
  enough for a token to run out.
* `build_flow`: four requests, two names, three rows: a task, a build, its late PUT
  and a second try, or two requests for one name beside a build.

`CHECK_DEADLOCK FALSE` stands in every configuration because the behaviours end:
the bounds are used up, a function returns, or (in `SubmissionFlow`) every
submission is done.

### Fairness

* `TestRun`: `WF(Step)`. `Process` runs on the consumer's thread. Its gRPC and
  curl calls have no deadline, so this also assumes that a peer answers or that
  the connection breaks; the executor's own end is the subject of `Executor`.
* `SubmissionFlow`: weak fairness of every consumer that is up and of the requests
  userver handles. None on `Restart`, as docker-compose.yml has no restart policy,
  and none on userver sending. Faults are finitely many.
* `Executor`: `WF(Step)`: time passes, the kernel acts, the executor is scheduled.
  The solution need not do anything, and may get out of the kill's reach, which `ExecutorEnds`
  excepts. A second does not pass while a timeout is due,
  which idealises the scheduler.
* `DTS`: weak fairness of the steps of the submission, its calls to tabasco included;
  none on uploads.
* `UploadRequest`, `TabascoStorage`, `BuildFlow` and `Accounts` state only safety and have no
  fairness.

## 4. Findings

1. **An upload without tests is announced as one batch**
   (`storage_client.cpp:164`). `Parse` accepts taskData.json alone,
   `SplitIntoBatches` returns one empty batch, and `GetTaskBatch` calls `front()` on
   it: undefined behaviour. `test_sample.py:184` asserts of every announced batch
   that `len(response.input) > 0`.
2. **The cpu limit is passed in milliseconds** (`testing_processor.cpp:207`) to an
   option documented as "cpu tl in seconds" (`executor/main.cpp:11`): `RLIMIT_CPU`
   and the timeout are 1000 times the task's limit. The limit is still applied
   afterwards when the verdict is chosen, but the solution has run that long.
3. **A restart of userver locks everybody out** (`auth.py:18`). The password is stored as
   `str(hash(...))`, and Python draws the seed of `hash` for every process.
   `server.py:43` then answers a right password with "wrong password".

Also visible in the models, without a statement in the repository to check
against: a solution killed for its time gets `RE`, because the exit code is looked
at first; a test that expects no output may be passed by a solution whose
`docker exec` failed while the report of the previous test lies in the container
(`OKWasRun` therefore speaks of tests that expect output); a `diff` killed by a signal is
read as "equal" (`testing_processor.cpp:126`), and on a host where a `fork` fails, or a file
cannot be opened or written, a test may be passed on the files of an earlier one
(`OKWasRun` and `AcceptedIsComplete` say that nothing less does it); a process that has left
the solution's group outlives the report (`executor.cpp:62`), and the executor waits without
limit for a solution that has left it itself; it also waits for ever on a limit that wraps
to a negative timeout; two overlapping uploads may
leave two documents for one test, of which later uploads update only one, so that a
submission may then be accepted on an older test (`AcceptedOnNothingOlder` therefore asks
for `solo`); `ML` is
given only at 1024 times the memory limit, as kilobytes are compared with bytes; every
build is read back with id 0, as `UpsertBuild` stores `_id` and `FromJSON` reads `id`
(`storage_client.cpp:206`); a token lasts `ACCESS_TOKEN_EXPIRE_MINUTES` *seconds*
(`authlib.py:28`).

## 5. Proofs

Each theorem holds for every value of the constants that meets the named assumptions.
Hardly a property is inductive as it stands, so every proof module has an invariant
made of named parts, shows that `Init` implies it and that each action keeps it (one
lemma per action, with one step per part it can disturb), and reads the properties off
it. TLC has checked each of these invariants on instances like those of section 3.

### UploadRequestProofs

`LoopTypes`, `SplitPartitions`, `SplitFits`, `SplitMaximal` for every list of tests and
every `BatchSize`. `LoopInv` adds to the four properties that `total` holds the sums of
the tests placed, that every test seen by the first loop is at most `batchSize`, that
`accumSize` is the weight of the last batch and at most `batchSize`, and that every id
in a batch has been placed. Without the second of these the test that opens a batch
need not fit. `HandlerSplitsRight` carries the properties over to the loops as `Handle`
runs them, after `Parse`.

`SplitIsInOrder` is about the function `SplitIntoBatches`, which `TabascoStorage` stores
the result of: for every list of naturals and every `BatchSize` its batches hold 1..n in
order, none empty unless n = 0. It is an induction over the list. The induction theorems
of the library take an operator, which the provers here cannot instantiate, so the proof
goes by the least counterexample: the set of the lengths at which a claim fails, if it is
not empty, has a least element (`WFMin` on `Nat`), it is not 0, and its predecessor gives a
contradiction. The same argument shows that the two recursive functions satisfy their
recursion. `LoopsComputeSplit` then states `LoopIsSplit`: after n iterations each loop holds
the n-th value of its function (`FunctionInv`).

`AcceptsExactUploads`: a request is accepted exactly when it consists of taskData.json
with a numeric taskId and of one input and one output for each of n tests. `Parse`
only counts parts and looks each name up, so the proof is a pigeonhole: the expected names are 2n+1
distinct ones, and a request of 2n+1 parts that has them all has each once.

### TabascoStorageProofs

For any sets of workers, sessions, tasks and builds and any number of uploads.

* `StorageTypes`, `MetaIsCovered` from `StorageInv`. `MetaCovered` says nothing of an
  upload that is under way; `WorkerInv` does (the tests before the one a worker is at
  are stored, all of them when it comes to the metadata), and `TaskInv` says that the
  metadata is the split of a recorded upload whose tests are stored. No step
  removes a document (`DocsKept`) and none changes the task or the tests of a
  recorded upload (`UploadsKept`), so only the worker that moves has to be looked at.
* `OneDocumentPerTest` from `WriterInv`. `Exclusive`: each busy worker has a running
  upload of its own, and a running one that a later one of its task overlaps is not
  solo. `Content`: for a task whose uploads came one by one, no filter matches two
  documents, what a worker has written is still there, and the last upload, if it was
  accepted, is in place with its metadata. `HasLast`: `LastAccepted` is defined.

What they say of batches comes from `SplitIsInOrder`: `Splitter` instantiates
`UploadRequestProofs` with the constants of the storage.

`NoTestLeftBlank`, `AnnouncedBatchesExist`, `AcceptedTestsAreServed`: what a testing
processor that reads a task while it is being uploaded may get. `SessionInv` says of each
session what its separate queries leave it with: there is metadata and a batch left to
ask for (`Asking`), and while no upload of the task overlaps the session the batches are
the announced ones (`Settled`); a cursor is bound to deliver a document for every test of
its batch (`Reading`); undefined behaviour in a calm session is the fault of an upload without
tests (`Blamed`); and a calm session over uploads that came one by one, none torn, has been
served exactly the tests before its batch, all of the last accepted upload (`Exact`), and in the
end all of them (`Fulfilled`). The
frame lemma `GoodKept` carries most of the proof: the task of a calm session has no
running upload, so steps of HTTP workers do not touch it, and the one that starts an
upload ends the calm.

`ServesNothingOlder`: without the calm, a session that began after uploads made one at a
time is served nothing older than its `base`, the last upload accepted before it. An upload
that breaks off leaves documents of earlier ones in place, so the documents of a task need
not all be that recent. `Recent(t, b)` says which must be: those the metadata refers to,
those an upload under way has written, and of every other key the document is recent or
the only one, with nobody about to insert beside it, so that the next upload that needs
the key replaces it. `RecentInv` says this of every task whose uploads came one by one, with `b` its
last accepted upload, and of every session under way with `b` its base, and that what a
session has read or its cursor can still deliver is recent as well (`UpToDate`). Uploads that
overlap *after* the session began are covered.

### TestRunProofs

`RunTypes`, `PassedTestsWereRun`, `AcceptedRunsComplete`, and `ProcessKeepsPromise`: the
safety part of the refinement `KeepsPromise`. `RunInv` says that nothing is reported before
`Test` begins (`Fresh`), that without `execute.sh` no report says success and that it is there
only for a task with batches (`Built`), that a report goes on only after `OK` (`StopsAtFailure`), that
every test is reported, at hand or not fetched yet (`Accounted`, `Bounded`), that the file
a test without a run is judged on is empty, unless the host failed (`Fetched`), and that
nothing is posted before `Commit` (`Quiet`). A pass without a run is thus left to an error of the host
and to a checker that was killed, and `basis` tells these apart.

### DTSProofs

`AcceptedPassedItsTests`, `AcceptedPassedNothingOlder` and `WholeKeepsPromise`, from the two
proofs before. Every step of `DTS` is a step of `TestRun` or leaves its variables alone
(`ProcessorStep`), and the same for `TabascoStorage` (`StorageStep`), so `RunInv` and all invariants of
the storage hold of `DTS`. What is left is the link, `LinkInv`: a submission under way has the
session of its number, and later sessions are idle; until `GetScripts` it has asked for
nothing; without batches its session has failed; else (`Follows`) its session is at
the same batch of the same number of batches, and the tests in the report followed by those at
hand are, in order, the ones the session was served (`Matches`); a session that failed
later has ended the submission with a `CRASH`.

An accepted submission has no `CRASH` and no batch left, so its session is done, or has
met undefined behaviour, which a calm one has not when no upload was empty. Then
`Fulfilled` says what it was served, `UpToDate` how old that is, and `Matches` that it is
what the submission has passed. The theorems state their hypotheses: that the host did not
fail at every test (`Accepted`); for the first one a calm session over uploads made one
at a time, none torn or empty; for the second one that the uploads before it were made
one at a time and that every batch asked for was defined. TLC has checked `LinkInv` with one and with two
submissions.

### SubmissionFlowProofs

`FlowTypes`, `NoSubmissionLost`, `ResultsHaveRows`, `RowsPerDelivery`, and the whole
refinement: `ImplementsLifecycle` states `Spec => KeepsLifecycle`, `SubmissionLifecycle` having
no fairness. `FlowInv` says that an instance has a submission exactly while its callback
runs (`BusyWithOne`), that whatever holds a submission, it was sent (`HeldIsSent`), that one that was
sent is on the broker or needs no message any more (`SentIsKept`) and that the callback
comes to the acknowledgement only then (`AckedIsSafe`), that rows follow a result
(`RowsAfterResult`), that a result is that of stored rows or of rows under way
(`ResultHasSource`), and that every delivery is worked on, in userver, stored or over
(`Counted`). The last one is about cardinalities and rests on a few lemmas of its own.

### ExecutorProofs

`ExecutorTypes`, `PassesAreEarned`, `PenaltiesAreDue`, `NothingSurvives`. `ExecutorInv`: the
cpu time is bounded by the cores and the clock (`CpuBounded`), a child that is only
forked has used and started nothing (`ForkedIsNew`), past the wait a child is alive only because
the time was up, and past the kill only when it has left its group or the timeout was zero,
and else nothing that stayed in the group is alive (`KillReaches`), a killed
solution had its time (`KilledInTime`), and the report is about the child as it ended
(`ReportIsOfChild`). A few lemmas carry the comparisons through the conversions of
seconds, milliseconds and microseconds and through the cast to `int`.

### BuildFlowProofs

`BuildTypes`, `TaskNamesUnique`, `ScriptsMatchRows`, `ToldIsUsable`, `CreatedBuildsShown`.
`BuildInv` relates the two databases through the requests under way: a request made at
most one row and remembers it (`RowsOfRequests`, `NamesChosen`), only an answered one has a status
(`OpenIsUnanswered`), one that is about to send scripts has made the row (`PutsAhead`), a PUT
under way is for the row of its request and has stored the scripts when it succeeds
(`PutsOfRows`), `GET /build` answered with the scripts of the row (`ReplyRight`), and the cursor of
`GET /builds` is bound to come to every build that was known to be created (`ListingRight`).

### AccountsProofs

`AccountTypes`, `NamesStayUnique`, `RefusedNeedsRestart`, `ResultsStayPrivate`. `AccountsInv`: what is
stored as a password is the hash of the account's own person and name (`PasswordsOwn`), a
token names an account of its holder (`TokensOwn`), a solution is filed under an account of
the person who posted it (`SolutionsOwn`), and what was shown is a solution (`ShownPosted`).

### Assumptions

They are what the constants mean: `InputsAssumption`, `BatchSizeAssumption`, the
`RequestsAssumption`s, `ResultsAssumption`, `NoneAssumption`, the assumptions of `DTS` and the
like say that sets hold well-typed records, that bounds are naturals, that a "none" is
not a member. `AnswersAssumption` of `TestRun` and `UploadNamesAssumption` of `DTS` keep the text
`"wrong"`, which stands for any output that no test expects, apart from the expected ones.
TLC evaluates all assumptions in every run.

### Only model-checked

Liveness: `Consumed`, `ExecutorEnds`, and the fairness of `ProcessSpec` in the two
checks of `KeepsPromise`, whose safety parts are `ProcessKeepsPromise` and `WholeKeepsPromise`. The
prover has no rules for fairness and `ENABLED`. Every invariant of a passing run is proved.

## 6. Not modelled

* `uploadTaskRootDir` (always answers 501), and `rootDir`, which the gRPC server never
  fills in.
* The contents of builds, of solutions and of tests; logging; the wall time of the
  report, which nobody reads. What the shell makes of a content with a quote in it is
  reduced in `CreateFile` to the file being right or not.
* userver's challenges: `POST /admin/challenge` is a stub, so that their tables stay
  empty; the lists of tasks, which are one query each.
* The `main` functions and the reading of configs. Every instance of a testing processor
  calls `InitGoogleLogging` (`broker_client.cpp:52`), and glog aborts a process that calls
  it twice; that is the library's behaviour, the config starts one instance, and
  `SubmissionFlow` takes an instance for a process.
* `utils/lru_cache.h`: its uses are commented out, no compiled code runs it.
* The time of processes the solution has started. `wait4` adds what those used that were
  waited for, which counts as the solution's own here; what the others used is not in the
  report, and `RLIMIT_CPU` counts each process by itself.
* A call of the HTTP server's shared `mongocxx::client` that, by the race between its workers,
  seems to succeed and did something else.

## 7. Plan

Order of work: batching, storage, `Process`, delivery, executor, builds, composition,
accounts, then the proofs of each module's safety properties, of the two refinements (of
`KeepsPromise` its safety part) and of the composition. All of it is done. What could be added
is a composition of `DTS` with `SubmissionFlow` and `Executor`, which now meet only in `TestingReport`
and `ProcessSpec`.

## 8. Running

    tlc -workers 2 -config MCTabascoStorage.cfg MCTabascoStorage
    tlapm TabascoStorageProofs.tla
    tlapm DTSProofs.tla

The largest runs have about 1.2 million distinct states; `build_flow` takes about a minute
and a half on two cores, the others, among them `dts`, which checks liveness on 0.3
million, a minute or less. `TabascoStorageProofs` takes tlapm about five minutes, the other
proofs less.
