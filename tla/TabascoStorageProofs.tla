------------------------ MODULE TabascoStorageProofs ------------------------
(***************************************************************************)
(* Proofs about TabascoStorage, for any number of workers, submissions,    *)
(* tasks and uploads, whatever fails in between.  First what is kept: the  *)
(* tests a task's metadata refers to are stored, and once each when        *)
(* uploads do not overlap.  Then what the readers get: no blank test, the  *)
(* announced batches, the last accepted upload, and nothing older than it. *)
(***************************************************************************)
EXTENDS TabascoStorage, TLAPS

(* Both documents of every test of an upload exist. *)
Stored(u) == \A id \in 1..TestsOf(u), type \in TestTypes :
                testDocs[Key(uploads[u].task, id, type)] # <<>>

(* A worker has stored the tests before the one it is at, and all of them *)
(* when it comes to the metadata. *)
WorkerInv(w) ==
    /\ http[w].pc \in {"tests", "insert"} =>
          \A k \in 1..(http[w].step - 1) : testDocs[KeyAt(http[w].up, k)] # <<>>
    /\ http[w].pc = "meta" => Stored(http[w].up)

(* Metadata in the database is that of an upload whose tests are stored. *)
TaskInv(t) ==
    taskMeta[t].up # 0 =>
        /\ taskMeta[t].up \in 1..Len(uploads)
        /\ uploads[taskMeta[t].up].task = t
        /\ taskMeta[t].batches = SplitIntoBatches(uploads[taskMeta[t].up].req, BatchSize)
        /\ Stored(taskMeta[t].up)

StorageInv ==
    /\ TypeOK
    /\ \A w \in Workers : WorkerInv(w)
    /\ \A t \in Tasks : TaskInv(t)

Upload == [task : Tasks, req : Requests, solo : BOOLEAN, status : {"running", "200", "400", "lost"}]

----------------------------------------------------------------------------
(***************************************************************************)
(* What every step keeps: a stored document stays, and a recorded upload   *)
(* keeps its task and its tests.                                           *)
(***************************************************************************)
DocsKept == \A key \in Keys : testDocs[key] # <<>> => testDocs'[key] # <<>>

UploadsKept ==
    /\ uploads' \in Seq(Upload)
    /\ Len(uploads') >= Len(uploads)
    /\ \A u \in 1..Len(uploads) :
          uploads'[u].task = uploads[u].task /\ uploads'[u].req = uploads[u].req

LEMMA UploadFacts ==
    ASSUME TypeOK, NEW u \in 1..Len(uploads)
    PROVE  /\ uploads[u].task \in Tasks /\ uploads[u].req \in Requests
           /\ TestsOf(u) \in Nat /\ TestsOf(u) <= MaxTests
<1>1. uploads \in Seq(Upload)
  BY DEF TypeOK, Upload
<1>2. uploads[u] \in Upload
  BY <1>1
<1>3. uploads[u].task \in Tasks /\ uploads[u].req \in Requests
  BY <1>2 DEF Upload
<1>4. uploads[u].req \in Seq(Nat) /\ Len(uploads[u].req) <= MaxTests
  BY <1>3, RequestsAssumption
<1> QED
  BY <1>3, <1>4 DEF TestsOf

LEMMA KeyAtInKeys ==
    ASSUME TypeOK, NEW u \in 1..Len(uploads), NEW k \in 1..(2 * TestsOf(u))
    PROVE  KeyAt(u, k) \in Keys
<1>1. uploads[u].task \in Tasks /\ TestsOf(u) \in Nat /\ TestsOf(u) <= MaxTests
  BY UploadFacts
<1>2. CASE k <= TestsOf(u)
  BY <1>1, <1>2, BoundsAssumption DEF KeyAt, Key, Keys, TestIds, TestTypes
<1>3. CASE ~(k <= TestsOf(u))
  <2>1. k - TestsOf(u) \in 1..MaxTests
    BY <1>1, <1>3, BoundsAssumption
  <2> QED
    BY <1>1, <1>3, <2>1 DEF KeyAt, Key, Keys, TestIds, TestTypes
<1> QED
  BY <1>2, <1>3

LEMMA StoredKeys ==
    ASSUME TypeOK, NEW u \in 1..Len(uploads), NEW id \in 1..TestsOf(u), NEW type \in TestTypes
    PROVE  Key(uploads[u].task, id, type) \in Keys
<1>1. uploads[u].task \in Tasks /\ TestsOf(u) \in Nat /\ TestsOf(u) <= MaxTests
  BY UploadFacts
<1> QED
  BY <1>1, BoundsAssumption DEF Key, Keys, TestIds

(* After the last step of UpsertTaskTests every test has its documents. *)
LEMMA LastStepStores ==
    ASSUME TypeOK, NEW u \in 1..Len(uploads), NEW docs,
           \A k \in 1..(2 * TestsOf(u)) : docs[KeyAt(u, k)] # <<>>
    PROVE  \A id \in 1..TestsOf(u), type \in TestTypes :
              docs[Key(uploads[u].task, id, type)] # <<>>
<1> SUFFICES ASSUME NEW id \in 1..TestsOf(u), NEW type \in TestTypes
             PROVE  docs[Key(uploads[u].task, id, type)] # <<>>
  OBVIOUS
<1>1. TestsOf(u) \in Nat
  BY UploadFacts
<1>2. CASE type = "input"
  <2>1. id \in 1..(2 * TestsOf(u)) /\ KeyAt(u, id) = Key(uploads[u].task, id, "input")
    BY <1>1 DEF KeyAt
  <2> QED
    BY <1>2, <2>1
<1>3. CASE type = "output"
  <2>1. /\ id + TestsOf(u) \in 1..(2 * TestsOf(u))
        /\ KeyAt(u, id + TestsOf(u)) = Key(uploads[u].task, id, "output")
    BY <1>1 DEF KeyAt
  <2> QED
    BY <1>3, <2>1
<1> QED
  BY <1>2, <1>3 DEF TestTypes

----------------------------------------------------------------------------
(* What a step that keeps documents and uploads keeps with them. *)
LEMMA StoredKept ==
    ASSUME TypeOK, DocsKept, UploadsKept, NEW u \in 1..Len(uploads)
    PROVE  /\ u \in 1..Len(uploads') /\ TestsOf(u)' = TestsOf(u)
           /\ \A k \in 1..(2 * TestsOf(u)) : KeyAt(u, k)' = KeyAt(u, k)
           /\ Stored(u) => Stored(u)'
<1>1. /\ uploads'[u].task = uploads[u].task /\ uploads'[u].req = uploads[u].req
      /\ u \in 1..Len(uploads')
  <2>1. Len(uploads) \in Nat /\ Len(uploads') \in Nat
    BY DEF TypeOK, UploadsKept
  <2> QED
    BY <2>1 DEF UploadsKept
<1>2. TestsOf(u)' = TestsOf(u)
  BY <1>1 DEF TestsOf
<1>3. \A k \in 1..(2 * TestsOf(u)) : KeyAt(u, k)' = KeyAt(u, k)
  BY <1>1, <1>2 DEF KeyAt
<1>4. ASSUME Stored(u) PROVE Stored(u)'
  BY <1>1, <1>2, <1>4, StoredKeys DEF Stored, DocsKept
<1> QED
  BY <1>1, <1>2, <1>3, <1>4

LEMMA WorkerKept ==
    ASSUME TypeOK, DocsKept, UploadsKept, NEW w \in Workers, WorkerInv(w), http'[w] = http[w]
    PROVE  WorkerInv(w)'
<1>1. CASE http[w].pc = "idle"
  BY <1>1 DEF WorkerInv
<1>2. CASE http[w].pc # "idle"
  <2> DEFINE u == http[w].up
  <2>1. u \in 1..Len(uploads) /\ (http[w].pc # "meta" => http[w].step \in 1..(2 * TestsOf(u)))
    BY <1>2 DEF TypeOK
  <2>2. TestsOf(u) \in Nat
    BY <2>1, UploadFacts
  <2>3. \A k \in 1..(2 * TestsOf(u)) : KeyAt(u, k)' = KeyAt(u, k) /\ KeyAt(u, k) \in Keys
    BY <2>1, StoredKept, KeyAtInKeys
  <2> QED
    BY <2>1, <2>2, <2>3, StoredKept DEF WorkerInv, DocsKept
<1> QED
  BY <1>1, <1>2

LEMMA TaskKept ==
    ASSUME TypeOK, DocsKept, UploadsKept, NEW t \in Tasks, TaskInv(t), taskMeta'[t] = taskMeta[t]
    PROVE  TaskInv(t)'
  BY StoredKept DEF TaskInv, UploadsKept

(***************************************************************************)
(* A step of worker w that keeps documents and uploads keeps the invariant *)
(* if what it does to w's own record and to taskMeta is right.             *)
(***************************************************************************)
Worker == [pc : {"idle", "tests", "insert", "meta"}, up : 0..MaxUploads, step : Nat]

WorkerBounds(w) ==
    http[w].pc # "idle" =>
        /\ http[w].up \in 1..Len(uploads)
        /\ http[w].pc # "meta" => http[w].step \in 1..(2 * TestsOf(http[w].up))

LEMMA BoundsKept ==
    ASSUME TypeOK, DocsKept, UploadsKept, NEW w \in Workers, http'[w] = http[w]
    PROVE  WorkerBounds(w)'
<1>1. CASE http[w].pc = "idle"
  BY <1>1 DEF WorkerBounds
<1>2. CASE http[w].pc # "idle"
  <2>1. http[w].up \in 1..Len(uploads)
        /\ (http[w].pc # "meta" => http[w].step \in 1..(2 * TestsOf(http[w].up)))
    BY <1>2 DEF TypeOK
  <2> QED
    BY <2>1, StoredKept DEF WorkerBounds
<1> QED
  BY <1>1, <1>2

LEMMA WorkerStep ==
    ASSUME StorageInv, NEW w \in Workers, DocsKept, UploadsKept, Len(uploads') <= MaxUploads,
           testDocs' \in [Keys -> Seq(1..MaxUploads)],
           NEW rec \in Worker, http' = [http EXCEPT ![w] = rec],
           UNCHANGED builds, UNCHANGED taskMeta,
           WorkerBounds(w)', WorkerInv(w)'
    PROVE  StorageInv'
<1>1. TypeOK /\ http \in [Workers -> Worker]
  BY DEF StorageInv, TypeOK, Worker
<1>2. http' \in [Workers -> Worker] /\ \A x \in Workers : x # w => http'[x] = http[x]
  BY <1>1
<1>3. \A x \in Workers : WorkerBounds(x)'
  BY <1>1, <1>2, BoundsKept
<1>4. \A x \in Workers : WorkerInv(x)'
  BY <1>1, <1>2, WorkerKept DEF StorageInv
<1>5. \A t \in Tasks : TaskInv(t)'
  BY <1>1, TaskKept DEF StorageInv
<1>6. TypeOK'
  <2>1. uploads' \in Seq(Upload)
    BY DEF UploadsKept
  <2> QED
    BY <1>1, <1>2, <1>3, <2>1 DEF TypeOK, WorkerBounds, Worker, Upload
<1> QED
  BY <1>4, <1>5, <1>6 DEF StorageInv

(* Changing the status of an upload keeps its task and its tests. *)
LEMMA FinishKeeps ==
    ASSUME TypeOK, NEW w \in Workers, http[w].pc # "idle",
           NEW st \in {"running", "200", "400", "lost"}, Finish(w, st)
    PROVE  UploadsKept /\ Len(uploads') = Len(uploads) /\ http' = [http EXCEPT ![w] = Idle]
<1> DEFINE u == http[w].up
           e == [uploads[u] EXCEPT !.status = st]
<1>1. u \in 1..Len(uploads) /\ uploads \in Seq(Upload) /\ uploads[u] \in Upload
  <2>1. u \in 1..Len(uploads) /\ uploads \in Seq(Upload)
    BY DEF TypeOK, Upload
  <2> QED
    BY <2>1
<1>2. uploads' = [uploads EXCEPT ![u] = e]
  BY DEF Finish
<1>3. e \in Upload /\ e.task = uploads[u].task /\ e.req = uploads[u].req
  BY <1>1 DEF Upload
<1> HIDE DEF e, u
<1>4. /\ uploads' \in Seq(Upload) /\ Len(uploads') = Len(uploads)
      /\ \A v \in 1..Len(uploads) : uploads'[v] = IF v = u THEN e ELSE uploads[v]
  BY <1>1, <1>2, <1>3
<1> QED
  BY <1>1, <1>3, <1>4 DEF UploadsKept, Finish

LEMMA FinishStep ==
    ASSUME StorageInv, NEW w \in Workers, http[w].pc # "idle", DocsKept,
           testDocs' \in [Keys -> Seq(1..MaxUploads)],
           NEW st \in {"running", "200", "400", "lost"}, Finish(w, st),
           UNCHANGED builds, UNCHANGED taskMeta
    PROVE  StorageInv'
<1>1. TypeOK /\ Len(uploads) <= MaxUploads /\ http \in [Workers -> Worker]
  BY DEF StorageInv, TypeOK, Worker
<1>2. UploadsKept /\ Len(uploads') = Len(uploads) /\ http' = [http EXCEPT ![w] = Idle]
  BY <1>1, FinishKeeps
<1>3. Idle \in Worker
  BY BoundsAssumption DEF Idle, Worker
<1>4. http'[w].pc = "idle"
  BY <1>1, <1>2 DEF Idle
<1>5. WorkerBounds(w)' /\ WorkerInv(w)'
  BY <1>4 DEF WorkerBounds, WorkerInv
<1> QED
  BY <1>1, <1>2, <1>3, <1>5, WorkerStep

----------------------------------------------------------------------------
(* One lemma per action. *)
LEMMA InitStorage == Init => StorageInv
<1> SUFFICES ASSUME Init PROVE StorageInv
  OBVIOUS
<1>1. \A w \in Workers : http[w] = Idle
  BY DEF Init
<1>2. \A w \in Workers : WorkerInv(w)
  BY <1>1 DEF WorkerInv, Idle
<1>3. \A t \in Tasks : TaskInv(t)
  BY DEF TaskInv, Init
<1>4. testDocs \in [Keys -> Seq(1..MaxUploads)]
  BY DEF Init
<1>5. taskMeta \in [Tasks -> [up : 0..MaxUploads,
                             batches : {SplitIntoBatches(r, BatchSize) : r \in Requests} \cup {<<>>}]]
  BY BoundsAssumption DEF Init
<1>6. uploads \in Seq(Upload) /\ Len(uploads) <= MaxUploads /\ builds \subseteq BuildIds
  BY BoundsAssumption DEF Init
<1>7. http \in [Workers -> Worker]
  BY BoundsAssumption DEF Init, Idle, Worker
<1>8. TypeOK
  BY <1>1, <1>4, <1>5, <1>6, <1>7 DEF TypeOK, Idle, Worker, Upload
<1> QED
  BY <1>2, <1>3, <1>8 DEF StorageInv

(* The key a worker is at, and what writing to it keeps. *)
LEMMA CurrentKeyFacts ==
    ASSUME TypeOK, NEW w \in Workers, http[w].pc \in {"tests", "insert"}
    PROVE  /\ http[w].up \in 1..Len(uploads) /\ http[w].up \in 1..MaxUploads
           /\ TestsOf(http[w].up) \in Nat
           /\ http[w].step \in 1..(2 * TestsOf(http[w].up))
           /\ CurrentKey(w) \in Keys
<1>1. http[w].up \in 1..Len(uploads) /\ http[w].step \in 1..(2 * TestsOf(http[w].up))
  BY DEF TypeOK
<1>2. Len(uploads) \in Nat /\ Len(uploads) <= MaxUploads
  BY DEF TypeOK
<1>3. TestsOf(http[w].up) \in Nat
  BY <1>1, UploadFacts
<1>4. KeyAt(http[w].up, http[w].step) \in Keys
  BY <1>1, KeyAtInKeys
<1> QED
  BY <1>1, <1>2, <1>3, <1>4, BoundsAssumption DEF CurrentKey

(* A document of the current key was written: on to the next update. *)
LEMMA NextUpdateStep ==
    ASSUME StorageInv, NEW w \in Workers, http[w].pc \in {"tests", "insert"}, DocsKept,
           testDocs' \in [Keys -> Seq(1..MaxUploads)], testDocs'[CurrentKey(w)] # <<>>,
           NextUpdate(w), UNCHANGED builds, UNCHANGED taskMeta
    PROVE  StorageInv'
<1>1. TypeOK /\ Len(uploads) <= MaxUploads /\ http \in [Workers -> Worker] /\ uploads \in Seq(Upload)
  BY DEF StorageInv, TypeOK, Worker, Upload
<1> PICK u, n, k : u = http[w].up /\ n = TestsOf(http[w].up) /\ k = http[w].step
  OBVIOUS
<1>2. /\ u \in 1..Len(uploads) /\ n = TestsOf(u) /\ n \in Nat /\ k \in 1..(2 * n)
      /\ CurrentKey(w) = KeyAt(u, k) /\ u \in 1..MaxUploads
  BY <1>1, CurrentKeyFacts DEF CurrentKey
<1> DEFINE rec == [pc |-> IF k = 2 * n THEN "meta" ELSE "tests", up |-> u, step |-> k + 1]
<1>3. http[w] \in Worker
  BY <1>1
<1>4. rec \in Worker /\ rec.up = u /\ rec.step = k + 1
      /\ rec.pc = IF k = 2 * n THEN "meta" ELSE "tests"
  BY <1>2 DEF Worker
<1>5. http' = [http EXCEPT ![w] = rec] /\ uploads' = uploads
  BY Zenon DEF NextUpdate
<1>6. UploadsKept
  BY <1>1, <1>5 DEF UploadsKept
<1>7. TestsOf(u)' = n /\ u \in 1..Len(uploads')
      /\ \A j \in 1..(2 * n) : KeyAt(u, j)' = KeyAt(u, j) /\ KeyAt(u, j) \in Keys
  BY <1>1, <1>2, <1>6, StoredKept, KeyAtInKeys
<1>8. \A j \in 1..(k - 1) : testDocs[KeyAt(u, j)] # <<>>
  BY DEF StorageInv, WorkerInv
<1>9. \A j \in 1..k : testDocs'[KeyAt(u, j)] # <<>>
  <2> SUFFICES ASSUME NEW j \in 1..k PROVE testDocs'[KeyAt(u, j)] # <<>>
    OBVIOUS
  <2>1. CASE j = k
    BY <1>2, <2>1
  <2>2. CASE j \in 1..(k - 1)
    BY <1>2, <1>7, <1>8, <2>2 DEF DocsKept
  <2> QED
    BY <1>2, <2>1, <2>2
<1> HIDE DEF rec
<1>10. http'[w] = rec
  BY <1>1, <1>5
<1>11. WorkerBounds(w)'
  <2>1. Len(uploads'[u].req) = n /\ u \in 1..Len(uploads')
    BY <1>7 DEF TestsOf
  <2>2. k # 2 * n => k + 1 \in 1..(2 * n)
    BY <1>2
  <2> QED
    BY <1>2, <1>4, <1>10, <2>1, <2>2 DEF WorkerBounds, TestsOf
<1>12. WorkerInv(w)'
  <2>1. CASE k = 2 * n
    <3>1. \A id \in 1..TestsOf(u), type \in TestTypes :
             testDocs'[Key(uploads[u].task, id, type)] # <<>>
      BY <1>1, <1>2, <1>9, <2>1, LastStepStores
    <3>2. Stored(u)'
      BY <1>5, <3>1 DEF Stored, TestsOf
    <3> QED
      BY <1>4, <1>10, <2>1, <3>2 DEF WorkerInv
  <2>2. CASE k # 2 * n
    <3>1. (k + 1) - 1 = k /\ \A j \in 1..k : KeyAt(u, j)' = KeyAt(u, j)
      BY <1>2, <1>7
    <3>2. \A j \in 1..((k + 1) - 1) : testDocs'[KeyAt(u, j)'] # <<>>
      BY <1>9, <3>1
    <3> QED
      BY <1>4, <1>10, <2>2, <3>2 DEF WorkerInv
  <2> QED
    BY <2>1, <2>2
<1> QED
  BY <1>1, <1>4, <1>5, <1>6, <1>11, <1>12, WorkerStep

(* What a worker's write does with the documents. *)
LEMMA WriteStep ==
    ASSUME StorageInv, NEW w \in Workers, http[w].pc \in {"tests", "insert"},
           NEW docs \in Seq(1..MaxUploads), docs # <<>>,
           testDocs' = [testDocs EXCEPT ![CurrentKey(w)] = docs],
           NextUpdate(w) \/ Finish(w, "400"), UNCHANGED builds, UNCHANGED taskMeta
    PROVE  StorageInv'
<1>1. TypeOK /\ testDocs \in [Keys -> Seq(1..MaxUploads)]
  BY DEF StorageInv, TypeOK
<1>2. CurrentKey(w) \in Keys
  BY <1>1, CurrentKeyFacts
<1>3. /\ testDocs' \in [Keys -> Seq(1..MaxUploads)]
      /\ testDocs'[CurrentKey(w)] = docs
      /\ \A key \in Keys : key # CurrentKey(w) => testDocs'[key] = testDocs[key]
  BY <1>1, <1>2
<1>4. DocsKept
  BY <1>3 DEF DocsKept
<1>5. CASE NextUpdate(w)
  BY <1>3, <1>4, <1>5, NextUpdateStep
<1>6. CASE Finish(w, "400")
  BY <1>3, <1>4, <1>6, FinishStep
<1> QED
  BY <1>5, <1>6

LEMMA UpdateTestKeeps ==
    ASSUME StorageInv, NEW w \in Workers, UpdateTest(w)
    PROVE  StorageInv'
<1>1. TypeOK /\ testDocs \in [Keys -> Seq(1..MaxUploads)] /\ http[w].pc \in {"tests", "insert"}
  BY DEF StorageInv, TypeOK, UpdateTest
<1>2. CurrentKey(w) \in Keys /\ http[w].up \in 1..MaxUploads
  BY <1>1, CurrentKeyFacts
<1>3. PICK k \in DOMAIN testDocs[CurrentKey(w)] :
         testDocs' = [testDocs EXCEPT ![CurrentKey(w)] = [testDocs[CurrentKey(w)] EXCEPT ![k] = http[w].up]]
  BY DEF UpdateTest
<1> DEFINE old == testDocs[CurrentKey(w)]
           docs == [old EXCEPT ![k] = http[w].up]
<1>4. old \in Seq(1..MaxUploads) /\ k \in 1..Len(old)
  <2>1. old \in Seq(1..MaxUploads)
    BY <1>1, <1>2
  <2> QED
    BY <1>3, <2>1
<1>5. docs \in Seq(1..MaxUploads) /\ docs # <<>>
  <2> HIDE DEF old
  <2>1. docs \in Seq(1..MaxUploads) /\ Len(docs) = Len(old) /\ Len(old) \in Nat
    BY <1>2, <1>4
  <2> QED
    BY <1>4, <2>1
<1> QED
  BY <1>1, <1>3, <1>5, WriteStep DEF UpdateTest

LEMMA InsertTestKeeps ==
    ASSUME StorageInv, NEW w \in Workers, InsertTest(w)
    PROVE  StorageInv'
<1>1. TypeOK /\ testDocs \in [Keys -> Seq(1..MaxUploads)] /\ http[w].pc \in {"tests", "insert"}
  BY DEF StorageInv, TypeOK, InsertTest
<1>2. CurrentKey(w) \in Keys /\ http[w].up \in 1..MaxUploads
  BY <1>1, CurrentKeyFacts
<1> DEFINE old == testDocs[CurrentKey(w)]
           docs == Append(old, http[w].up)
<1>3. old \in Seq(1..MaxUploads)
  BY <1>1, <1>2
<1>4. docs \in Seq(1..MaxUploads) /\ docs # <<>>
  <2> HIDE DEF old
  <2>1. docs \in Seq(1..MaxUploads) /\ Len(docs) = Len(old) + 1 /\ Len(old) \in Nat
    BY <1>2, <1>3
  <2> QED
    BY <2>1
<1>5. testDocs' = [testDocs EXCEPT ![CurrentKey(w)] = docs]
  BY DEF InsertTest
<1> QED
  BY <1>1, <1>4, <1>5, WriteStep DEF InsertTest

LEMMA NoTestMatchesKeeps ==
    ASSUME StorageInv, NEW w \in Workers, NoTestMatches(w)
    PROVE  StorageInv'
<1>1. TypeOK /\ http \in [Workers -> Worker] /\ uploads \in Seq(Upload) /\ Len(uploads) <= MaxUploads
      /\ testDocs \in [Keys -> Seq(1..MaxUploads)]
  BY DEF StorageInv, TypeOK, Worker, Upload
<1>2. http[w] \in Worker /\ http[w].pc = "tests"
  BY <1>1 DEF NoTestMatches
<1> DEFINE rec == [http[w] EXCEPT !.pc = "insert"]
<1>3. /\ rec \in Worker /\ rec.pc = "insert" /\ rec.up = http[w].up /\ rec.step = http[w].step
  BY <1>2 DEF Worker
<1>4. /\ http' = [http EXCEPT ![w] = rec]
      /\ uploads' = uploads /\ testDocs' = testDocs /\ builds' = builds /\ taskMeta' = taskMeta
  BY DEF NoTestMatches
<1> HIDE DEF rec
<1>5. http'[w] = rec
  BY <1>1, <1>4
<1>6. UploadsKept /\ DocsKept /\ Len(uploads') <= MaxUploads
      /\ testDocs' \in [Keys -> Seq(1..MaxUploads)]
  BY <1>1, <1>4 DEF UploadsKept, DocsKept
<1>7. WorkerBounds(w)'
  <2>1. http[w].up \in 1..Len(uploads) /\ http[w].step \in 1..(2 * TestsOf(http[w].up))
    BY <1>1, <1>2 DEF TypeOK
  <2> QED
    BY <1>3, <1>4, <1>5, <2>1 DEF WorkerBounds, TestsOf
<1>8. WorkerInv(w)'
  <2>1. \A k \in 1..(http[w].step - 1) : testDocs[KeyAt(http[w].up, k)] # <<>>
    BY <1>2 DEF StorageInv, WorkerInv
  <2> QED
    BY <1>3, <1>4, <1>5, <2>1 DEF WorkerInv, KeyAt, TestsOf
<1> QED
  BY <1>3, <1>4, <1>6, <1>7, <1>8, WorkerStep

LEMMA StorageErrorKeeps ==
    ASSUME StorageInv, NEW w \in Workers, StorageError(w)
    PROVE  StorageInv'
<1>1. testDocs' \in [Keys -> Seq(1..MaxUploads)] /\ DocsKept
  BY DEF StorageInv, TypeOK, StorageError, DocsKept
<1> QED
  BY <1>1, FinishStep DEF StorageError

LEMMA BeginUploadKeeps ==
    ASSUME StorageInv, NEW w \in Workers, BeginUpload(w)
    PROVE  StorageInv'
<1>1. TypeOK /\ http \in [Workers -> Worker] /\ uploads \in Seq(Upload) /\ Len(uploads) < MaxUploads
      /\ testDocs \in [Keys -> Seq(1..MaxUploads)] /\ Len(uploads) \in Nat
  BY DEF StorageInv, TypeOK, Worker, Upload, BeginUpload
<1>2. PICK t \in Tasks, r \in Requests :
         /\ uploads' = Append([u \in DOMAIN uploads |->
                                 IF u \in Running(t) THEN [uploads[u] EXCEPT !.solo = FALSE]
                                                     ELSE uploads[u]],
                              [task |-> t, req |-> r, status |-> "running",
                               solo |-> Running(t) = {}])
         /\ http' = [http EXCEPT ![w] = [pc |-> IF Len(r) = 0 THEN "meta" ELSE "tests",
                                         up |-> Len(uploads) + 1, step |-> 1]]
  BY DEF BeginUpload
<1> DEFINE f == [u \in DOMAIN uploads |->
                   IF u \in Running(t) THEN [uploads[u] EXCEPT !.solo = FALSE] ELSE uploads[u]]
           e == [task |-> t, req |-> r, status |-> "running", solo |-> Running(t) = {}]
           rec == [pc |-> IF Len(r) = 0 THEN "meta" ELSE "tests", up |-> Len(uploads) + 1, step |-> 1]
           last == Len(uploads) + 1
<1>3. e \in Upload /\ e.req = r /\ e.task = t
  BY DEF Upload
<1>4. \A u \in 1..Len(uploads) : uploads[u] \in Upload
  BY <1>1
<1>5. f \in Seq(Upload) /\ Len(f) = Len(uploads)
      /\ \A u \in 1..Len(uploads) : f[u].task = uploads[u].task /\ f[u].req = uploads[u].req
  <2>1. DOMAIN uploads = 1..Len(uploads)
    BY <1>1
  <2>2. \A u \in 1..Len(uploads) : /\ f[u] \in Upload
                                   /\ f[u].task = uploads[u].task /\ f[u].req = uploads[u].req
    BY <1>4, <2>1 DEF Upload
  <2>3. f \in [1..Len(uploads) -> Upload]
    BY <2>1, <2>2
  <2> HIDE DEF f
  <2> QED
    BY <1>1, <2>2, <2>3
<1>6. uploads' = Append(f, e) /\ http' = [http EXCEPT ![w] = rec]
  BY <1>2
<1>7. rec \in Worker /\ rec.pc = (IF Len(r) = 0 THEN "meta" ELSE "tests")
      /\ rec.up = last /\ rec.step = 1
  BY <1>1, BoundsAssumption DEF Worker
<1>8. r \in Seq(Nat) /\ Len(r) \in Nat
  <2>1. r \in Seq(Nat)
    BY RequestsAssumption
  <2> QED
    BY <2>1
<1> HIDE DEF f, e, rec
<1>9. /\ uploads' \in Seq(Upload) /\ Len(uploads') = last /\ uploads'[last] = e
      /\ \A u \in 1..Len(uploads) : uploads'[u] = f[u]
  BY <1>1, <1>3, <1>5, <1>6
<1>10. UploadsKept /\ Len(uploads') <= MaxUploads
  <2>1. Len(uploads') >= Len(uploads) /\ Len(uploads') <= MaxUploads
    BY <1>1, <1>9, BoundsAssumption
  <2>2. \A u \in 1..Len(uploads) :
          uploads'[u].task = uploads[u].task /\ uploads'[u].req = uploads[u].req
    BY <1>5, <1>9
  <2>3. uploads' \in Seq(Upload)
    BY <1>9
  <2> QED
    BY <2>1, <2>2, <2>3 DEF UploadsKept
<1>11. /\ testDocs' = testDocs /\ DocsKept /\ testDocs' \in [Keys -> Seq(1..MaxUploads)]
       /\ builds' = builds /\ taskMeta' = taskMeta
  BY <1>1 DEF BeginUpload, DocsKept
<1>12. http'[w] = rec
  BY <1>1, <1>6
<1>13. WorkerBounds(w)'
  <2>1. Len(uploads'[last].req) = Len(r) /\ last \in 1..Len(uploads')
    BY <1>1, <1>3, <1>9
  <2>2. Len(r) # 0 => 1 \in 1..(2 * Len(r))
    BY <1>8
  <2> QED
    BY <1>7, <1>12, <2>1, <2>2 DEF WorkerBounds, TestsOf
<1>14. WorkerInv(w)'
  <2>1. CASE Len(r) = 0
    <3>1. Len(uploads'[last].req) = 0
      BY <1>3, <1>9, <2>1
    <3> QED
      BY <1>7, <1>12, <2>1, <3>1 DEF WorkerInv, Stored, TestsOf
  <2>2. CASE Len(r) # 0
    BY <1>7, <1>12, <2>2 DEF WorkerInv
  <2> QED
    BY <2>1, <2>2
<1> QED
  BY <1>6, <1>7, <1>10, <1>11, <1>13, <1>14, WorkerStep

LEMMA UpsertTaskMetaDataKeeps ==
    ASSUME StorageInv, NEW w \in Workers, UpsertTaskMetaData(w)
    PROVE  StorageInv'
<1>1. TypeOK /\ http \in [Workers -> Worker] /\ Len(uploads) <= MaxUploads /\ Len(uploads) \in Nat
      /\ testDocs \in [Keys -> Seq(1..MaxUploads)] /\ http[w].pc = "meta"
  BY DEF StorageInv, TypeOK, Worker, UpsertTaskMetaData
<1>2. PICK st \in {"200", "400"} : Finish(w, st)
  BY DEF UpsertTaskMetaData
<1>3. UploadsKept /\ Len(uploads') = Len(uploads) /\ http' = [http EXCEPT ![w] = Idle]
  BY <1>1, <1>2, FinishKeeps
<1>4. testDocs' = testDocs /\ builds' = builds /\ DocsKept
  BY DEF UpsertTaskMetaData, DocsKept
<1> PICK u, t, bs : /\ u = http[w].up /\ t = uploads[http[w].up].task
                    /\ bs = SplitIntoBatches(uploads[http[w].up].req, BatchSize)
  OBVIOUS
<1>5. u \in 1..Len(uploads)
  BY <1>1 DEF TypeOK
<1>6. /\ t = uploads[u].task /\ t \in Tasks /\ uploads[u].req \in Requests
      /\ bs = SplitIntoBatches(uploads[u].req, BatchSize) /\ Stored(u)
  BY <1>1, <1>5, UploadFacts DEF StorageInv, WorkerInv
<1>7. taskMeta' = [taskMeta EXCEPT ![t] = [up |-> u, batches |-> bs]]
  BY DEF UpsertTaskMetaData
<1> DEFINE Meta == [up : 0..MaxUploads,
                    batches : {SplitIntoBatches(r, BatchSize) : r \in Requests} \cup {<<>>}]
           m == [up |-> u, batches |-> bs]
<1>8. taskMeta \in [Tasks -> Meta] /\ m \in Meta /\ m.up = u /\ m.batches = bs
  BY <1>1, <1>5, <1>6, BoundsAssumption DEF TypeOK
<1> HIDE DEF Meta, m
<1>9. /\ taskMeta' \in [Tasks -> Meta] /\ taskMeta'[t] = m
      /\ \A x \in Tasks : x # t => taskMeta'[x] = taskMeta[x]
  BY <1>6, <1>7, <1>8 DEF m
<1>10. \A x \in Tasks : TaskInv(x)'
  <2> SUFFICES ASSUME NEW x \in Tasks PROVE TaskInv(x)'
    OBVIOUS
  <2>1. CASE x # t
    BY <1>1, <1>3, <1>4, <1>9, <2>1, TaskKept DEF StorageInv
  <2>2. CASE x = t
    <3>1. /\ uploads'[u].task = uploads[u].task /\ uploads'[u].req = uploads[u].req
          /\ u \in 1..Len(uploads') /\ Stored(u)'
      BY <1>1, <1>3, <1>4, <1>5, <1>6, StoredKept DEF UploadsKept
    <3>2. taskMeta'[x].up = u /\ taskMeta'[x].batches = bs
      BY <1>8, <1>9, <2>2
    <3> QED
      BY <1>6, <2>2, <3>1, <3>2 DEF TaskInv, Stored, TestsOf
  <2> QED
    BY <2>1, <2>2
<1>11. http'[w] = Idle /\ \A x \in Workers : x # w => http'[x] = http[x]
  BY <1>1, <1>3
<1>12. Idle \in Worker /\ Idle.pc = "idle"
  BY BoundsAssumption DEF Idle, Worker
<1>13. \A x \in Workers : WorkerInv(x)' /\ WorkerBounds(x)'
  <2> SUFFICES ASSUME NEW x \in Workers PROVE WorkerInv(x)' /\ WorkerBounds(x)'
    OBVIOUS
  <2>1. CASE x = w
    BY <1>11, <1>12, <2>1 DEF WorkerInv, WorkerBounds
  <2>2. CASE x # w
    BY <1>1, <1>3, <1>4, <1>11, <2>2, WorkerKept, BoundsKept DEF StorageInv
  <2> QED
    BY <2>1, <2>2
<1>14. TypeOK'
  <2>1. http' \in [Workers -> Worker]
    BY <1>1, <1>3, <1>12
  <2>2. uploads' \in Seq(Upload) /\ Len(uploads') <= MaxUploads
    BY <1>1, <1>3 DEF UploadsKept
  <2>3. builds' \subseteq BuildIds /\ testDocs' \in [Keys -> Seq(1..MaxUploads)]
    BY <1>1, <1>4 DEF TypeOK
  <2> QED
    BY <1>9, <1>13, <2>1, <2>2, <2>3 DEF TypeOK, WorkerBounds, Worker, Upload, Meta
<1> QED
  BY <1>10, <1>13, <1>14 DEF StorageInv

LEMMA HttpCrashKeeps == ASSUME StorageInv, HttpCrash PROVE StorageInv'
<1>1. TypeOK /\ uploads \in Seq(Upload) /\ Len(uploads) <= MaxUploads /\ Len(uploads) \in Nat
  BY DEF StorageInv, TypeOK, Upload
<1> DEFINE f == [u \in DOMAIN uploads |->
                   IF uploads[u].status = "running" THEN [uploads[u] EXCEPT !.status = "lost"]
                                                    ELSE uploads[u]]
<1>2. \A u \in 1..Len(uploads) : uploads[u] \in Upload
  BY <1>1
<1>3. f \in Seq(Upload) /\ Len(f) = Len(uploads)
      /\ \A u \in 1..Len(uploads) : f[u].task = uploads[u].task /\ f[u].req = uploads[u].req
  <2>1. DOMAIN uploads = 1..Len(uploads)
    BY <1>1
  <2>2. \A u \in 1..Len(uploads) : /\ f[u] \in Upload
                                   /\ f[u].task = uploads[u].task /\ f[u].req = uploads[u].req
    BY <1>2, <2>1 DEF Upload
  <2>3. f \in [1..Len(uploads) -> Upload]
    BY <2>1, <2>2
  <2> HIDE DEF f
  <2> QED
    BY <1>1, <2>2, <2>3
<1>4. uploads' = f
  BY DEF HttpCrash
<1> HIDE DEF f
<1>5. UploadsKept /\ Len(uploads') <= MaxUploads
  BY <1>1, <1>3, <1>4 DEF UploadsKept
<1>6. testDocs' = testDocs /\ builds' = builds /\ taskMeta' = taskMeta /\ DocsKept
  BY DEF HttpCrash, DocsKept
<1>7. \A t \in Tasks : TaskInv(t)'
  BY <1>1, <1>5, <1>6, TaskKept DEF StorageInv
<1>8. \A w \in Workers : http'[w].pc = "idle"
  BY DEF HttpCrash, Idle
<1>9. http' \in [Workers -> Worker]
  BY BoundsAssumption DEF HttpCrash, Idle, Worker
<1>10. \A w \in Workers : WorkerInv(w)'
  BY <1>8 DEF WorkerInv
<1>11. TypeOK'
  <2>1. uploads' \in Seq(Upload)
    BY <1>5 DEF UploadsKept
  <2> QED
    BY <1>5, <1>6, <1>8, <1>9, <1>1, <2>1 DEF TypeOK, Worker, Upload
<1> QED
  BY <1>7, <1>10, <1>11 DEF StorageInv

(* The gRPC server, the build upload and a stuttering step leave alone what the invariant is about. *)
LEMMA ReadersKeep ==
    ASSUME StorageInv, UNCHANGED <<testDocs, taskMeta, uploads, http>>, builds' \subseteq BuildIds
    PROVE  StorageInv'
<1>1. TypeOK'
  BY DEF StorageInv, TypeOK, TestsOf
<1>2. \A w \in Workers : WorkerInv(w)'
  BY DEF StorageInv, WorkerInv, Stored, KeyAt, TestsOf
<1>3. \A t \in Tasks : TaskInv(t)'
  BY DEF StorageInv, TaskInv, Stored, TestsOf
<1> QED
  BY <1>1, <1>2, <1>3 DEF StorageInv

LEMMA NextKeeps == ASSUME StorageInv, [Next]_vars PROVE StorageInv'
<1>1. builds \subseteq BuildIds
  BY DEF StorageInv, TypeOK
<1>2. ASSUME NEW w \in Workers, HttpStep(w) PROVE StorageInv'
  BY <1>2, BeginUploadKeeps, UpdateTestKeeps, NoTestMatchesKeeps, InsertTestKeeps,
     UpsertTaskMetaDataKeeps, StorageErrorKeeps DEF HttpStep
<1>3. CASE HttpCrash
  BY <1>3, HttpCrashKeeps
<1>4. CASE UpsertBuild
  BY <1>1, <1>4, ReadersKeep DEF UpsertBuild
<1>5. ASSUME NEW s \in Sessions, GrpcStep(s) PROVE StorageInv'
  <2>1. UNCHANGED <<testDocs, taskMeta, uploads, http>> /\ builds' = builds
    BY <1>5 DEF GrpcStep, GetScripts, OpenBatch, OpenUndefinedBatch, ReadDoc, CloseBatch, CallFails
  <2> QED
    BY <1>1, <2>1, ReadersKeep
<1>6. CASE UNCHANGED vars
  BY <1>1, <1>6, ReadersKeep DEF vars
<1> QED
  BY <1>2, <1>3, <1>4, <1>5, <1>6 DEF Next

(***************************************************************************)
(* SplitIntoBatches is a function of its arguments: what is proved of it   *)
(* in UploadRequestProofs holds here, whatever the state of a handler.     *)
(***************************************************************************)
Splitter == INSTANCE UploadRequestProofs WITH
    Inputs <- Seq(Nat), Requests <- {}, req <- <<>>, status <- 0, size <- <<>>, batchSize <- 0,
    accumSize <- 0, batches <- <<>>, i <- 0, pc <- "done", total <- <<>>

LEMMA SplitFacts ==
    ASSUME NEW r \in Requests, NEW bs, bs = SplitIntoBatches(r, BatchSize)
    PROVE  /\ bs \in Seq(Seq(Nat)) /\ CoversInOrder(bs, Len(r))
           /\ \A b \in 1..Len(bs) : Len(r) > 0 => FrontId(bs[b]) \in 1..Len(r) /\ BackId(bs[b]) \in 1..Len(r)
<1>1. r \in Seq(Nat)
  BY RequestsAssumption
<1>2. bs = Splitter!SplitIntoBatches(r, BatchSize)
  BY Zenon DEF SplitIntoBatches, Splitter!SplitIntoBatches, PlacedTests, Splitter!PlacedTests,
     RaisedBatchSize, Splitter!RaisedBatchSize, Larger, Splitter!Larger, Accum, Splitter!Accum,
     PutTest, Splitter!PutTest, Fits, Splitter!Fits
<1>3. bs \in Seq(Seq(Nat)) /\ Splitter!InOrder(bs, Len(r))
  BY <1>1, <1>2, BatchSizeAssumption, Splitter!SplitIsInOrder
<1> QED
  BY <1>3 DEF Splitter!InOrder, Splitter!CoversInOrder, CoversInOrder, Splitter!IsRun, IsRun,
              Splitter!FrontId, FrontId, Splitter!BackId, BackId

(* What the metadata refers to is there. *)
LEMMA CoveredByInv == StorageInv => MetaCovered
<1> SUFFICES ASSUME StorageInv, NEW t \in Tasks, taskMeta[t].up # 0,
                    NEW b \in 1..Len(taskMeta[t].batches), Len(taskMeta[t].batches[b]) > 0,
                    NEW id \in FrontId(taskMeta[t].batches[b])..BackId(taskMeta[t].batches[b]),
                    NEW type \in TestTypes
             PROVE  testDocs[Key(t, id, type)] # <<>>
  BY DEF MetaCovered
<1> PICK u : u = taskMeta[t].up
  OBVIOUS
<1>1. /\ TypeOK /\ u \in 1..Len(uploads) /\ uploads[u].task = t /\ Stored(u)
      /\ taskMeta[t].batches = SplitIntoBatches(uploads[u].req, BatchSize)
  BY DEF StorageInv, TaskInv
<1> PICK r, bs : r = uploads[u].req /\ bs = SplitIntoBatches(uploads[u].req, BatchSize)
  OBVIOUS
<1>2. r \in Requests /\ Len(r) \in Nat /\ Len(r) = TestsOf(u)
  BY <1>1, UploadFacts DEF TestsOf
<1>3. CoversInOrder(bs, Len(r))
  BY <1>2, SplitFacts
<1>4. CASE Len(r) = 0
  <2>1. bs = << <<>> >>
    BY <1>3, <1>4 DEF CoversInOrder
  <2>2. b = 1 /\ bs[1] = <<>>
    BY <1>1, <2>1
  <2> QED
    BY <1>1, <2>2
<1>5. CASE Len(r) > 0
  <2>1. FrontId(bs[b]) \in 1..Len(r) /\ BackId(bs[b]) \in 1..Len(r)
    BY <1>1, <1>2, <1>5, SplitFacts
  <2>2. id \in 1..TestsOf(u)
    BY <1>1, <1>2, <2>1
  <2> QED
    BY <1>1, <2>2 DEF Stored
<1> QED
  BY <1>2, <1>4, <1>5

LEMMA StorageInvariant == Spec => []StorageInv
  BY InitStorage, NextKeeps, PTL DEF Spec

----------------------------------------------------------------------------
(***************************************************************************)
(* The database and the HTTP server keep their types, and the loops of     *)
(* UpsertTaskTests stay inside their vectors, for any number of workers,   *)
(* tasks and uploads.                                                      *)
(***************************************************************************)
THEOREM StorageTypes == Spec => []TypeOK
<1>1. StorageInv => TypeOK
  BY DEF StorageInv
<1> QED
  BY <1>1, StorageInvariant, PTL

(***************************************************************************)
(* GetTaskBatch finds both documents of every test of every batch it reads *)
(* from taskMeta: whatever uploads fail, crash or overlap, the metadata is *)
(* written only after the tests and no test is ever removed.               *)
(***************************************************************************)
THEOREM MetaIsCovered == Spec => []MetaCovered
  BY CoveredByInv, StorageInvariant, PTL

----------------------------------------------------------------------------
(***************************************************************************)
(* Uploads of a task that were made one at a time: what is known of its    *)
(* documents beyond StorageInv.                                            *)
(***************************************************************************)
OneByOne(t) == \A u \in UploadsOf(t) : uploads[u].solo

(* A key has one document, and it is that of upload u. *)
IsOnly(docs, u) == Len(docs) = 1 /\ docs[1] = u

Complete(u) == \A id \in 1..TestsOf(u), type \in TestTypes :
                  IsOnly(testDocs[Key(uploads[u].task, id, type)], u)

(***************************************************************************)
(* A worker at work has an upload of its own that is recorded as running,  *)
(* and of uploads that overlap the earlier one knows that it is not alone. *)
(***************************************************************************)
Exclusive ==
    /\ \A w \in Workers : http[w].pc # "idle" => uploads[http[w].up].status = "running"
    /\ \A w, x \in Workers :
          w # x /\ http[w].pc # "idle" /\ http[x].pc # "idle" => http[w].up # http[x].up
    /\ \A u, v \in 1..Len(uploads) :
          /\ u # v /\ uploads[u].task = uploads[v].task
          /\ uploads[u].status = "running" /\ (v > u \/ uploads[v].status = "running")
          => ~uploads[u].solo

(* What a worker that is alone with its task has written. *)
Written(w) ==
    /\ http[w].pc = "insert" => testDocs[CurrentKey(w)] = <<>>
    /\ http[w].pc \in {"tests", "insert"} =>
          \A k \in 1..(http[w].step - 1) : IsOnly(testDocs[KeyAt(http[w].up, k)], http[w].up)
    /\ http[w].pc = "meta" => Complete(http[w].up)

InPlace(u) == taskMeta[uploads[u].task].up = u /\ Complete(u)

Content(t) ==
    OneByOne(t) =>
        /\ \A key \in Keys : key.task = t => Len(testDocs[key]) <= 1
        /\ \A w \in Workers : http[w].pc # "idle" /\ uploads[http[w].up].task = t => Written(w)
        /\ \A u \in UploadsOf(t) :
              uploads[u].status = "200" /\ (\A v \in UploadsOf(t) : v <= u) => InPlace(u)

Accepted(t) == {u \in UploadsOf(t) : uploads[u].status = "200"}

(* LastAccepted is defined. *)
HasLast(t) == Accepted(t) # {} => \E u \in Accepted(t) : \A v \in Accepted(t) : v <= u

WriterInv ==
    /\ Exclusive
    /\ \A t \in Tasks : Content(t)
    /\ \A t \in Tasks : HasLast(t)

(* Nothing of task t changes. *)
Untouched(t) ==
    /\ \A key \in Keys : key.task = t => testDocs'[key] = testDocs[key]
    /\ taskMeta'[t] = taskMeta[t]
    /\ \A u \in 1..Len(uploads) : uploads[u].task = t => uploads'[u] = uploads[u]
    /\ \A u \in 1..Len(uploads') : uploads'[u].task = t => u \in 1..Len(uploads)

(* Only tasks with an upload under way are touched. *)
Still == \A t \in Tasks : Running(t) = {} => Untouched(t)

LEMMA UploadsOfFacts ==
    ASSUME TypeOK, NEW t
    PROVE  /\ Len(uploads) \in Nat
           /\ \A u : u \in UploadsOf(t) <=> u \in 1..Len(uploads) /\ uploads[u].task = t
           /\ \A u : u \in Running(t) <=>
                 u \in 1..Len(uploads) /\ uploads[u].task = t /\ uploads[u].status = "running"
           /\ \A u : u \in Accepted(t) <=>
                 u \in 1..Len(uploads) /\ uploads[u].task = t /\ uploads[u].status = "200"
<1>1. uploads \in Seq(Upload)
  BY DEF TypeOK, Upload
<1>2. DOMAIN uploads = 1..Len(uploads) /\ Len(uploads) \in Nat
  BY <1>1
<1> QED
  BY <1>2 DEF UploadsOf, Running, Accepted

LEMMA NewUploadsOfFacts ==
    ASSUME UploadsKept, NEW t
    PROVE  /\ Len(uploads') \in Nat
           /\ \A u : u \in UploadsOf(t)' <=> u \in 1..Len(uploads') /\ uploads'[u].task = t
           /\ \A u : u \in Running(t)' <=>
                 u \in 1..Len(uploads') /\ uploads'[u].task = t /\ uploads'[u].status = "running"
           /\ \A u : u \in Accepted(t)' <=>
                 u \in 1..Len(uploads') /\ uploads'[u].task = t /\ uploads'[u].status = "200"
<1>1. DOMAIN uploads' = 1..Len(uploads') /\ Len(uploads') \in Nat
  BY DEF UploadsKept
<1> QED
  BY <1>1 DEF UploadsOf, Running, Accepted

LEMMA UntouchedUploads ==
    ASSUME TypeOK, TypeOK', UploadsKept, NEW t, Untouched(t)
    PROVE  /\ UploadsOf(t)' = UploadsOf(t) /\ Running(t)' = Running(t) /\ Accepted(t)' = Accepted(t)
           /\ \A u \in UploadsOf(t) : uploads'[u] = uploads[u] /\ TestsOf(u)' = TestsOf(u)
<1>1. /\ \A u : u \in UploadsOf(t) <=> u \in 1..Len(uploads) /\ uploads[u].task = t
      /\ \A u : u \in UploadsOf(t)' <=> u \in 1..Len(uploads') /\ uploads'[u].task = t
  BY UploadsOfFacts, NewUploadsOfFacts
<1>2. \A u \in 1..Len(uploads) : u \in 1..Len(uploads')
  <2>1. Len(uploads) \in Nat /\ Len(uploads') \in Nat /\ Len(uploads') >= Len(uploads)
    BY UploadsOfFacts, NewUploadsOfFacts DEF UploadsKept
  <2> QED
    BY <2>1
<1>3. \A u \in UploadsOf(t) : uploads'[u] = uploads[u]
  BY <1>1 DEF Untouched
<1>4. UploadsOf(t)' = UploadsOf(t)
  <2>1. \A u \in 1..Len(uploads) : uploads'[u].task = uploads[u].task
    BY DEF UploadsKept
  <2>2. \A u : u \in UploadsOf(t)' <=> u \in UploadsOf(t)
    BY <1>1, <1>2, <2>1 DEF Untouched
  <2> QED
    BY <2>2
<1>5. Running(t)' = Running(t) /\ Accepted(t)' = Accepted(t)
  BY <1>3, <1>4 DEF Running, Accepted
<1> QED
  BY <1>3, <1>4, <1>5 DEF TestsOf

LEMMA UntouchedComplete ==
    ASSUME TypeOK, TypeOK', UploadsKept, NEW t, Untouched(t), NEW u \in UploadsOf(t)
    PROVE  /\ Complete(u)' <=> Complete(u)
           /\ InPlace(u)' <=> InPlace(u)
<1>1. uploads'[u] = uploads[u] /\ TestsOf(u)' = TestsOf(u) /\ uploads[u].task = t /\ u \in 1..Len(uploads)
  BY UntouchedUploads, UploadsOfFacts
<1>2. ASSUME NEW id \in 1..TestsOf(u), NEW type \in TestTypes
      PROVE  testDocs'[Key(t, id, type)] = testDocs[Key(t, id, type)]
  <2>1. Key(t, id, type) \in Keys /\ Key(t, id, type).task = t
    BY <1>1, StoredKeys DEF Key
  <2> QED
    BY <2>1 DEF Untouched
<1>3. Complete(u)' <=> Complete(u)
  BY <1>1, <1>2 DEF Complete
<1> QED
  BY <1>1, <1>3 DEF InPlace, Untouched

(* A step that touches nothing of t and none of its workers. *)
LEMMA UntouchedContent ==
    ASSUME TypeOK, TypeOK', UploadsKept, NEW t \in Tasks, Untouched(t), Content(t),
           \A w \in Workers : http'[w].pc # "idle" /\ uploads'[http'[w].up].task = t => http'[w] = http[w]
    PROVE  Content(t)'
<1> SUFFICES ASSUME OneByOne(t)'
             PROVE  /\ \A key \in Keys : key.task = t => Len(testDocs'[key]) <= 1
                    /\ \A w \in Workers : http'[w].pc # "idle" /\ uploads'[http'[w].up].task = t => Written(w)'
                    /\ \A u \in UploadsOf(t)' :
                          uploads'[u].status = "200" /\ (\A v \in UploadsOf(t)' : v <= u) => InPlace(u)'
  BY DEF Content
<1>1. OneByOne(t)
  BY UntouchedUploads DEF OneByOne
<1>2. \A key \in Keys : key.task = t => Len(testDocs'[key]) <= 1
  BY <1>1 DEF Content, Untouched
<1>3. ASSUME NEW w \in Workers, http'[w].pc # "idle", uploads'[http'[w].up].task = t
      PROVE  Written(w)'
  <2> PICK u : u = http[w].up
    OBVIOUS
  <2>1. http'[w] = http[w]
    BY <1>3
  <2>2. u \in 1..Len(uploads) /\ (http[w].pc # "meta" => http[w].step \in 1..(2 * TestsOf(u)))
    BY <1>3, <2>1 DEF TypeOK
  <2>3. uploads[u].task = t /\ u \in UploadsOf(t) /\ uploads'[u] = uploads[u]
    BY <1>3, <2>1, <2>2, UploadsOfFacts DEF UploadsKept, Untouched
  <2>4. Written(w)
    BY <1>1, <1>3, <2>1, <2>3 DEF Content
  <2>5. TestsOf(u) \in Nat /\ TestsOf(u)' = TestsOf(u) /\ (Complete(u)' <=> Complete(u))
    BY <2>2, <2>3, UploadFacts, UntouchedUploads, UntouchedComplete
  <2>6. ASSUME NEW k \in 1..(2 * TestsOf(u))
        PROVE  KeyAt(u, k)' = KeyAt(u, k) /\ testDocs'[KeyAt(u, k)] = testDocs[KeyAt(u, k)]
    <3>1. KeyAt(u, k)' = KeyAt(u, k)
      BY <2>3, <2>5 DEF KeyAt
    <3>2. KeyAt(u, k) \in Keys
      BY <2>2, KeyAtInKeys
    <3>3. KeyAt(u, k).task = t
      BY <2>3 DEF KeyAt, Key
    <3> QED
      BY <3>1, <3>2, <3>3 DEF Untouched
  <2>7. http[w].pc = "meta" => Complete(u)'
    BY <2>4, <2>5 DEF Written
  <2>8. CASE http[w].pc = "meta"
    BY <2>1, <2>7, <2>8 DEF Written
  <2>9. CASE http[w].pc # "meta"
    <3> PICK k : k = http[w].step
      OBVIOUS
    <3>1. k \in 1..(2 * TestsOf(u)) /\ \A j \in 1..(k - 1) : j \in 1..(2 * TestsOf(u))
      BY <2>2, <2>5, <2>9
    <3>2. KeyAt(u, k)' = KeyAt(u, k) /\ testDocs'[KeyAt(u, k)] = testDocs[KeyAt(u, k)]
      BY <2>6, <3>1
    <3>3. \A j \in 1..(k - 1) : KeyAt(u, j)' = KeyAt(u, j) /\ testDocs'[KeyAt(u, j)] = testDocs[KeyAt(u, j)]
      BY <2>6, <3>1
    <3>4. http[w].pc = "insert" => testDocs'[CurrentKey(w)'] = <<>>
      BY <2>1, <2>4, <3>2 DEF Written, CurrentKey
    <3>5. \A j \in 1..(k - 1) : http[w].pc \in {"tests", "insert"} => IsOnly(testDocs'[KeyAt(u, j)'], u)
      BY <2>4, <3>3 DEF Written
    <3> QED
      BY <2>1, <2>9, <3>4, <3>5 DEF Written
  <2> QED
    BY <2>8, <2>9
<1>4. ASSUME NEW u \in UploadsOf(t)', uploads'[u].status = "200", \A v \in UploadsOf(t)' : v <= u
      PROVE  InPlace(u)'
  <2>1. u \in UploadsOf(t) /\ uploads[u].status = "200" /\ \A v \in UploadsOf(t) : v <= u
    BY <1>4, UntouchedUploads
  <2>2. InPlace(u)
    BY <1>1, <2>1 DEF Content
  <2> QED
    BY <2>1, <2>2, UntouchedComplete
<1> QED
  BY <1>2, <1>3, <1>4

(* Whose upload is solo is the only one at work on its task, which has no later upload. *)
Alone(w, u, t) ==
    /\ u \in UploadsOf(t) /\ uploads[u].status = "running"
    /\ \A x \in Workers : http[x].pc # "idle" /\ uploads[http[x].up].task = t => x = w
    /\ \A v \in UploadsOf(t) : v <= u

LEMMA AloneAtWork ==
    ASSUME StorageInv, Exclusive, NEW w \in Workers, http[w].pc # "idle",
           NEW u, u = http[w].up, NEW t, t = uploads[u].task, OneByOne(t)
    PROVE  Alone(w, u, t)
<1>1. TypeOK
  BY DEF StorageInv
<1>2. \A x \in Workers : http[x].pc # "idle" => http[x].up \in 1..Len(uploads)
  BY <1>1 DEF TypeOK
<1>3. u \in UploadsOf(t) /\ uploads[u].status = "running" /\ u \in 1..Len(uploads)
  BY <1>1, <1>2, UploadsOfFacts DEF Exclusive
<1>4. uploads[u].solo
  BY <1>3 DEF OneByOne
<1>5. ASSUME NEW x \in Workers, http[x].pc # "idle", uploads[http[x].up].task = t
      PROVE  x = w
  BY <1>2, <1>3, <1>4, <1>5 DEF Exclusive
<1>6. ASSUME NEW v \in UploadsOf(t) PROVE v <= u
  <2>1. v \in 1..Len(uploads) /\ uploads[v].task = t /\ Len(uploads) \in Nat
    BY <1>1, <1>6, UploadsOfFacts
  <2>2. ~(v > u)
    BY <1>3, <1>4, <2>1 DEF Exclusive
  <2> QED
    BY <1>3, <2>1, <2>2
<1> QED
  BY <1>3, <1>5, <1>6 DEF Alone

(* The larger one of a new element and the largest so far. *)
LEMMA LargestOfMore ==
    ASSUME NEW S \in SUBSET Nat, NEW u \in Nat,
           S # {} => \E m \in S : \A v \in S : v <= m
    PROVE  \E m \in S \cup {u} : \A v \in S \cup {u} : v <= m
<1>1. CASE S = {}
  BY <1>1
<1>2. CASE S # {}
  <2> PICK m \in S : \A v \in S : v <= m
    BY <1>2
  <2>1. CASE m <= u
    <3>1. \A v \in S \cup {u} : v <= u
      BY <2>1
    <3> QED
      BY <3>1
  <2>2. CASE u <= m
    BY <2>2
  <2> QED
    BY <2>1, <2>2
<1> QED
  BY <1>1, <1>2

(***************************************************************************)
(* A step of worker w on its upload u of task t: it writes to that task    *)
(* only, changes nothing but the status of the upload, and leaves the task *)
(* as Content wants it.                                                    *)
(***************************************************************************)
OnlyTask(t) ==
    /\ \A key \in Keys : key.task # t => testDocs'[key] = testDocs[key]
    /\ \A x \in Tasks : x # t => taskMeta'[x] = taskMeta[x]

OnlyStatus(u) ==
    /\ UploadsKept /\ Len(uploads') = Len(uploads)
    /\ \A v \in 1..Len(uploads) : v # u => uploads'[v] = uploads[v]
    /\ uploads'[u].solo = uploads[u].solo

LeavesRight(w, u, t) ==
    OneByOne(t) => /\ \A key \in Keys : key.task = t => Len(testDocs'[key]) <= 1
                   /\ http'[w].pc # "idle" => Written(w)'
                   /\ uploads'[u].status = "200" => InPlace(u)'

LEMMA WorkStep ==
    ASSUME StorageInv, TypeOK', WriterInv, NEW w \in Workers, http[w].pc # "idle",
           NEW u, u = http[w].up, NEW t, t = uploads[u].task,
           NEW rec, http' = [http EXCEPT ![w] = rec],
           rec.pc # "idle" => rec.up = u /\ uploads'[u].status = "running",
           OnlyTask(t), OnlyStatus(u), LeavesRight(w, u, t)
    PROVE  WriterInv' /\ Still
<1> USE DEF OnlyTask, OnlyStatus
<1>1. /\ TypeOK /\ http \in [Workers -> Worker] /\ Exclusive
      /\ \A x \in Workers : http[x].pc # "idle" => http[x].up \in 1..Len(uploads)
  BY DEF StorageInv, TypeOK, WriterInv, Worker
<1>2. /\ http'[w] = rec /\ \A x \in Workers : x # w => http'[x] = http[x]
  BY <1>1
<1>3. /\ \A v \in 1..Len(uploads) : uploads'[v].task = uploads[v].task /\ uploads'[v].solo = uploads[v].solo
      /\ u \in 1..Len(uploads) /\ uploads[u].status = "running" /\ Len(uploads) \in Nat
  BY <1>1, UploadsOfFacts DEF UploadsKept, Exclusive
<1>4. \A x : UploadsOf(x)' = UploadsOf(x) /\ (OneByOne(x)' <=> OneByOne(x))
  <2> SUFFICES ASSUME NEW x PROVE UploadsOf(x)' = UploadsOf(x) /\ (OneByOne(x)' <=> OneByOne(x))
    OBVIOUS
  <2>1. UploadsOf(x)' = UploadsOf(x)
    <3>1. \A v : v \in UploadsOf(x)' <=> v \in UploadsOf(x)
      BY <1>1, <1>3, UploadsOfFacts, NewUploadsOfFacts
    <3> QED
      BY <3>1
  <2>2. \A v \in UploadsOf(x) : uploads'[v].solo = uploads[v].solo
    BY <1>1, <1>3, UploadsOfFacts
  <2> QED
    BY <2>1, <2>2 DEF OneByOne
<1>5. Exclusive'
  <2>1. ASSUME NEW x \in Workers, http'[x].pc # "idle" PROVE uploads'[http'[x].up].status = "running"
    <3>1. CASE x = w
      BY <1>2, <2>1, <3>1
    <3>2. CASE x # w
      <4>1. http[x].up # u /\ http[x].up \in 1..Len(uploads) /\ uploads[http[x].up].status = "running"
        BY <1>1, <1>2, <2>1, <3>2 DEF Exclusive
      <4> QED
        BY <1>2, <3>2, <4>1
    <3> QED
      BY <3>1, <3>2
  <2>2. \A x, y \in Workers : x # y /\ http'[x].pc # "idle" /\ http'[y].pc # "idle" => http'[x].up # http'[y].up
    BY <1>1, <1>2 DEF Exclusive
  <2>3. ASSUME NEW a \in 1..Len(uploads'), NEW b \in 1..Len(uploads'),
               a # b, uploads'[a].task = uploads'[b].task, uploads'[a].status = "running",
               b > a \/ uploads'[b].status = "running"
        PROVE  ~uploads'[a].solo
    <3>1. uploads[a].task = uploads[b].task /\ uploads[a].solo = uploads'[a].solo
      BY <1>3, <2>3
    <3>2. \A v \in 1..Len(uploads) : uploads'[v].status = "running" => uploads[v].status = "running"
      BY <1>3
    <3> QED
      BY <1>1, <2>3, <3>1, <3>2 DEF Exclusive
  <2> QED
    BY <2>1, <2>2, <2>3 DEF Exclusive
<1>6. ASSUME NEW x \in Tasks, x # t PROVE Untouched(x)
  BY <1>1, <1>3, <1>6 DEF Untouched, UploadsKept
<1>7. ASSUME NEW x \in Tasks PROVE Content(x)'
  <2>1. CASE x # t
    <3>1. \A y \in Workers : http'[y].pc # "idle" /\ uploads'[http'[y].up].task = x => http'[y] = http[y]
      BY <1>2, <1>3, <2>1
    <3> QED
      BY <1>1, <1>6, <2>1, <3>1, UntouchedContent DEF WriterInv
  <2>2. CASE x = t
    <3> SUFFICES ASSUME OneByOne(t)
                 PROVE  /\ \A key \in Keys : key.task = t => Len(testDocs'[key]) <= 1
                        /\ \A y \in Workers :
                              http'[y].pc # "idle" /\ uploads'[http'[y].up].task = t => Written(y)'
                        /\ \A v \in UploadsOf(t)' :
                              uploads'[v].status = "200" /\ (\A z \in UploadsOf(t)' : z <= v) => InPlace(v)'
      BY <1>4, <2>2 DEF Content
    <3>1. /\ u \in UploadsOf(t) /\ \A v \in UploadsOf(t) : v <= u
          /\ \A y \in Workers : http[y].pc # "idle" /\ uploads[http[y].up].task = t => y = w
      <4>1. Alone(w, u, t)
        BY <1>1, AloneAtWork
      <4> QED
        BY <4>1 DEF Alone
    <3>2. ASSUME NEW y \in Workers, http'[y].pc # "idle", uploads'[http'[y].up].task = t
          PROVE  Written(y)'
      <4>1. y = w
        BY <1>1, <1>2, <1>3, <3>1, <3>2
      <4> QED
        BY <1>2, <3>2, <4>1 DEF LeavesRight
    <3>3. ASSUME NEW v \in UploadsOf(t)', uploads'[v].status = "200", \A z \in UploadsOf(t)' : z <= v
          PROVE  InPlace(v)'
      <4>1. v \in 1..Len(uploads) /\ v <= u /\ u <= v
        BY <1>1, <1>4, <3>1, <3>3, UploadsOfFacts
      <4>2. v = u
        BY <1>3, <4>1
      <4> QED
        BY <3>3, <4>2 DEF LeavesRight
    <3> QED
      BY <3>2, <3>3 DEF LeavesRight
  <2> QED
    BY <2>1, <2>2
<1>8. ASSUME NEW x \in Tasks PROVE HasLast(x)'
  <2>1. CASE x # t
    BY <1>1, <1>6, <2>1, UntouchedUploads DEF WriterInv, HasLast
  <2>2. CASE x = t /\ uploads'[u].status = "200"
    <3>1. \A v : v \in Accepted(t)' <=> v \in Accepted(t) \cup {u}
      BY <1>1, <1>3, <2>2, UploadsOfFacts, NewUploadsOfFacts
    <3>2. Accepted(t)' = Accepted(t) \cup {u}
      BY <3>1
    <3>3. Accepted(t) \in SUBSET Nat /\ u \in Nat
      BY <1>1, <1>3, UploadsOfFacts
    <3>4. Accepted(t) # {} => \E m \in Accepted(t) : \A v \in Accepted(t) : v <= m
      BY <2>2 DEF WriterInv, HasLast
    <3>5. \E m \in Accepted(t) \cup {u} : \A v \in Accepted(t) \cup {u} : v <= m
      <4> PICK S : S = Accepted(t)
        OBVIOUS
      <4>1. S \in SUBSET Nat /\ (S # {} => \E m \in S : \A v \in S : v <= m)
        BY <3>3, <3>4
      <4>2. \E m \in S \cup {u} : \A v \in S \cup {u} : v <= m
        BY <3>3, <4>1, LargestOfMore
      <4> QED
        BY <4>2
    <3> QED
      BY <2>2, <3>2, <3>5 DEF HasLast
  <2>3. CASE x = t /\ uploads'[u].status # "200"
    <3>1. \A v : v \in Accepted(t)' <=> v \in Accepted(t)
      BY <1>1, <1>3, <2>3, UploadsOfFacts, NewUploadsOfFacts
    <3>2. Accepted(t)' = Accepted(t)
      BY <3>1
    <3> QED
      BY <2>3, <3>2 DEF WriterInv, HasLast
  <2> QED
    BY <2>1, <2>2, <2>3
<1>9. Still
  <2>1. u \in Running(t)
    BY <1>1, <1>3, UploadsOfFacts
  <2> QED
    BY <1>6, <2>1 DEF Still
<1> QED
  BY <1>5, <1>7, <1>8, <1>9 DEF WriterInv

(* What Finish does to the history. *)
LEMMA FinishFacts ==
    ASSUME TypeOK, NEW w \in Workers, http[w].pc # "idle", NEW u, u = http[w].up,
           NEW st \in {"running", "200", "400", "lost"}, Finish(w, st)
    PROVE  http' = [http EXCEPT ![w] = Idle] /\ OnlyStatus(u) /\ uploads'[u].status = st
<1> DEFINE e == [uploads[u] EXCEPT !.status = st]
<1>1. u \in 1..Len(uploads) /\ uploads \in Seq(Upload)
  BY DEF TypeOK, Upload
<1>2. uploads[u] \in Upload
  BY <1>1
<1>3. uploads' = [uploads EXCEPT ![u] = e]
  BY DEF Finish
<1>4. e.status = st /\ e.solo = uploads[u].solo
  BY <1>2 DEF Upload
<1> HIDE DEF e
<1>5. uploads'[u] = e /\ \A v \in 1..Len(uploads) : v # u => uploads'[v] = uploads[v]
  BY <1>1, <1>3
<1>6. UploadsKept /\ Len(uploads') = Len(uploads) /\ http' = [http EXCEPT ![w] = Idle]
  BY FinishKeeps
<1> QED
  BY <1>4, <1>5, <1>6 DEF OnlyStatus

(* A worker that gives up, or is done with everything in place. *)
LEMMA FinishWork ==
    ASSUME StorageInv, TypeOK', WriterInv, NEW w \in Workers, http[w].pc # "idle",
           NEW u, u = http[w].up, NEW t, t = uploads[u].task,
           NEW st \in {"200", "400"}, Finish(w, st), OnlyTask(t),
           OneByOne(t) => /\ \A key \in Keys : key.task = t => Len(testDocs'[key]) <= 1
                          /\ st = "200" => InPlace(u)'
    PROVE  WriterInv' /\ Still /\ UploadsKept
<1>1. /\ TypeOK /\ st \in {"running", "200", "400", "lost"} /\ Idle.pc = "idle"
      /\ http \in [Workers -> Worker]
  BY DEF StorageInv, TypeOK, Idle, Worker
<1>2. http' = [http EXCEPT ![w] = Idle] /\ OnlyStatus(u) /\ uploads'[u].status = st
  BY <1>1, FinishFacts
<1>3. http'[w].pc = "idle"
  BY <1>1, <1>2
<1>4. LeavesRight(w, u, t)
  BY <1>2, <1>3 DEF LeavesRight
<1>5. WriterInv' /\ Still
  BY <1>1, <1>2, <1>4, WorkStep
<1> QED
  BY <1>2, <1>5 DEF OnlyStatus

LEMMA LastStepCompletes ==
    ASSUME TypeOK, NEW u \in 1..Len(uploads), NEW docs,
           \A k \in 1..(2 * TestsOf(u)) : IsOnly(docs[KeyAt(u, k)], u)
    PROVE  \A id \in 1..TestsOf(u), type \in TestTypes :
              IsOnly(docs[Key(uploads[u].task, id, type)], u)
<1> SUFFICES ASSUME NEW id \in 1..TestsOf(u), NEW type \in TestTypes
             PROVE  IsOnly(docs[Key(uploads[u].task, id, type)], u)
  OBVIOUS
<1>1. TestsOf(u) \in Nat
  BY UploadFacts
<1>2. CASE type = "input"
  <2>1. id \in 1..(2 * TestsOf(u)) /\ KeyAt(u, id) = Key(uploads[u].task, id, "input")
    BY <1>1 DEF KeyAt
  <2> QED
    BY <1>2, <2>1
<1>3. CASE type = "output"
  <2>1. /\ id + TestsOf(u) \in 1..(2 * TestsOf(u))
        /\ KeyAt(u, id + TestsOf(u)) = Key(uploads[u].task, id, "output")
    BY <1>1 DEF KeyAt
  <2> QED
    BY <1>3, <2>1
<1> QED
  BY <1>2, <1>3 DEF TestTypes

(* A worker alone with its task has written one more document: on to the next update. *)
LEMMA NextUpdateWritten ==
    ASSUME StorageInv, NEW w \in Workers, http[w].pc \in {"tests", "insert"}, Written(w),
           NEW u, u = http[w].up, NEW rec \in Worker, rec.up = u, rec.step = http[w].step + 1,
           rec.pc = (IF http[w].step = 2 * TestsOf(u) THEN "meta" ELSE "tests"),
           http'[w] = rec, uploads' = uploads,
           IsOnly(testDocs'[CurrentKey(w)], u),
           \A key \in Keys : key # CurrentKey(w) => testDocs'[key] = testDocs[key]
    PROVE  Written(w)'
<1> PICK n, k : n = TestsOf(u) /\ k = http[w].step
  OBVIOUS
<1>1. TypeOK
  BY DEF StorageInv
<1>2. u \in 1..Len(uploads) /\ n \in Nat /\ k \in 1..(2 * n) /\ CurrentKey(w) = KeyAt(u, k)
  BY <1>1, CurrentKeyFacts DEF CurrentKey
<1>3. \A j \in 1..(2 * n) : KeyAt(u, j)' = KeyAt(u, j) /\ KeyAt(u, j) \in Keys
  <2>1. \A j \in 1..(2 * n) : KeyAt(u, j) \in Keys
    BY <1>1, <1>2, KeyAtInKeys
  <2> QED
    BY <2>1 DEF KeyAt, TestsOf
<1>4. \A j \in 1..(k - 1) : IsOnly(testDocs[KeyAt(u, j)], u)
  BY DEF Written
<1>5. ASSUME NEW j \in 1..k PROVE IsOnly(testDocs'[KeyAt(u, j)], u)
  <2>1. CASE KeyAt(u, j) = CurrentKey(w)
    BY <2>1
  <2>2. CASE KeyAt(u, j) # CurrentKey(w)
    <3>1. j \in 1..(k - 1) /\ j \in 1..(2 * n)
      <4>1. j # k
        BY <1>2, <2>2
      <4> QED
        BY <1>2, <4>1
    <3>2. testDocs'[KeyAt(u, j)] = testDocs[KeyAt(u, j)]
      BY <1>3, <2>2, <3>1
    <3> QED
      BY <1>4, <3>1, <3>2
  <2> QED
    BY <2>1, <2>2
<1>6. CASE k = 2 * n
  <2>1. \A id \in 1..TestsOf(u), type \in TestTypes : IsOnly(testDocs'[Key(uploads[u].task, id, type)], u)
    BY <1>1, <1>2, <1>5, <1>6, LastStepCompletes
  <2>2. Complete(u)'
    BY <2>1 DEF Complete, TestsOf
  <2> QED
    BY <1>6, <2>2 DEF Written
<1>7. CASE k # 2 * n
  <2>1. \A j \in 1..((k + 1) - 1) : IsOnly(testDocs'[KeyAt(u, j)'], u)
    <3>1. (k + 1) - 1 = k /\ \A j \in 1..k : j \in 1..(2 * n)
      BY <1>2
    <3> QED
      BY <1>3, <1>5, <3>1
  <2> QED
    BY <1>7, <2>1 DEF Written
<1> QED
  BY <1>6, <1>7

(* The task of the key a worker is at. *)
LEMMA CurrentTask ==
    ASSUME StorageInv, NEW w \in Workers, http[w].pc # "idle", NEW u, u = http[w].up
    PROVE  /\ TypeOK /\ u \in 1..Len(uploads) /\ uploads[u].task \in Tasks
           /\ http[w].pc # "meta" => CurrentKey(w) \in Keys /\ CurrentKey(w).task = uploads[u].task
           /\ WriterInv /\ OneByOne(uploads[u].task) =>
                /\ Written(w)
                /\ \A key \in Keys : key.task = uploads[u].task => Len(testDocs[key]) <= 1
<1>1. TypeOK /\ u \in 1..Len(uploads)
  BY DEF StorageInv, TypeOK
<1>2. uploads[u].task \in Tasks
  BY <1>1, UploadFacts
<1>3. ASSUME http[w].pc # "meta" PROVE CurrentKey(w) \in Keys /\ CurrentKey(w).task = uploads[u].task
  <2>1. http[w].pc \in {"tests", "insert"}
    BY <1>1, <1>3 DEF TypeOK
  <2>2. CurrentKey(w) \in Keys
    BY <1>1, <2>1, CurrentKeyFacts
  <2> QED
    BY <2>2 DEF CurrentKey, KeyAt, Key
<1>4. ASSUME WriterInv, OneByOne(uploads[u].task)
      PROVE  Written(w) /\ \A key \in Keys : key.task = uploads[u].task => Len(testDocs[key]) <= 1
  BY <1>2, <1>4 DEF WriterInv, Content
<1> QED
  BY <1>1, <1>2, <1>3, <1>4

(* An update or an insert, and what follows it. *)
LEMMA WriteWork ==
    ASSUME StorageInv, TypeOK', WriterInv, NEW w \in Workers, http[w].pc \in {"tests", "insert"},
           NEW u, u = http[w].up, NEW t, t = uploads[u].task,
           NEW docs \in Seq(1..MaxUploads), testDocs' = [testDocs EXCEPT ![CurrentKey(w)] = docs],
           OneByOne(t) => IsOnly(docs, u), taskMeta' = taskMeta,
           NextUpdate(w) \/ Finish(w, "400")
    PROVE  WriterInv' /\ Still /\ UploadsKept
<1>1. /\ TypeOK /\ CurrentKey(w) \in Keys /\ CurrentKey(w).task = t /\ u \in 1..Len(uploads)
      /\ OneByOne(t) => Written(w) /\ \A key \in Keys : key.task = t => Len(testDocs[key]) <= 1
  BY CurrentTask
<1>2. testDocs \in [Keys -> Seq(1..MaxUploads)] /\ http \in [Workers -> Worker] /\ uploads \in Seq(Upload)
  BY <1>1 DEF TypeOK, Worker, Upload
<1>3. /\ testDocs'[CurrentKey(w)] = docs
      /\ \A key \in Keys : key # CurrentKey(w) => testDocs'[key] = testDocs[key]
  BY <1>1, <1>2
<1>4. OnlyTask(t)
  BY <1>1, <1>3 DEF OnlyTask
<1>5. OneByOne(t) => \A key \in Keys : key.task = t => Len(testDocs'[key]) <= 1
  <2> SUFFICES ASSUME OneByOne(t), NEW key \in Keys, key.task = t PROVE Len(testDocs'[key]) <= 1
    OBVIOUS
  <2>1. CASE key = CurrentKey(w)
    <3>1. Len(testDocs'[key]) = 1 /\ Len(docs) \in Nat /\ Len(docs) = 1 /\ testDocs'[key] = docs
      BY <1>3, <2>1 DEF IsOnly
    <3>2. Len(docs) <= 1
      BY <3>1
    <3> QED
      BY <3>1, <3>2
  <2>2. CASE key # CurrentKey(w)
    BY <1>1, <1>3, <2>2
  <2> QED
    BY <2>1, <2>2
<1>6. CASE Finish(w, "400")
  BY <1>4, <1>5, <1>6, FinishWork
<1>7. CASE NextUpdate(w)
  <2> DEFINE rec == [pc |-> IF http[w].step = 2 * TestsOf(u) THEN "meta" ELSE "tests",
                     up |-> u, step |-> http[w].step + 1]
  <2>1. /\ rec.up = u /\ rec.step = http[w].step + 1
        /\ rec.pc = IF http[w].step = 2 * TestsOf(u) THEN "meta" ELSE "tests"
    OBVIOUS
  <2>2. http' = [http EXCEPT ![w] = rec] /\ uploads' = uploads
    BY <1>7, Zenon DEF NextUpdate
  <2> HIDE DEF rec
  <2>3. http'[w] = rec
    BY <1>2, <2>2
  <2>4. rec \in Worker
    <3>1. http' \in [Workers -> Worker]
      BY DEF TypeOK, Worker
    <3> QED
      BY <2>3, <3>1
  <2>5. OnlyStatus(u)
    BY <1>1, <1>2, <2>2 DEF OnlyStatus, UploadsKept
  <2>6. OneByOne(t) => Written(w)'
    BY <1>1, <1>3, <2>1, <2>2, <2>3, <2>4, NextUpdateWritten
  <2>7. uploads[u].status = "running"
    BY DEF WriterInv, Exclusive
  <2>8. LeavesRight(w, u, t)
    BY <1>5, <2>2, <2>6, <2>7 DEF LeavesRight
  <2>9. WriterInv' /\ Still
    BY <1>4, <2>1, <2>2, <2>5, <2>7, <2>8, WorkStep
  <2> QED
    BY <2>5, <2>9 DEF OnlyStatus
<1> QED
  BY <1>6, <1>7

LEMMA OneOfOne == ASSUME NEW n \in Nat, n <= 1, NEW k \in 1..n PROVE k = 1 /\ n = 1
  OBVIOUS

LEMMA UpdateTestWorks ==
    ASSUME StorageInv, TypeOK', WriterInv, NEW w \in Workers, UpdateTest(w)
    PROVE  WriterInv' /\ Still /\ UploadsKept
<1> PICK u, t : u = http[w].up /\ t = uploads[u].task
  OBVIOUS
<1>1. http[w].pc = "tests" /\ taskMeta' = taskMeta /\ (NextUpdate(w) \/ Finish(w, "400"))
  BY DEF UpdateTest
<1>2. /\ TypeOK /\ CurrentKey(w) \in Keys /\ CurrentKey(w).task = t
      /\ OneByOne(t) => \A key \in Keys : key.task = t => Len(testDocs[key]) <= 1
  BY <1>1, CurrentTask
<1>3. http[w].up \in 1..MaxUploads
  BY <1>1, <1>2, CurrentKeyFacts
<1>4. PICK k \in DOMAIN testDocs[CurrentKey(w)] :
         testDocs' = [testDocs EXCEPT ![CurrentKey(w)] = [testDocs[CurrentKey(w)] EXCEPT ![k] = u]]
  BY DEF UpdateTest
<1> PICK old : old = testDocs[CurrentKey(w)]
  OBVIOUS
<1> DEFINE docs == [old EXCEPT ![k] = u]
<1>5. old \in Seq(1..MaxUploads)
  BY <1>2 DEF TypeOK
<1>6. k \in 1..Len(old)
  BY <1>4, <1>5
<1>7. docs \in Seq(1..MaxUploads) /\ Len(docs) = Len(old) /\ docs[k] = u
  BY <1>3, <1>5, <1>6
<1>8. testDocs' = [testDocs EXCEPT ![CurrentKey(w)] = docs]
  BY <1>4
<1> HIDE DEF docs
<1>9. OneByOne(t) => IsOnly(docs, u)
  <2> SUFFICES ASSUME OneByOne(t) PROVE IsOnly(docs, u)
    OBVIOUS
  <2>1. Len(old) <= 1
    BY <1>2
  <2>2. k = 1 /\ Len(old) = 1
    <3>1. Len(old) \in Nat
      BY <1>5
    <3> QED
      BY <1>6, <2>1, <3>1, OneOfOne
  <2>3. Len(docs) = 1 /\ docs[1] = u
    BY <1>7, <2>2
  <2> QED
    BY <2>3 DEF IsOnly
<1> QED
  BY <1>1, <1>7, <1>8, <1>9, WriteWork

LEMMA InsertTestWorks ==
    ASSUME StorageInv, TypeOK', WriterInv, NEW w \in Workers, InsertTest(w)
    PROVE  WriterInv' /\ Still /\ UploadsKept
<1> PICK u, t : u = http[w].up /\ t = uploads[u].task
  OBVIOUS
<1>1. http[w].pc = "insert" /\ taskMeta' = taskMeta /\ (NextUpdate(w) \/ Finish(w, "400"))
  BY DEF InsertTest
<1>2. /\ TypeOK /\ CurrentKey(w) \in Keys
      /\ OneByOne(t) => Written(w)
  BY <1>1, CurrentTask
<1>3. u \in 1..MaxUploads
  BY <1>1, <1>2, CurrentKeyFacts
<1> PICK old : old = testDocs[CurrentKey(w)]
  OBVIOUS
<1> DEFINE docs == Append(old, u)
<1>4. old \in Seq(1..MaxUploads)
  BY <1>2 DEF TypeOK
<1>5. docs \in Seq(1..MaxUploads) /\ Len(docs) = Len(old) + 1 /\ docs[Len(old) + 1] = u
  BY <1>3, <1>4
<1>6. testDocs' = [testDocs EXCEPT ![CurrentKey(w)] = docs]
  BY DEF InsertTest
<1> HIDE DEF docs
<1>7. OneByOne(t) => IsOnly(docs, u)
  <2> SUFFICES ASSUME OneByOne(t) PROVE IsOnly(docs, u)
    OBVIOUS
  <2>1. old = <<>>
    BY <1>1, <1>2 DEF Written
  <2>2. Len(old) = 0 /\ 0 + 1 = 1
    BY <2>1
  <2>3. Len(docs) = 1 /\ docs[1] = u
    BY <1>5, <2>2
  <2> QED
    BY <2>3 DEF IsOnly
<1> QED
  BY <1>1, <1>5, <1>6, <1>7, WriteWork

LEMMA NoTestMatchesWorks ==
    ASSUME StorageInv, TypeOK', WriterInv, NEW w \in Workers, NoTestMatches(w)
    PROVE  WriterInv' /\ Still /\ UploadsKept
<1> PICK u, t, rec : u = http[w].up /\ t = uploads[u].task /\ rec = [http[w] EXCEPT !.pc = "insert"]
  OBVIOUS
<1>1. /\ http[w].pc = "tests" /\ testDocs[CurrentKey(w)] = <<>> /\ http' = [http EXCEPT ![w] = rec]
      /\ testDocs' = testDocs /\ taskMeta' = taskMeta /\ uploads' = uploads
  BY DEF NoTestMatches
<1>2. TypeOK /\ http \in [Workers -> Worker] /\ uploads \in Seq(Upload)
  BY DEF StorageInv, TypeOK, Worker, Upload
<1>3. http[w] \in Worker
  BY <1>2
<1>4. rec.pc = "insert" /\ rec.up = u /\ rec.step = http[w].step /\ http'[w] = rec
  BY <1>1, <1>2, <1>3 DEF Worker
<1>5. OnlyTask(t) /\ OnlyStatus(u)
  BY <1>1, <1>2 DEF OnlyTask, OnlyStatus, UploadsKept
<1>6. uploads'[u].status = "running"
  BY <1>1 DEF WriterInv, Exclusive
<1>7. LeavesRight(w, u, t)
  <2> SUFFICES ASSUME OneByOne(t)
               PROVE  (\A key \in Keys : key.task = t => Len(testDocs'[key]) <= 1) /\ Written(w)'
    BY <1>6 DEF LeavesRight
  <2>1. Written(w) /\ \A key \in Keys : key.task = t => Len(testDocs[key]) <= 1
    BY <1>1, CurrentTask
  <2>2. \A k : KeyAt(u, k)' = KeyAt(u, k)
    BY <1>1 DEF KeyAt, TestsOf
  <2>3. CurrentKey(w)' = CurrentKey(w)
    BY <1>4, <2>2 DEF CurrentKey
  <2>4. \A k \in 1..(http[w].step - 1) : IsOnly(testDocs[KeyAt(u, k)], u)
    BY <1>1, <2>1 DEF Written
  <2> QED
    BY <1>1, <1>4, <2>1, <2>2, <2>3, <2>4 DEF Written
<1>8. WriterInv' /\ Still
  BY <1>1, <1>4, <1>5, <1>6, <1>7, WorkStep
<1> QED
  BY <1>5, <1>8 DEF OnlyStatus

LEMMA StorageErrorWorks ==
    ASSUME StorageInv, TypeOK', WriterInv, NEW w \in Workers, StorageError(w)
    PROVE  WriterInv' /\ Still /\ UploadsKept
<1> PICK u, t : u = http[w].up /\ t = uploads[u].task
  OBVIOUS
<1>1. http[w].pc # "idle" /\ Finish(w, "400") /\ testDocs' = testDocs /\ taskMeta' = taskMeta
  BY DEF StorageError
<1>2. OnlyTask(t) /\ (OneByOne(t) => \A key \in Keys : key.task = t => Len(testDocs'[key]) <= 1)
  BY <1>1, CurrentTask DEF OnlyTask
<1> QED
  BY <1>1, <1>2, FinishWork

LEMMA UpsertTaskMetaDataWorks ==
    ASSUME StorageInv, TypeOK', WriterInv, NEW w \in Workers, UpsertTaskMetaData(w)
    PROVE  WriterInv' /\ Still /\ UploadsKept
<1> PICK u, t : u = http[w].up /\ t = uploads[u].task
  OBVIOUS
<1>1. http[w].pc = "meta" /\ testDocs' = testDocs
  BY DEF UpsertTaskMetaData
<1>2. PICK st \in {"200", "400"} : Finish(w, st)
  BY DEF UpsertTaskMetaData
<1> PICK m : m = [up |-> u, batches |-> SplitIntoBatches(uploads[u].req, BatchSize)]
  OBVIOUS
<1>3. taskMeta' = [taskMeta EXCEPT ![t] = m] /\ m.up = u
  BY DEF UpsertTaskMetaData
<1>4. /\ TypeOK /\ u \in 1..Len(uploads) /\ t \in Tasks
      /\ OneByOne(t) => Written(w) /\ \A key \in Keys : key.task = t => Len(testDocs[key]) <= 1
  BY <1>1, CurrentTask
<1>5. DOMAIN taskMeta = Tasks
  BY <1>4 DEF TypeOK
<1>6. OnlyTask(t) /\ taskMeta'[t].up = u
  BY <1>1, <1>3, <1>4, <1>5 DEF OnlyTask
<1>7. OnlyStatus(u)
  BY <1>1, <1>2, <1>4, FinishFacts
<1>8. OneByOne(t) => InPlace(u)'
  <2> SUFFICES ASSUME OneByOne(t) PROVE InPlace(u)'
    OBVIOUS
  <2>1. uploads'[u].task = t /\ uploads'[u].req = uploads[u].req
    BY <1>4, <1>7 DEF OnlyStatus, UploadsKept
  <2>2. Complete(u)
    BY <1>1, <1>4 DEF Written
  <2>3. Complete(u)'
    BY <1>1, <2>1, <2>2 DEF Complete, TestsOf
  <2> QED
    BY <1>6, <2>1, <2>3 DEF InPlace
<1>9. OneByOne(t) => \A key \in Keys : key.task = t => Len(testDocs'[key]) <= 1
  BY <1>1, <1>4
<1> QED
  BY <1>1, <1>2, <1>6, <1>8, <1>9, FinishWork

(* What the start of an upload of task t does, last being its number. *)
Begins(w, t, last) ==
    /\ UploadsKept /\ last = Len(uploads) + 1 /\ Len(uploads') = last
    /\ uploads'[last].task = t /\ uploads'[last].status = "running"
    /\ uploads'[last].solo <=> Running(t) = {}
    /\ \A u \in 1..Len(uploads) : /\ uploads'[u].status = uploads[u].status
                                  /\ u \in Running(t) => ~uploads'[u].solo
                                  /\ u \notin Running(t) => uploads'[u] = uploads[u]
    /\ http[w].pc = "idle" /\ testDocs' = testDocs /\ taskMeta' = taskMeta
    /\ \A x \in Workers : x # w => http'[x] = http[x]
    /\ http'[w].up = last /\ http'[w].step = 1 /\ http'[w].pc \in {"tests", "meta"}
    /\ http'[w].pc = "meta" => TestsOf(last)' = 0
    /\ \A s \in Sessions :
          session'[s] = IF InCall(s) /\ session[s].task = t
                          THEN [session[s] EXCEPT !.calm = FALSE] ELSE session[s]

LEMMA BeginFacts ==
    ASSUME TypeOK, NEW w \in Workers, BeginUpload(w)
    PROVE  \E t \in Tasks, last \in Nat : Begins(w, t, last)
<1>1. /\ http \in [Workers -> Worker] /\ uploads \in Seq(Upload) /\ Len(uploads) \in Nat
      /\ http[w].pc = "idle" /\ testDocs' = testDocs /\ taskMeta' = taskMeta
  BY DEF TypeOK, Worker, Upload, BeginUpload
<1>2. PICK t \in Tasks, r \in Requests :
         /\ uploads' = Append([u \in DOMAIN uploads |->
                                 IF u \in Running(t) THEN [uploads[u] EXCEPT !.solo = FALSE]
                                                     ELSE uploads[u]],
                              [task |-> t, req |-> r, status |-> "running",
                               solo |-> Running(t) = {}])
         /\ session' = [s \in Sessions |->
                          IF InCall(s) /\ session[s].task = t
                            THEN [session[s] EXCEPT !.calm = FALSE] ELSE session[s]]
         /\ http' = [http EXCEPT ![w] = [pc |-> IF Len(r) = 0 THEN "meta" ELSE "tests",
                                         up |-> Len(uploads) + 1, step |-> 1]]
  BY DEF BeginUpload
<1> DEFINE f == [u \in DOMAIN uploads |->
                   IF u \in Running(t) THEN [uploads[u] EXCEPT !.solo = FALSE] ELSE uploads[u]]
           e == [task |-> t, req |-> r, status |-> "running", solo |-> Running(t) = {}]
           rec == [pc |-> IF Len(r) = 0 THEN "meta" ELSE "tests", up |-> Len(uploads) + 1, step |-> 1]
<1> PICK last : last = Len(uploads) + 1
  OBVIOUS
<1>3. e \in Upload /\ e.req = r /\ e.task = t /\ e.status = "running" /\ (e.solo <=> Running(t) = {})
  BY DEF Upload
<1>4. DOMAIN uploads = 1..Len(uploads) /\ \A u \in 1..Len(uploads) : uploads[u] \in Upload
  BY <1>1
<1>5. \A u \in 1..Len(uploads) : /\ f[u] \in Upload
                                 /\ f[u].task = uploads[u].task /\ f[u].req = uploads[u].req
                                 /\ f[u].status = uploads[u].status
                                 /\ u \in Running(t) => ~f[u].solo
                                 /\ u \notin Running(t) => f[u] = uploads[u]
  BY <1>4 DEF Upload
<1>6. f \in Seq(Upload) /\ Len(f) = Len(uploads)
  <2>1. f \in [1..Len(uploads) -> Upload]
    BY <1>4, <1>5
  <2> HIDE DEF f
  <2> QED
    BY <1>1, <2>1
<1>7. uploads' = Append(f, e) /\ http' = [http EXCEPT ![w] = rec]
  BY <1>2
<1>8. /\ rec.pc \in {"tests", "meta"} /\ (rec.pc = "meta" => Len(r) = 0)
      /\ rec.up = Len(uploads) + 1 /\ rec.step = 1
  OBVIOUS
<1> HIDE DEF f, e, rec
<1>9. /\ uploads' \in Seq(Upload) /\ Len(uploads') = Len(uploads) + 1 /\ uploads'[Len(uploads) + 1] = e
      /\ \A u \in 1..Len(uploads) : uploads'[u] = f[u]
  BY <1>1, <1>3, <1>6, <1>7
<1>10. UploadsKept
  <2>1. Len(uploads') >= Len(uploads)
    BY <1>1, <1>9
  <2>2. \A u \in 1..Len(uploads) :
          uploads'[u].task = uploads[u].task /\ uploads'[u].req = uploads[u].req
    BY <1>5, <1>9
  <2> QED
    BY <1>9, <2>1, <2>2 DEF UploadsKept
<1>11. \A u \in 1..Len(uploads) : /\ uploads'[u].status = uploads[u].status
                                  /\ u \in Running(t) => ~uploads'[u].solo
                                  /\ u \notin Running(t) => uploads'[u] = uploads[u]
  BY <1>5, <1>9
<1>12. /\ \A x \in Workers : x # w => http'[x] = http[x]
       /\ http'[w] = rec
  BY <1>1, <1>7
<1>13. last \in Nat
  BY <1>1
<1>14. http'[w].pc = "meta" => TestsOf(last)' = 0
  BY <1>3, <1>8, <1>9, <1>12 DEF TestsOf
<1>15. \A s \in Sessions :
          session'[s] = IF InCall(s) /\ session[s].task = t
                          THEN [session[s] EXCEPT !.calm = FALSE] ELSE session[s]
  BY <1>2
<1>16. Begins(w, t, last)
  BY <1>1, <1>3, <1>8, <1>9, <1>10, <1>11, <1>12, <1>14, <1>15 DEF Begins
<1> QED
  BY <1>13, <1>16

(* The tasks other than that of the new upload are not touched. *)
LEMMA BeginElsewhere ==
    ASSUME TypeOK, NEW w \in Workers, NEW t \in Tasks, NEW last \in Nat, Begins(w, t, last),
           NEW x \in Tasks, x # t
    PROVE  Untouched(x)
<1>1. Len(uploads) \in Nat /\ \A u \in Running(t) : uploads[u].task = t
  BY UploadsOfFacts
<1>2. \A u \in 1..Len(uploads) : uploads[u].task = x => uploads'[u] = uploads[u]
  BY <1>1 DEF Begins
<1>3. \A u \in 1..Len(uploads') : uploads'[u].task = x => u \in 1..Len(uploads)
  <2>1. \A u \in 1..Len(uploads') : u # last => u \in 1..Len(uploads)
    BY <1>1 DEF Begins
  <2> QED
    BY <2>1 DEF Begins
<1> QED
  BY <1>2, <1>3 DEF Untouched, Begins

LEMMA BeginUploadWorks ==
    ASSUME StorageInv, TypeOK', WriterInv, NEW w \in Workers, NEW t \in Tasks, NEW last \in Nat,
           Begins(w, t, last)
    PROVE  WriterInv'
<1>1. /\ TypeOK /\ Exclusive /\ Len(uploads) \in Nat /\ UploadsKept
      /\ \A x \in Workers : http[x].pc # "idle" =>
            http[x].up \in 1..Len(uploads) /\ uploads[http[x].up].status = "running"
  BY UploadsOfFacts DEF StorageInv, TypeOK, WriterInv, Exclusive, Begins
<1>2. /\ last \notin 1..Len(uploads) /\ last \in 1..Len(uploads')
      /\ \A u \in 1..Len(uploads') : u = last \/ u \in 1..Len(uploads)
      /\ \A u \in 1..Len(uploads) : u \in 1..Len(uploads') /\ ~(u > last) /\ ~(last <= u)
  BY <1>1 DEF Begins
<1>3. \A u \in 1..Len(uploads) :
         /\ uploads'[u].task = uploads[u].task /\ uploads'[u].status = uploads[u].status
         /\ uploads'[u].solo => uploads[u].solo
         /\ uploads'[u].solo => u \notin Running(t)
  BY <1>1 DEF Begins, UploadsKept
<1>4. Exclusive'
  <2>1. ASSUME NEW x \in Workers, http'[x].pc # "idle" PROVE uploads'[http'[x].up].status = "running"
    BY <1>1, <1>3, <2>1 DEF Begins
  <2>2. ASSUME NEW x \in Workers, NEW y \in Workers, x # y, http'[x].pc # "idle", http'[y].pc # "idle"
        PROVE  http'[x].up # http'[y].up
    <3>1. CASE x # w /\ y # w
      BY <1>1, <2>2, <3>1 DEF Begins, Exclusive
    <3>2. CASE x = w
      BY <1>1, <1>2, <2>2, <3>2 DEF Begins
    <3>3. CASE y = w
      BY <1>1, <1>2, <2>2, <3>3 DEF Begins
    <3> QED
      BY <3>1, <3>2, <3>3
  <2>3. ASSUME NEW u \in 1..Len(uploads'), NEW v \in 1..Len(uploads'),
               u # v, uploads'[u].task = uploads'[v].task, uploads'[u].status = "running",
               v > u \/ uploads'[v].status = "running"
        PROVE  ~uploads'[u].solo
    <3>1. CASE u = last
      <4>1. v \in 1..Len(uploads) /\ uploads'[v].status = "running" /\ uploads'[v].task = t
        BY <1>2, <2>3, <3>1 DEF Begins
      <4>2. v \in Running(t)
        BY <1>1, <1>3, <4>1, UploadsOfFacts
      <4> QED
        BY <3>1, <4>2 DEF Begins
    <3>2. CASE v = last /\ u # last
      <4>1. u \in 1..Len(uploads) /\ uploads'[u].task = t
        BY <1>2, <2>3, <3>2 DEF Begins
      <4>2. u \in Running(t)
        BY <1>1, <1>3, <2>3, <4>1, UploadsOfFacts
      <4> QED
        BY <1>3, <4>1, <4>2
    <3>3. CASE u # last /\ v # last
      <4>1. u \in 1..Len(uploads) /\ v \in 1..Len(uploads)
        BY <1>2, <3>3
      <4>2. uploads[u].task = uploads[v].task /\ uploads[u].status = "running"
            /\ (v > u \/ uploads[v].status = "running")
        BY <1>3, <2>3, <4>1
      <4>3. ~uploads[u].solo
        BY <1>1, <2>3, <4>1, <4>2 DEF Exclusive
      <4> QED
        BY <1>3, <4>1, <4>3
    <3> QED
      BY <3>1, <3>2, <3>3
  <2> QED
    BY <2>1, <2>2, <2>3 DEF Exclusive
<1>5. ASSUME NEW x \in Tasks, x # t PROVE Content(x)'
  <2>1. Untouched(x)
    BY <1>1, <1>5, BeginElsewhere
  <2>2. \A y \in Workers : http'[y].pc # "idle" /\ uploads'[http'[y].up].task = x => http'[y] = http[y]
    BY <1>5 DEF Begins
  <2> QED
    BY <1>1, <2>1, <2>2, UntouchedContent DEF WriterInv
<1>6. Content(t)'
  <2> SUFFICES ASSUME OneByOne(t)'
               PROVE  /\ \A key \in Keys : key.task = t => Len(testDocs'[key]) <= 1
                      /\ \A y \in Workers :
                            http'[y].pc # "idle" /\ uploads'[http'[y].up].task = t => Written(y)'
                      /\ \A v \in UploadsOf(t)' :
                            uploads'[v].status = "200" /\ (\A z \in UploadsOf(t)' : z <= v) => InPlace(v)'
    BY DEF Content
  <2>1. last \in UploadsOf(t)' /\ \A u \in UploadsOf(t) : u \in UploadsOf(t)' /\ u \in 1..Len(uploads)
    <3>1. uploads'[last].task = t
      BY DEF Begins
    <3> QED
      BY <1>1, <1>2, <1>3, <3>1, UploadsOfFacts, NewUploadsOfFacts
  <2>2. Running(t) = {}
    BY <2>1 DEF OneByOne, Begins
  <2>3. OneByOne(t)
    BY <1>3, <2>1 DEF OneByOne
  <2>4. \A key \in Keys : key.task = t => Len(testDocs'[key]) <= 1
    BY <2>3 DEF WriterInv, Content, Begins
  <2>5. ASSUME NEW y \in Workers, http'[y].pc # "idle", uploads'[http'[y].up].task = t
        PROVE  Written(y)'
    <3>1. y = w
      <4> SUFFICES ASSUME y # w PROVE FALSE
        OBVIOUS
      <4>1. http'[y] = http[y]
        BY DEF Begins
      <4>2. http[y].up \in 1..Len(uploads) /\ uploads[http[y].up].status = "running"
        BY <1>1, <2>5, <4>1
      <4>3. http[y].up \in Running(t)
        BY <1>1, <1>3, <2>5, <4>1, <4>2, UploadsOfFacts
      <4> QED
        BY <2>2, <4>3
    <3>2. http'[w].up = last /\ http'[w].step = 1 /\ http'[w].pc \in {"tests", "meta"}
      BY DEF Begins
    <3>3. 1..(1 - 1) = {} /\ 1..0 = {}
      OBVIOUS
    <3>4. CASE http'[w].pc = "meta"
      <4>1. TestsOf(last)' = 0
        BY <3>4 DEF Begins
      <4>2. Complete(last)'
        BY <3>3, <4>1 DEF Complete
      <4> QED
        BY <3>1, <3>2, <3>4, <4>2 DEF Written
    <3>5. CASE http'[w].pc = "tests"
      BY <3>1, <3>2, <3>3, <3>5 DEF Written
    <3> QED
      BY <3>2, <3>4, <3>5
  <2>6. ASSUME NEW v \in UploadsOf(t)', uploads'[v].status = "200", \A z \in UploadsOf(t)' : z <= v
        PROVE  FALSE
    <3>1. v \in 1..Len(uploads') /\ last <= v
      BY <1>1, <2>1, <2>6, NewUploadsOfFacts
    <3>2. v = last
      BY <1>2, <3>1
    <3> QED
      BY <2>6, <3>2 DEF Begins
  <2> QED
    BY <2>4, <2>5, <2>6
<1>7. ASSUME NEW x \in Tasks PROVE HasLast(x)'
  <2>1. \A u : u \in Accepted(x)' <=> u \in Accepted(x)
    <3>1. uploads'[last].status # "200"
      BY DEF Begins
    <3> QED
      BY <1>1, <1>2, <1>3, <3>1, UploadsOfFacts, NewUploadsOfFacts
  <2>2. Accepted(x)' = Accepted(x)
    BY <2>1
  <2> QED
    BY <2>2 DEF WriterInv, HasLast
<1> QED
  BY <1>4, <1>5, <1>6, <1>7 DEF WriterInv

LEMMA HttpCrashWorks ==
    ASSUME StorageInv, TypeOK', WriterInv, HttpCrash
    PROVE  WriterInv' /\ Still /\ UploadsKept
<1>1. /\ TypeOK /\ uploads \in Seq(Upload) /\ Len(uploads) \in Nat
      /\ testDocs' = testDocs /\ taskMeta' = taskMeta
  BY DEF StorageInv, TypeOK, Upload, HttpCrash
<1> DEFINE f == [u \in DOMAIN uploads |->
                   IF uploads[u].status = "running" THEN [uploads[u] EXCEPT !.status = "lost"]
                                                    ELSE uploads[u]]
<1>2. DOMAIN uploads = 1..Len(uploads) /\ \A u \in 1..Len(uploads) : uploads[u] \in Upload
  BY <1>1
<1>3. \A u \in 1..Len(uploads) :
         /\ f[u] \in Upload /\ f[u].task = uploads[u].task /\ f[u].req = uploads[u].req
         /\ f[u].solo = uploads[u].solo /\ f[u].status # "running"
         /\ f[u].status = "200" <=> uploads[u].status = "200"
         /\ uploads[u].status # "running" => f[u] = uploads[u]
  BY <1>2 DEF Upload
<1>4. f \in Seq(Upload) /\ Len(f) = Len(uploads)
  <2>1. f \in [1..Len(uploads) -> Upload]
    BY <1>2, <1>3
  <2> HIDE DEF f
  <2> QED
    BY <1>1, <2>1
<1>5. uploads' = f
  BY DEF HttpCrash
<1> HIDE DEF f
<1>6. UploadsKept /\ Len(uploads') = Len(uploads)
  BY <1>1, <1>3, <1>4, <1>5 DEF UploadsKept
<1>7. \A w \in Workers : http'[w].pc = "idle"
  BY DEF HttpCrash, Idle
<1>8. Exclusive'
  BY <1>3, <1>5, <1>6, <1>7 DEF Exclusive
<1>9. \A x : UploadsOf(x)' = UploadsOf(x) /\ Accepted(x)' = Accepted(x)
  <2> SUFFICES ASSUME NEW x PROVE UploadsOf(x)' = UploadsOf(x) /\ Accepted(x)' = Accepted(x)
    OBVIOUS
  <2>1. \A u : /\ u \in UploadsOf(x)' <=> u \in UploadsOf(x)
               /\ u \in Accepted(x)' <=> u \in Accepted(x)
    BY <1>1, <1>3, <1>5, <1>6, UploadsOfFacts, NewUploadsOfFacts
  <2> QED
    BY <2>1
<1>10. ASSUME NEW t \in Tasks PROVE Content(t)'
  <2> SUFFICES ASSUME OneByOne(t)'
               PROVE  /\ \A key \in Keys : key.task = t => Len(testDocs'[key]) <= 1
                      /\ \A v \in UploadsOf(t)' :
                            uploads'[v].status = "200" /\ (\A z \in UploadsOf(t)' : z <= v) => InPlace(v)'
    BY <1>7 DEF Content
  <2>1. OneByOne(t)
    <3>1. \A u \in UploadsOf(t) : uploads'[u].solo = uploads[u].solo
      BY <1>1, <1>3, <1>5, UploadsOfFacts
    <3> QED
      BY <1>9, <3>1 DEF OneByOne
  <2>2. \A key \in Keys : key.task = t => Len(testDocs'[key]) <= 1
    BY <1>1, <2>1 DEF WriterInv, Content
  <2>3. ASSUME NEW v \in UploadsOf(t)', uploads'[v].status = "200", \A z \in UploadsOf(t)' : z <= v
        PROVE  InPlace(v)'
    <3>1. v \in UploadsOf(t) /\ v \in 1..Len(uploads) /\ \A z \in UploadsOf(t) : z <= v
      BY <1>1, <1>9, <2>3, UploadsOfFacts
    <3>2. uploads[v].status = "200"
      BY <1>3, <1>5, <2>3, <3>1
    <3>3. InPlace(v)
      BY <2>1, <3>1, <3>2 DEF WriterInv, Content
    <3>4. uploads'[v].task = uploads[v].task /\ uploads'[v].req = uploads[v].req
      BY <1>3, <1>5, <3>1
    <3> QED
      BY <1>1, <3>3, <3>4 DEF InPlace, Complete, TestsOf
  <2> QED
    BY <2>2, <2>3
<1>11. \A t \in Tasks : HasLast(t)'
  BY <1>9 DEF WriterInv, HasLast
<1>12. Still
  <2> SUFFICES ASSUME NEW t \in Tasks, Running(t) = {} PROVE Untouched(t)
    BY DEF Still
  <2>1. \A u \in 1..Len(uploads) : uploads[u].task = t => uploads[u].status # "running"
    BY <1>1, UploadsOfFacts
  <2>2. \A u \in 1..Len(uploads) : uploads[u].task = t => uploads'[u] = uploads[u]
    BY <1>3, <1>5, <2>1
  <2> QED
    BY <1>1, <1>6, <2>2 DEF Untouched
<1> QED
  BY <1>6, <1>8, <1>10, <1>11, <1>12 DEF WriterInv

LEMMA ReadersWork ==
    ASSUME StorageInv, WriterInv, UNCHANGED <<testDocs, taskMeta, uploads, http>>
    PROVE  WriterInv'
<1>1. \A u : TestsOf(u)' = TestsOf(u) /\ \A k : KeyAt(u, k)' = KeyAt(u, k)
  BY DEF TestsOf, KeyAt
<1>2. \A t : UploadsOf(t)' = UploadsOf(t) /\ Accepted(t)' = Accepted(t) /\ (OneByOne(t)' <=> OneByOne(t))
  BY DEF UploadsOf, Accepted, OneByOne
<1>3. \A u : (Complete(u)' <=> Complete(u)) /\ (InPlace(u)' <=> InPlace(u))
  BY <1>1 DEF InPlace, Complete
<1>4. \A w \in Workers : Written(w)' <=> Written(w)
  BY <1>1, <1>3 DEF Written, CurrentKey
<1>5. Exclusive'
  BY DEF WriterInv, Exclusive
<1>6. \A t \in Tasks : Content(t)'
  BY <1>2, <1>3, <1>4 DEF WriterInv, Content
<1> QED
  BY <1>2, <1>5, <1>6 DEF WriterInv, HasLast

LEMMA InitWriter == Init => WriterInv
<1> SUFFICES ASSUME Init PROVE WriterInv
  OBVIOUS
<1>1. uploads = <<>> /\ \A w \in Workers : http[w].pc = "idle"
  BY DEF Init, Idle
<1>2. \A t : UploadsOf(t) = {} /\ Accepted(t) = {}
  BY <1>1 DEF UploadsOf, Accepted
<1>3. \A key \in Keys : Len(testDocs[key]) <= 1
  BY DEF Init
<1>4. 1..Len(uploads) = {}
  BY <1>1
<1>5. Exclusive
  BY <1>1, <1>4 DEF Exclusive
<1>6. \A t \in Tasks : Content(t) /\ HasLast(t)
  BY <1>1, <1>2, <1>3 DEF Content, HasLast
<1> QED
  BY <1>5, <1>6 DEF WriterInv

(* The steps of the workers other than the start of an upload, and a crash. *)
Works == \/ \E w \in Workers : \/ UpdateTest(w) \/ NoTestMatches(w) \/ InsertTest(w)
                               \/ UpsertTaskMetaData(w) \/ StorageError(w)
         \/ HttpCrash

LEMMA WorksStep ==
    ASSUME StorageInv, TypeOK', WriterInv, Works
    PROVE  WriterInv' /\ Still /\ UploadsKept /\ session' = session
<1>1. ASSUME NEW w \in Workers,
             \/ UpdateTest(w) \/ NoTestMatches(w) \/ InsertTest(w)
             \/ UpsertTaskMetaData(w) \/ StorageError(w)
      PROVE  WriterInv' /\ Still /\ UploadsKept
  BY <1>1, UpdateTestWorks, NoTestMatchesWorks, InsertTestWorks, UpsertTaskMetaDataWorks, StorageErrorWorks
<1>2. session' = session
  BY DEF Works, UpdateTest, NoTestMatches, InsertTest, UpsertTaskMetaData, StorageError, HttpCrash
<1> QED
  BY <1>1, <1>2, HttpCrashWorks DEF Works

LEMMA StepKinds ==
    ASSUME [Next]_vars
    PROVE  \/ \E w \in Workers : BeginUpload(w)
           \/ Works
           \/ UNCHANGED <<testDocs, taskMeta, uploads, http, session>>
           \/ \E s \in Sessions : GrpcStep(s) /\ UNCHANGED <<testDocs, taskMeta, uploads, http>>
<1>1. ASSUME NEW s \in Sessions, GrpcStep(s) PROVE UNCHANGED <<testDocs, taskMeta, uploads, http>>
  BY <1>1 DEF GrpcStep, GetScripts, OpenBatch, OpenUndefinedBatch, ReadDoc, CloseBatch, CallFails
<1>2. CASE UpsertBuild
  BY <1>2 DEF UpsertBuild
<1>3. CASE UNCHANGED vars
  BY <1>3 DEF vars
<1> QED
  BY <1>1, <1>2, <1>3 DEF Next, HttpStep, Works

LEMMA WriterStep == ASSUME StorageInv, StorageInv', WriterInv, [Next]_vars PROVE WriterInv'
<1>1. TypeOK /\ TypeOK'
  BY DEF StorageInv
<1>2. ASSUME NEW w \in Workers, BeginUpload(w) PROVE WriterInv'
  <2>1. \E t \in Tasks, last \in Nat : Begins(w, t, last)
    BY <1>1, <1>2, BeginFacts
  <2> QED
    BY <1>1, <2>1, BeginUploadWorks
<1> QED
  BY <1>1, <1>2, StepKinds, WorksStep, ReadersWork

LEMMA WriterInvariant == Spec => [](StorageInv /\ WriterInv)
<1>1. StorageInv /\ WriterInv /\ [Next]_vars => (StorageInv /\ WriterInv)'
  BY NextKeeps, WriterStep
<1> QED
  BY <1>1, InitStorage, InitWriter, PTL DEF Spec

(***************************************************************************)
(* Nothing in the collection makes a test unique, and UpsertTaskTests      *)
(* checks before it inserts; still uploads of a task that were made one at *)
(* a time never leave two documents for one test, whatever of them failed  *)
(* or was lost in a crash.                                                 *)
(***************************************************************************)
THEOREM OneDocumentPerTest == Spec => []NoDuplicateDocs
<1>1. StorageInv /\ WriterInv => NoDuplicateDocs
  <2> SUFFICES ASSUME WriterInv, NEW t \in Tasks, \A u \in UploadsOf(t) : uploads[u].solo,
                      NEW id \in TestIds, NEW type \in TestTypes
               PROVE  Len(testDocs[Key(t, id, type)]) <= 1
    BY DEF NoDuplicateDocs
  <2>1. Key(t, id, type) \in Keys /\ Key(t, id, type).task = t
    BY DEF Key, Keys
  <2>2. OneByOne(t)
    BY DEF OneByOne
  <2> QED
    BY <2>1, <2>2 DEF WriterInv, Content
<1> QED
  BY <1>1, WriterInvariant, PTL

----------------------------------------------------------------------------
(***************************************************************************)
(* What a testing processor is told by GetScripts and GetBatch, for any    *)
(* number of submissions, workers, tasks and uploads.                      *)
(***************************************************************************)
Phases == {"idle", "ready", "cursor", "done", "failed", "undefined"}
SomeTask == CHOOSE t \in Tasks : TRUE
TaskNames == Tasks \cup {SomeTask}
Documents == Keys \X (1..MaxUploads)
UploadIds == 0..MaxUploads
Cells == [TestTypes -> [TestIds -> UploadIds]]
Served == Seq(UploadIds \X UploadIds)

Session == [pc : Phases, task : TaskNames, batchCount : Nat, batchId : Nat, front : Nat, back : Nat,
            due : SUBSET Documents, seen : SUBSET Documents, cells : Cells, served : Served,
            calm : BOOLEAN, solo : BOOLEAN, base : UploadIds, torn : BOOLEAN]

Live(x) == x.pc \in {"ready", "cursor"}

(* The submissions AcceptedIsServed is about. *)
Sure(x) == x.calm /\ x.solo /\ ~x.torn

(* The batch the session asks for next, or is reading. *)
Batch(x) == taskMeta[x.task].batches[x.batchId + 1]

(* n tests of upload u *)
All(n, u) == [k \in 1..n |-> <<u, u>>]

Typed(x) ==
    /\ x \in Session
    /\ x.pc \notin {"idle", "failed"} => x.task \in Tasks
    /\ x.pc = "idle" => x.batchId = 0 /\ x.served = <<>>

NotBlank(x) == \A k \in 1..Len(x.served) : x.served[k][1] # 0 /\ x.served[k][2] # 0

(* There is metadata, and a batch left to ask for. *)
Asking(x) == Live(x) => x.batchId < x.batchCount /\ taskMeta[x.task].up # 0

(* Without a concurrent upload the batches are the ones that were announced. *)
Settled(x) == Live(x) /\ x.calm => /\ Running(x.task) = {}
                                   /\ Len(taskMeta[x.task].batches) = x.batchCount

(* The cursor is bound to deliver a document for every test of the batch. *)
Bound(x) ==
    /\ x.front \in TestIds /\ x.back \in TestIds /\ x.front <= x.back
    /\ \A id \in x.front..x.back, type \in TestTypes : <<Key(x.task, id, type), 1>> \in x.due
    /\ \A p \in x.seen : x.cells[p[1].type][p[1].id] # 0

Reading(x) == x.pc = "cursor" => Bound(x)

(* Undefined behaviour is the fault of an upload without tests. *)
Blamed(x) == x.pc = "undefined" /\ x.calm => \E u \in UploadsOf(x.task) : TestsOf(u) = 0

(* What is stored is the upload the session is to be served. *)
Basis(x) == x.base \in 1..Len(uploads) /\ uploads[x.base].task = x.task /\ InPlace(x.base)

(* The reply in the making holds tests of that upload. *)
Copying(x) ==
    /\ TestsOf(x.base) > 0 /\ x.front = FrontId(Batch(x)) /\ x.back = BackId(Batch(x))
    /\ \A p \in x.seen : x.cells[p[1].type][p[1].id] = x.base

Exact(x) ==
    Live(x) /\ Sure(x) =>
        /\ Basis(x)
        /\ TestsOf(x.base) > 0 => x.served = All(FrontId(Batch(x)) - 1, x.base)
        /\ x.pc = "cursor" => Copying(x)

Fulfilled(x) ==
    x.pc = "done" /\ Sure(x) => x.base \in 1..Len(uploads) /\ x.served = All(TestsOf(x.base), x.base)

Good(x) == /\ Typed(x) /\ NotBlank(x) /\ Asking(x) /\ Settled(x) /\ Reading(x) /\ Blamed(x)
           /\ Exact(x) /\ Fulfilled(x)

SessionInv == DOMAIN session = Sessions /\ \A s \in Sessions : Good(session[s])

----------------------------------------------------------------------------
(* Metadata is never removed. *)
MetaKept == \A t \in Tasks : taskMeta[t].up # 0 => taskMeta'[t].up # 0

(* A step that does not touch the task of a calm session. *)
LEMMA GoodKept ==
    ASSUME StorageInv, StorageInv', UploadsKept, MetaKept, NEW x, Good(x),
           Live(x) /\ x.calm => Untouched(x.task)
    PROVE  Good(x)'
<1>1. TypeOK /\ TypeOK' /\ Len(uploads) \in Nat /\ Len(uploads') \in Nat
  BY UploadsOfFacts, NewUploadsOfFacts DEF StorageInv
<1>2. \A u \in 1..Len(uploads) : u \in 1..Len(uploads') /\ TestsOf(u)' = TestsOf(u)
                                 /\ uploads'[u].task = uploads[u].task
  <2>1. \A u \in 1..Len(uploads) : u \in 1..Len(uploads')
    BY <1>1 DEF UploadsKept
  <2> QED
    BY <2>1 DEF UploadsKept, TestsOf
<1>3. Typed(x)' /\ NotBlank(x)' /\ Reading(x)'
  BY DEF Good, Typed, NotBlank, Reading, Bound
<1>4. Asking(x)'
  <2>1. Live(x) => x.task \in Tasks
    BY DEF Good, Typed, Live
  <2> QED
    BY <2>1 DEF Good, Asking, MetaKept, Live
<1>5. Settled(x)'
  <2> SUFFICES ASSUME Live(x), x.calm
               PROVE  Running(x.task)' = {} /\ Len(taskMeta'[x.task].batches) = x.batchCount
    BY DEF Settled, Live
  <2>1. Running(x.task) = {} /\ Len(taskMeta[x.task].batches) = x.batchCount
    BY DEF Good, Settled
  <2>2. Running(x.task)' = Running(x.task) /\ taskMeta'[x.task] = taskMeta[x.task]
    BY <1>1, UntouchedUploads DEF Untouched
  <2> QED
    BY <2>1, <2>2
<1>6. Blamed(x)'
  <2> SUFFICES ASSUME x.pc = "undefined", x.calm
               PROVE  \E u \in UploadsOf(x.task)' : TestsOf(u)' = 0
    BY DEF Blamed
  <2>1. PICK u \in UploadsOf(x.task) : TestsOf(u) = 0
    BY DEF Good, Blamed
  <2>2. u \in 1..Len(uploads) /\ uploads[u].task = x.task
    BY <1>1, <2>1, UploadsOfFacts
  <2>3. u \in UploadsOf(x.task)' /\ TestsOf(u)' = 0
    BY <1>2, <2>1, <2>2, NewUploadsOfFacts
  <2> QED
    BY <2>3
<1>7. Exact(x)'
  <2> SUFFICES ASSUME Live(x), Sure(x)
               PROVE  /\ Basis(x)'
                      /\ TestsOf(x.base)' > 0 => x.served = All(FrontId(Batch(x)') - 1, x.base)
                      /\ x.pc = "cursor" => Copying(x)'
    BY DEF Exact, Live, Sure, FrontId, All
  <2>1. Basis(x) /\ Untouched(x.task)
    BY DEF Good, Exact, Sure
  <2>2. Batch(x)' = Batch(x)
    BY <2>1 DEF Batch, Untouched
  <2>3. /\ x.base \in 1..Len(uploads) /\ uploads[x.base].task = x.task /\ InPlace(x.base)
        /\ x.base \in UploadsOf(x.task)
    BY <1>1, <2>1, UploadsOfFacts DEF Basis
  <2>4. InPlace(x.base)' <=> InPlace(x.base)
    BY <1>1, <2>1, <2>3, UntouchedComplete
  <2>5. Basis(x)'
    BY <1>2, <2>3, <2>4 DEF Basis
  <2>6. TestsOf(x.base)' = TestsOf(x.base)
    BY <1>2, <2>3
  <2>7. TestsOf(x.base) > 0 => x.served = All(FrontId(Batch(x)) - 1, x.base)
    BY DEF Good, Exact
  <2>8. x.pc = "cursor" => Copying(x)
    BY DEF Good, Exact
  <2>9. x.pc = "cursor" => Copying(x)'
    BY <2>2, <2>6, <2>8 DEF Copying, FrontId, BackId
  <2> QED
    BY <2>2, <2>5, <2>6, <2>7, <2>9
<1>8. Fulfilled(x)'
  <2> SUFFICES ASSUME x.pc = "done", Sure(x)
               PROVE  x.base \in 1..Len(uploads') /\ x.served = All(TestsOf(x.base)', x.base)
    BY DEF Fulfilled, Sure, All
  <2>1. x.base \in 1..Len(uploads) /\ x.served = All(TestsOf(x.base), x.base)
    BY DEF Good, Fulfilled
  <2>2. x.base \in 1..Len(uploads') /\ TestsOf(x.base)' = TestsOf(x.base)
    BY <1>2, <2>1
  <2> QED
    BY <2>1, <2>2
<1> QED
  BY <1>3, <1>4, <1>5, <1>6, <1>7, <1>8 DEF Good

(* An upload of its task has begun. *)
LEMMA DisturbedIsGood ==
    ASSUME NEW x, Good(x), Live(x)
    PROVE  Good([x EXCEPT !.calm = FALSE])
<1> PICK y : y = [x EXCEPT !.calm = FALSE]
  OBVIOUS
<1>1. x \in Session
  BY DEF Good, Typed
<1>2. /\ y \in Session /\ ~y.calm /\ y.pc = x.pc /\ y.task = x.task /\ y.batchCount = x.batchCount
      /\ y.batchId = x.batchId /\ y.front = x.front /\ y.back = x.back
      /\ y.due = x.due /\ y.seen = x.seen /\ y.cells = x.cells /\ y.served = x.served
  BY <1>1 DEF Session
<1>3. Typed(y) /\ NotBlank(y) /\ Asking(y) /\ Reading(y)
  BY <1>2 DEF Good, Typed, NotBlank, Asking, Reading, Bound, Live
<1>4. Settled(y) /\ Blamed(y) /\ Exact(y) /\ Fulfilled(y)
  BY <1>2 DEF Settled, Blamed, Exact, Fulfilled, Sure
<1> QED
  BY <1>3, <1>4 DEF Good

LEMMA WorksKeepMeta == ASSUME StorageInv, Works PROVE MetaKept
<1>1. TypeOK /\ DOMAIN taskMeta = Tasks
  BY DEF StorageInv, TypeOK
<1>2. ASSUME NEW w \in Workers, UpsertTaskMetaData(w) PROVE MetaKept
  <2> PICK u, t, m : /\ u = http[w].up /\ t = uploads[u].task
                     /\ m = [up |-> u, batches |-> SplitIntoBatches(uploads[u].req, BatchSize)]
    OBVIOUS
  <2>1. taskMeta' = [taskMeta EXCEPT ![t] = m] /\ m.up = u /\ http[w].pc = "meta"
    BY <1>2 DEF UpsertTaskMetaData
  <2>2. u \in 1..Len(uploads) /\ Len(uploads) \in Nat
    BY <1>1, <2>1, UploadsOfFacts DEF TypeOK
  <2>3. u # 0
    BY <2>2
  <2> QED
    BY <1>1, <2>1, <2>3 DEF MetaKept
<1>3. CASE taskMeta' = taskMeta
  BY <1>3 DEF MetaKept
<1> QED
  BY <1>2, <1>3 DEF Works, UpdateTest, NoTestMatches, InsertTest, StorageError, HttpCrash

LEMMA WorksKeepSessions ==
    ASSUME StorageInv, StorageInv', WriterInv, SessionInv, Works
    PROVE  SessionInv'
<1>1. Still /\ UploadsKept /\ session' = session /\ MetaKept
  BY WorksStep, WorksKeepMeta DEF StorageInv
<1>2. ASSUME NEW s \in Sessions PROVE Good(session[s])'
  <2> PICK x : x = session[s]
    OBVIOUS
  <2>1. Good(x)
    BY DEF SessionInv
  <2>2. Live(x) /\ x.calm => Untouched(x.task)
    BY <1>1, <2>1 DEF Good, Settled, Typed, Still, Live
  <2>3. Good(x)'
    BY <1>1, <2>1, <2>2, GoodKept
  <2> QED
    BY <1>1, <2>3
<1> QED
  BY <1>1, <1>2 DEF SessionInv

LEMMA BeginKeepsSessions ==
    ASSUME StorageInv, StorageInv', SessionInv, NEW w \in Workers, BeginUpload(w)
    PROVE  SessionInv'
<1>1. TypeOK /\ DOMAIN session' = Sessions
  BY DEF StorageInv, BeginUpload
<1>2. PICK t \in Tasks, last \in Nat : Begins(w, t, last)
  BY <1>1, BeginFacts
<1>3. UploadsKept /\ MetaKept
  BY <1>2 DEF Begins, MetaKept
<1>4. ASSUME NEW s \in Sessions PROVE Good(session[s])'
  <2> PICK x, y : x = session[s] /\ y = session'[s]
    OBVIOUS
  <2>1. Good(x) /\ y = IF Live(x) /\ x.task = t THEN [x EXCEPT !.calm = FALSE] ELSE x
    BY <1>2 DEF SessionInv, Begins, InCall, Live
  <2>2. CASE Live(x) /\ x.task = t
    <3>1. x \in Session /\ y = [x EXCEPT !.calm = FALSE]
      BY <2>1, <2>2 DEF Good, Typed
    <3>2. Good(y)
      BY <2>1, <2>2, <3>1, DisturbedIsGood
    <3>3. ~y.calm
      BY <3>1 DEF Session
    <3>4. Good(y)'
      BY <1>3, <3>2, <3>3, GoodKept
    <3> QED
      BY <3>4
  <2>3. CASE ~(Live(x) /\ x.task = t)
    <3>1. y = x
      BY <2>1, <2>3
    <3>2. Live(x) => x.task \in Tasks /\ x.task # t
      BY <2>1, <2>3 DEF Good, Typed, Live
    <3>3. Live(x) => Untouched(x.task)
      BY <1>1, <1>2, <3>2, BeginElsewhere
    <3>4. Good(x)'
      BY <1>3, <2>1, <3>3, GoodKept
    <3> QED
      BY <3>1, <3>4
  <2> QED
    BY <2>2, <2>3
<1> QED
  BY <1>1, <1>4 DEF SessionInv

----------------------------------------------------------------------------
(* The gRPC calls change a session; the database they leave alone. *)
LEMMA ReadersKeepGood ==
    ASSUME StorageInv, StorageInv', UNCHANGED <<testDocs, taskMeta, uploads, http>>, NEW x, Good(x)
    PROVE  Good(x)'
<1>1. uploads \in Seq(Upload) /\ Len(uploads) \in Nat
  BY DEF StorageInv, TypeOK, Upload
<1>2. UploadsKept
  BY <1>1 DEF UploadsKept
<1>3. MetaKept /\ Untouched(x.task)
  BY DEF MetaKept, Untouched
<1> QED
  BY <1>2, <1>3, GoodKept

LEMMA CallStep ==
    ASSUME StorageInv, StorageInv', SessionInv, UNCHANGED <<testDocs, taskMeta, uploads, http>>,
           NEW s \in Sessions, NEW y, Good(y), session' = [session EXCEPT ![s] = y]
    PROVE  SessionInv'
<1>1. DOMAIN session = Sessions /\ \A x \in Sessions : Good(session[x])
  BY DEF SessionInv
<1>2. DOMAIN session' = Sessions /\ \A x \in Sessions : Good(session'[x])
  <2>1. session'[s] = y /\ \A x \in Sessions : x # s => session'[x] = session[x]
    BY <1>1
  <2> QED
    BY <1>1, <2>1
<1>3. ASSUME NEW x \in Sessions PROVE Good(session[x])'
  <2> PICK z : z = session'[x]
    OBVIOUS
  <2>1. Good(z)
    BY <1>2
  <2>2. Good(z)'
    BY <2>1, ReadersKeepGood
  <2> QED
    BY <2>2
<1> QED
  BY <1>2, <1>3 DEF SessionInv

LEMMA NewSessionFacts ==
    /\ NewSession \in Session /\ NewSession.pc = "idle" /\ NewSession.batchId = 0
    /\ NewSession.served = <<>>
<1>1. NoCells \in Cells
  BY BoundsAssumption DEF NoCells, Cells, UploadIds
<1>2. /\ NewSession.task \in TaskNames /\ NewSession.pc \in Phases /\ NewSession.cells \in Cells
      /\ NewSession.served \in Served /\ NewSession.base \in UploadIds
      /\ NewSession.due \in SUBSET Documents /\ NewSession.seen \in SUBSET Documents
  BY <1>1, BoundsAssumption DEF NewSession, TaskNames, SomeTask, Phases, Served, UploadIds
<1> QED
  BY <1>2 DEF NewSession, Session

LEMMA FailedIsGood == Good([NewSession EXCEPT !.pc = "failed"])
<1> PICK y, x : y = [NewSession EXCEPT !.pc = "failed"] /\ x = NewSession
  OBVIOUS
<1>1. "failed" \in Phases
  BY DEF Phases
<1>2. y \in Session /\ y.pc = "failed" /\ y.served = <<>>
  BY <1>1, NewSessionFacts DEF Session
<1>3. Typed(y) /\ NotBlank(y)
  BY <1>2 DEF Typed, NotBlank
<1> QED
  BY <1>2, <1>3 DEF Good, Asking, Settled, Reading, Blamed, Exact, Fulfilled, Live

LEMMA InitSessions == Init => SessionInv
<1> SUFFICES ASSUME Init, NEW s \in Sessions PROVE DOMAIN session = Sessions /\ Good(session[s])
  BY DEF SessionInv, Init
<1> PICK x : x = NewSession
  OBVIOUS
<1>1. x \in Session /\ x.pc = "idle" /\ x.batchId = 0 /\ x.served = <<>>
  BY NewSessionFacts
<1>2. Typed(x) /\ NotBlank(x)
  BY <1>1 DEF Typed, NotBlank
<1>3. Good(x)
  BY <1>1, <1>2 DEF Good, Asking, Settled, Reading, Blamed, Exact, Fulfilled, Live
<1> QED
  BY <1>3 DEF Init

----------------------------------------------------------------------------
(* What SplitFacts says of a batch in the database. *)
IsSplit(bs, n) ==
    /\ bs \in Seq(Seq(Nat)) /\ Len(bs) \in Nat /\ Len(bs) > 0 /\ n \in Nat
    /\ n = 0 => Len(bs) = 1 /\ bs[1] = <<>>
    /\ n > 0 =>
         /\ FrontId(bs[1]) = 1 /\ BackId(bs[Len(bs)]) = n
         /\ \A b \in 1..Len(bs) :
               /\ Len(bs[b]) > 0 /\ FrontId(bs[b]) \in 1..n /\ BackId(bs[b]) \in 1..n
               /\ FrontId(bs[b]) <= BackId(bs[b])
         /\ \A b \in 1..Len(bs) - 1 : FrontId(bs[b + 1]) = BackId(bs[b]) + 1

LEMMA RunFacts ==
    ASSUME NEW batch \in Seq(Nat), IsRun(batch)
    PROVE  FrontId(batch) <= BackId(batch)
<1>1. Len(batch) \in Nat /\ Len(batch) > 0
  BY DEF IsRun
<1>2. Len(batch) \in 1..Len(batch) /\ 1 \in 1..Len(batch)
  BY <1>1
<1>3. batch[1] \in Nat /\ batch[Len(batch)] = FrontId(batch) + (Len(batch) - 1)
  BY <1>2 DEF IsRun
<1> QED
  BY <1>1, <1>3 DEF FrontId, BackId

LEMMA SeqOfSeqs ==
    ASSUME NEW bs \in Seq(Seq(Nat))
    PROVE  Len(bs) \in Nat /\ \A b \in 1..Len(bs) : bs[b] \in Seq(Nat)
  OBVIOUS

LEMMA MetaFacts ==
    ASSUME StorageInv, NEW t \in Tasks, taskMeta[t].up # 0, NEW u, u = taskMeta[t].up
    PROVE  /\ u \in 1..Len(uploads) /\ uploads[u].task = t /\ u \in UploadsOf(t)
           /\ TestsOf(u) \in Nat /\ TestsOf(u) <= MaxTests
           /\ IsSplit(taskMeta[t].batches, TestsOf(u))
<1>1. /\ TypeOK /\ u \in 1..Len(uploads) /\ uploads[u].task = t
      /\ taskMeta[t].batches = SplitIntoBatches(uploads[u].req, BatchSize)
  BY DEF StorageInv, TaskInv
<1> PICK r, bs, n : r = uploads[u].req /\ bs = SplitIntoBatches(r, BatchSize) /\ n = Len(r)
  OBVIOUS
<1>2. r \in Requests /\ n \in Nat /\ n = TestsOf(u) /\ n <= MaxTests /\ bs = taskMeta[t].batches
  BY <1>1, UploadFacts DEF TestsOf
<1>3. /\ bs \in Seq(Seq(Nat)) /\ CoversInOrder(bs, n)
      /\ \A b \in 1..Len(bs) : n > 0 => FrontId(bs[b]) \in 1..n /\ BackId(bs[b]) \in 1..n
  BY <1>2, SplitFacts
<1>4. Len(bs) \in Nat /\ \A b \in 1..Len(bs) : bs[b] \in Seq(Nat)
  BY <1>3, SeqOfSeqs, Zenon
<1>5. CASE n = 0
  <2>1. bs = << <<>> >>
    BY <1>3, <1>5 DEF CoversInOrder
  <2>2. Len(bs) = 1 /\ bs[1] = <<>>
    BY <2>1
  <2>3. IsSplit(bs, n)
    BY <1>3, <1>4, <1>5, <2>2 DEF IsSplit
  <2> QED
    BY <1>1, <1>2, <2>3, UploadsOfFacts
<1>6. CASE n > 0
  <2>1. /\ Len(bs) > 0 /\ FrontId(bs[1]) = 1 /\ BackId(bs[Len(bs)]) = n
        /\ \A b \in 1..Len(bs) : IsRun(bs[b])
        /\ \A b \in 1..Len(bs) - 1 : FrontId(bs[b + 1]) = BackId(bs[b]) + 1
    BY <1>3, <1>6 DEF CoversInOrder
  <2>2. \A b \in 1..Len(bs) : Len(bs[b]) > 0 /\ FrontId(bs[b]) <= BackId(bs[b])
    BY <1>4, <2>1, RunFacts DEF IsRun
  <2>3. IsSplit(bs, n)
    BY <1>2, <1>3, <1>4, <1>6, <2>1, <2>2 DEF IsSplit
  <2> QED
    BY <1>1, <1>2, <2>3, UploadsOfFacts
<1> QED
  BY <1>2, <1>5, <1>6

(* The last accepted upload, if there is one. *)
LEMMA LastAcceptedFacts ==
    ASSUME TypeOK, NEW t \in Tasks, HasLast(t)
    PROVE  /\ LastAccepted(t) \in UploadIds
           /\ LastAccepted(t) # 0 => LastAccepted(t) \in Accepted(t)
           /\ LastAccepted(t) = 0 \/ LastAccepted(t) \in 1..Len(uploads)
<1>1. Len(uploads) \in Nat /\ Len(uploads) <= MaxUploads /\ MaxUploads \in Nat
  BY UploadsOfFacts, BoundsAssumption DEF TypeOK
<1>2. \A u \in Accepted(t) : u \in 1..Len(uploads)
  BY UploadsOfFacts
<1>3. LastAccepted(t) = IF Accepted(t) = {} THEN 0
                        ELSE CHOOSE u \in Accepted(t) : \A v \in Accepted(t) : v <= u
  BY DEF LastAccepted, Accepted
<1>4. CASE Accepted(t) = {}
  BY <1>1, <1>3, <1>4 DEF UploadIds
<1>5. CASE Accepted(t) # {}
  <2>1. LastAccepted(t) \in Accepted(t)
    BY <1>3, <1>5 DEF HasLast
  <2>2. LastAccepted(t) \in 1..Len(uploads)
    BY <1>2, <2>1
  <2> QED
    BY <1>1, <2>1, <2>2 DEF UploadIds
<1> QED
  BY <1>4, <1>5

LEMMA AllNone == ASSUME NEW u PROVE All(0, u) = <<>>
<1>1. 1..0 = {}
  OBVIOUS
<1> QED
  BY <1>1 DEF All

(* GetScripts of a session that will be served exactly the last accepted upload. *)
LEMMA ScriptsBasis ==
    ASSUME StorageInv, WriterInv, NEW t \in Tasks, taskMeta[t].up # 0, NEW u, u = LastAccepted(t),
           OneByOne(t), ~\E v \in UploadsOf(t) : v > u
    PROVE  u \in 1..Len(uploads) /\ uploads[u].task = t /\ InPlace(u)
<1>1. TypeOK /\ HasLast(t) /\ Content(t) /\ Len(uploads) \in Nat
  BY UploadsOfFacts DEF StorageInv, WriterInv
<1>2. taskMeta[t].up \in UploadsOf(t) /\ taskMeta[t].up \in 1..Len(uploads)
  BY MetaFacts
<1>3. u # 0
  <2>1. taskMeta[t].up > 0
    BY <1>1, <1>2
  <2> QED
    BY <1>2, <2>1
<1>4. u \in Accepted(t) /\ u \in 1..Len(uploads)
  BY <1>1, <1>3, LastAcceptedFacts
<1>5. uploads[u].task = t /\ uploads[u].status = "200" /\ u \in UploadsOf(t)
  BY <1>1, <1>4, UploadsOfFacts
<1>6. \A v \in UploadsOf(t) : v <= u
  <2>1. \A v \in UploadsOf(t) : v \in 1..Len(uploads)
    BY <1>1, UploadsOfFacts
  <2> QED
    BY <1>1, <1>4, <2>1
<1>7. InPlace(u)
  BY <1>1, <1>5, <1>6 DEF Content
<1> QED
  BY <1>4, <1>5, <1>7

LEMMA GetScriptsIsGood ==
    ASSUME StorageInv, WriterInv, NEW x, Good(x), x.pc = "idle",
           NEW t \in Tasks, taskMeta[t].up # 0, NEW y,
           y = [x EXCEPT !.pc = "ready", !.task = t, !.batchCount = Len(taskMeta[t].batches),
                         !.calm = (Running(t) = {}),
                         !.solo = \A u \in UploadsOf(t) : uploads[u].solo,
                         !.base = LastAccepted(t),
                         !.torn = \E u \in UploadsOf(t) : u > LastAccepted(t)]
    PROVE  Good(y)
<1> PICK m, bs, n, base : /\ m = taskMeta[t].up /\ bs = taskMeta[t].batches /\ n = Len(bs)
                          /\ base = LastAccepted(t)
  OBVIOUS
<1>1. TypeOK /\ HasLast(t) /\ Content(t)
  BY DEF StorageInv, WriterInv
<1>2. IsSplit(bs, TestsOf(m)) /\ n \in Nat /\ n > 0
  BY MetaFacts DEF IsSplit
<1>3. base \in UploadIds
  BY <1>1, LastAcceptedFacts
<1>4. x \in Session /\ x.batchId = 0 /\ x.served = <<>>
  BY DEF Good, Typed
<1>5. "ready" \in Phases /\ t \in TaskNames
  BY DEF Phases, TaskNames
<1>6. y \in Session
  BY <1>2, <1>3, <1>4, <1>5, ZenonT(60) DEF Session
<1>7. /\ y.pc = "ready" /\ y.task = t /\ y.batchCount = n /\ y.batchId = x.batchId
      /\ y.calm <=> Running(t) = {}
      /\ y.served = x.served /\ y.base = base
  BY <1>4 DEF Session
<1>8. y.solo <=> OneByOne(t)
  BY <1>4 DEF Session, OneByOne
<1>9. y.torn <=> \E u \in UploadsOf(t) : u > base
  BY <1>4 DEF Session
<1>10. Typed(y) /\ NotBlank(y) /\ Asking(y) /\ Settled(y) /\ Reading(y) /\ Blamed(y) /\ Fulfilled(y)
  <2>1. y.batchId < y.batchCount
    BY <1>2, <1>4, <1>7
  <2>2. NotBlank(y)
    BY <1>4, <1>7 DEF NotBlank
  <2> QED
    BY <1>6, <1>7, <2>1, <2>2 DEF Typed, Asking, Settled, Reading, Blamed, Fulfilled
<1>11. Exact(y)
  <2> SUFFICES ASSUME Sure(y)
               PROVE  Basis(y) /\ (TestsOf(base) > 0 => y.served = All(FrontId(Batch(y)) - 1, base))
    BY <1>7 DEF Exact
  <2>1. base \in 1..Len(uploads) /\ uploads[base].task = t /\ InPlace(base)
    BY <1>8, <1>9, ScriptsBasis DEF Sure
  <2>2. Basis(y)
    BY <1>7, <2>1 DEF Basis
  <2>3. ASSUME TestsOf(base) > 0 PROVE y.served = All(FrontId(Batch(y)) - 1, base)
    <3>1. m = base
      BY <2>1 DEF InPlace
    <3>2. FrontId(bs[1]) = 1
      BY <1>2, <2>3, <3>1 DEF IsSplit
    <3>3. 0 + 1 = 1 /\ 1 - 1 = 0
      OBVIOUS
    <3>4. Batch(y) = bs[1]
      BY <1>4, <1>7, <3>3 DEF Batch
    <3>5. FrontId(Batch(y)) - 1 = 0
      BY <3>2, <3>3, <3>4
    <3>6. y.served = <<>>
      BY <1>4, <1>7
    <3> QED
      BY <3>5, <3>6, AllNone
  <2> QED
    BY <2>2, <2>3
<1> QED
  BY <1>10, <1>11 DEF Good

LEMMA GetScriptsKeeps ==
    ASSUME StorageInv, StorageInv', WriterInv, SessionInv, NEW s \in Sessions, GetScripts(s)
    PROVE  SessionInv'
<1> PICK x : x = session[s]
  OBVIOUS
<1>1. Good(x) /\ x.pc = "idle" /\ UNCHANGED <<testDocs, taskMeta, uploads, http>>
  BY DEF SessionInv, GetScripts
<1>2. CASE Fails(s)
  BY <1>1, <1>2, FailedIsGood, CallStep DEF Fails
<1>3. ASSUME NEW t \in Tasks, taskMeta[t].up # 0, NEW y,
             y = [x EXCEPT !.pc = "ready", !.task = t, !.batchCount = Len(taskMeta[t].batches),
                           !.calm = (Running(t) = {}),
                           !.solo = \A u \in UploadsOf(t) : uploads[u].solo,
                           !.base = LastAccepted(t),
                           !.torn = \E u \in UploadsOf(t) : u > LastAccepted(t)],
             session' = [session EXCEPT ![s] = y]
      PROVE  SessionInv'
  <2>1. Good(y)
    BY <1>1, <1>3, GetScriptsIsGood
  <2> QED
    BY <1>1, <1>3, <2>1, CallStep
<1> QED
  BY <1>2, <1>3, ZenonT(60) DEF GetScripts

LEMMA CallFailsKeeps ==
    ASSUME StorageInv, StorageInv', SessionInv, NEW s \in Sessions, CallFails(s)
    PROVE  SessionInv'
  BY FailedIsGood, CallStep DEF CallFails, Fails

(* The batch at hand of a session, and the upload it belongs to. *)
LEMMA BatchFacts ==
    ASSUME StorageInv, NEW x, Good(x), Live(x),
           NEW u, u = taskMeta[x.task].up, NEW bs, bs = taskMeta[x.task].batches,
           NEW b, b = x.batchId + 1
    PROVE  /\ x.task \in Tasks /\ taskMeta[x.task].up # 0 /\ IsSplit(bs, TestsOf(u))
           /\ u \in 1..Len(uploads) /\ uploads[u].task = x.task /\ u \in UploadsOf(x.task)
           /\ TestsOf(u) \in Nat /\ TestsOf(u) <= MaxTests
           /\ b \in Nat /\ b > 0 /\ Batch(x) = bs[b]
           /\ x.batchId < Len(bs) => b \in 1..Len(bs)
<1>1. x.task \in Tasks /\ taskMeta[x.task].up # 0 /\ x \in Session
  BY DEF Good, Typed, Asking, Live
<1>2. x.batchId \in Nat
  BY <1>1 DEF Session
<1>3. /\ IsSplit(bs, TestsOf(u)) /\ u \in 1..Len(uploads) /\ uploads[u].task = x.task
      /\ u \in UploadsOf(x.task) /\ TestsOf(u) \in Nat /\ TestsOf(u) <= MaxTests
  BY <1>1, MetaFacts
<1>4. Len(bs) \in Nat
  BY <1>3 DEF IsSplit
<1> QED
  BY <1>1, <1>2, <1>3, <1>4 DEF Batch

(* The ids from the front to the back of a batch are ids of tests of the upload. *)
LEMMA IdsOfRun ==
    ASSUME NEW n \in Nat, n <= MaxTests, NEW front \in 1..n, NEW back \in 1..n
    PROVE  /\ front \in TestIds /\ back \in TestIds /\ front \in Nat /\ back \in Nat
           /\ \A id \in front..back : id \in 1..n /\ id \in TestIds
  BY BoundsAssumption DEF TestIds

LEMMA NonzeroIsPositive == ASSUME NEW n \in Nat, n # 0 PROVE n > 0
  OBVIOUS

(* An output comes after the inputs in the order of the insertions. *)
LEMMA SecondHalf ==
    ASSUME NEW n \in Nat, NEW id \in 1..n, NEW k, k = id + n
    PROVE  k \in 1..(2 * n) /\ ~(k <= n) /\ k - n = id
  OBVIOUS

LEMMA NoneOrOne == ASSUME NEW len \in Nat, len <= 1 PROVE len = 0 \/ len = 1
  OBVIOUS

LEMMA BetweenTwo ==
    ASSUME NEW n \in Nat, NEW front \in 1..n, NEW back \in 1..n, NEW id \in front..back
    PROVE  id \in 1..n
  OBVIOUS

LEMMA FirstIsWithin ==
    ASSUME NEW len \in Nat, NEW max \in Nat, NEW u \in 1..len, len <= max
    PROVE  1 \in 1..max
  OBVIOUS

LEMMA OpenBatchIsGood ==
    ASSUME StorageInv, NEW x, Good(x), x.pc = "ready",
           x.batchId < Len(taskMeta[x.task].batches), Len(Batch(x)) > 0,
           NEW front, front = FrontId(Batch(x)), NEW back, back = BackId(Batch(x)), NEW y,
           y = [x EXCEPT !.pc = "cursor", !.front = front, !.back = back,
                         !.due = DocsBetween(x.task, front, back),
                         !.seen = {}, !.cells = NoCells]
    PROVE  Good(y)
<1> PICK u, bs, b, n, due :
      /\ u = taskMeta[x.task].up /\ bs = taskMeta[x.task].batches /\ b = x.batchId + 1
      /\ n = TestsOf(u) /\ due = DocsBetween(x.task, front, back)
  OBVIOUS
<1>1. Live(x) /\ x \in Session
  BY DEF Live, Good, Typed
<1>2. /\ x.task \in Tasks /\ taskMeta[x.task].up # 0 /\ IsSplit(bs, n)
      /\ u \in 1..Len(uploads) /\ uploads[u].task = x.task
      /\ n \in Nat /\ n <= MaxTests /\ Batch(x) = bs[b] /\ b \in 1..Len(bs)
  BY <1>1, BatchFacts
<1>3. TypeOK /\ Stored(u)
  BY <1>2 DEF StorageInv, TaskInv
<1>4. n > 0
  <2> SUFFICES ASSUME n = 0 PROVE FALSE
    BY <1>2, NonzeroIsPositive, Zenon
  <2>1. Len(bs) = 1 /\ bs[1] = <<>>
    BY <1>2 DEF IsSplit
  <2>2. b = 1
    BY <1>2, <2>1
  <2>3. Len(bs[b]) = 0
    BY <2>1, <2>2
  <2> QED
    BY <1>2, <2>3
<1>5. front \in 1..n /\ back \in 1..n /\ front <= back
  BY <1>2, <1>4 DEF IsSplit
<1>6. front \in TestIds /\ back \in TestIds /\ front \in Nat /\ back \in Nat
      /\ \A id \in front..back : id \in 1..n /\ id \in TestIds
  <2>1. n \in Nat /\ n <= MaxTests
    BY <1>2
  <2> QED
    BY <1>5, <2>1, IdsOfRun
<1>7. due \in SUBSET Documents
  BY DEF DocsBetween, Documents
<1>8. NoCells \in Cells
  BY BoundsAssumption DEF NoCells, Cells, UploadIds
<1>9. "cursor" \in Phases /\ {} \in SUBSET Documents
  BY DEF Phases
<1>10. y \in Session
  BY <1>1, <1>6, <1>7, <1>8, <1>9 DEF Session
<1>11. /\ y.pc = "cursor" /\ y.task = x.task /\ y.batchCount = x.batchCount /\ y.batchId = x.batchId
       /\ y.front = front /\ y.back = back /\ y.due = due /\ y.seen = {}
       /\ y.served = x.served /\ y.base = x.base
       /\ y.calm = x.calm /\ y.solo = x.solo /\ y.torn = x.torn
  BY <1>1 DEF Session
<1>12. ASSUME NEW id \in front..back, NEW type \in TestTypes
       PROVE  <<Key(x.task, id, type), 1>> \in due
  <2> PICK key : key = Key(x.task, id, type)
    OBVIOUS
  <2>1. key \in Keys /\ key.task = x.task /\ key.id = id
    BY <1>2, <1>6 DEF Key, Keys
  <2>2. testDocs[key] # <<>>
    BY <1>2, <1>3, <1>6 DEF Stored
  <2>3. testDocs[key] \in Seq(1..MaxUploads)
    BY <1>3, <2>1 DEF TypeOK
  <2>4. 1 <= Len(testDocs[key])
    BY <2>2, <2>3
  <2>5. 1 \in 1..MaxUploads
    <3>1. Len(uploads) <= MaxUploads /\ Len(uploads) \in Nat
      BY <1>3, UploadsOfFacts DEF TypeOK
    <3>2. u \in 1..Len(uploads) /\ MaxUploads \in Nat
      BY <1>2, BoundsAssumption
    <3> QED
      BY <3>1, <3>2, FirstIsWithin
  <2>6. front <= id /\ id <= back
    BY <1>6
  <2>7. <<key, 1>> \in Keys \X (1..MaxUploads) /\ <<key, 1>>[1] = key /\ <<key, 1>>[2] = 1
    BY <2>1, <2>5
  <2>8. <<key, 1>> \in DocsBetween(x.task, front, back)
    BY <2>1, <2>4, <2>6, <2>7, Zenon DEF DocsBetween
  <2> QED
    BY <2>8
<1>13. Reading(y)
  BY <1>5, <1>6, <1>11, <1>12 DEF Reading, Bound
<1>14. Typed(y) /\ NotBlank(y) /\ Asking(y) /\ Settled(y) /\ Blamed(y) /\ Fulfilled(y)
  BY <1>1, <1>10, <1>11 DEF Good, Typed, NotBlank, Asking, Settled, Blamed, Fulfilled, Live
<1>15. Exact(y)
  <2> SUFFICES ASSUME Sure(y)
               PROVE  /\ Basis(y) /\ Copying(y)
                      /\ TestsOf(y.base) > 0 => y.served = All(FrontId(Batch(y)) - 1, y.base)
    BY DEF Exact
  <2>1. Batch(y) = Batch(x) /\ Sure(x)
    BY <1>11 DEF Batch, Sure
  <2>2. /\ Basis(x)
        /\ TestsOf(x.base) > 0 => x.served = All(FrontId(Batch(x)) - 1, x.base)
    BY <1>1, <2>1 DEF Good, Exact
  <2>3. x.base = u
    BY <2>2 DEF Basis, InPlace
  <2>4. Copying(y)
    BY <1>4, <1>11, <2>1, <2>3 DEF Copying
  <2> QED
    BY <1>11, <2>1, <2>2, <2>4 DEF Basis
<1> QED
  BY <1>13, <1>14, <1>15 DEF Good

LEMMA OpenBatchKeeps ==
    ASSUME StorageInv, StorageInv', SessionInv, NEW s \in Sessions, OpenBatch(s)
    PROVE  SessionInv'
<1> PICK x, front, back :
      x = session[s] /\ front = FrontId(Batch(x)) /\ back = BackId(Batch(x))
  OBVIOUS
<1> PICK y : y = [x EXCEPT !.pc = "cursor", !.front = front, !.back = back,
                           !.due = DocsBetween(x.task, front, back),
                           !.seen = {}, !.cells = NoCells]
  OBVIOUS
<1>1. /\ Good(x) /\ x.pc = "ready" /\ UNCHANGED <<testDocs, taskMeta, uploads, http>>
      /\ x.batchId < Len(taskMeta[x.task].batches) /\ Len(Batch(x)) > 0
  BY DEF SessionInv, OpenBatch, BatchDefined, Batches, Batch
<1>2. session' = [session EXCEPT ![s] = y]
  BY Zenon DEF OpenBatch, Batches, Batch
<1>3. Good(y)
  BY <1>1, OpenBatchIsGood
<1> QED
  BY <1>1, <1>2, <1>3, CallStep

(* A batch that is not defined is the empty one, if it was announced. *)
LEMMA UndefinedIsGood ==
    ASSUME StorageInv, NEW x, Good(x), x.pc = "ready",
           ~(x.batchId < Len(taskMeta[x.task].batches) /\ Len(Batch(x)) > 0),
           NEW y, y = [x EXCEPT !.pc = "undefined"]
    PROVE  Good(y)
<1> PICK u, bs, b : u = taskMeta[x.task].up /\ bs = taskMeta[x.task].batches /\ b = x.batchId + 1
  OBVIOUS
<1>1. Live(x) /\ x \in Session /\ x.batchId < x.batchCount
  BY DEF Live, Good, Typed, Asking
<1>2. "undefined" \in Phases
  BY DEF Phases
<1>3. y \in Session /\ y.pc = "undefined" /\ y.task = x.task /\ y.calm = x.calm /\ y.served = x.served
  BY <1>1, <1>2 DEF Session
<1>4. /\ x.task \in Tasks /\ IsSplit(bs, TestsOf(u)) /\ u \in UploadsOf(x.task)
      /\ TestsOf(u) \in Nat /\ Batch(x) = bs[b]
      /\ x.batchId < Len(bs) => b \in 1..Len(bs)
  BY <1>1, BatchFacts
<1>5. Blamed(y)
  <2> SUFFICES ASSUME x.calm PROVE TestsOf(u) = 0
    BY <1>3, <1>4 DEF Blamed
  <2>1. Len(bs) = x.batchCount
    BY <1>1 DEF Good, Settled
  <2>2. x.batchId < Len(bs) /\ b \in 1..Len(bs)
    BY <1>1, <1>4, <2>1
  <2>3. TestsOf(u) > 0 => Len(bs[b]) > 0
    BY <1>4, <2>2 DEF IsSplit
  <2>4. ~(TestsOf(u) > 0)
    BY <1>4, <2>2, <2>3
  <2> QED
    BY <1>4, <2>4
<1>6. Typed(y) /\ NotBlank(y)
  BY <1>3, <1>4 DEF Good, Typed, NotBlank
<1> QED
  BY <1>3, <1>5, <1>6 DEF Good, Asking, Settled, Reading, Exact, Fulfilled, Live

LEMMA OpenUndefinedBatchKeeps ==
    ASSUME StorageInv, StorageInv', SessionInv, NEW s \in Sessions, OpenUndefinedBatch(s)
    PROVE  SessionInv'
<1>1. PICK died \in BOOLEAN :
         session' = [x \in Sessions |->
                       CASE x = s -> [session[x] EXCEPT !.pc = "undefined"]
                         [] x # s /\ died /\ session[x].pc = "cursor" ->
                              [NewSession EXCEPT !.pc = "failed"]
                         [] OTHER -> session[x]]
  BY DEF OpenUndefinedBatch
<1>2. UNCHANGED <<testDocs, taskMeta, uploads, http>> /\ DOMAIN session' = Sessions
  BY <1>1 DEF OpenUndefinedBatch
<1>3. ASSUME NEW x \in Sessions PROVE Good(session[x])'
  <2> PICK z : z = session'[x]
    OBVIOUS
  <2>1. CASE x = s
    <3>1. z = [session[s] EXCEPT !.pc = "undefined"]
      BY <1>1, <2>1
    <3>2. /\ Good(session[s]) /\ session[s].pc = "ready"
          /\ ~(session[s].batchId < Len(taskMeta[session[s].task].batches) /\ Len(Batch(session[s])) > 0)
      BY DEF SessionInv, OpenUndefinedBatch, BatchDefined, Batches, Batch
    <3>3. Good(z)
      BY <3>1, <3>2, UndefinedIsGood
    <3>4. Good(z)'
      BY <1>2, <3>3, ReadersKeepGood
    <3> QED
      BY <3>4
  <2>2. CASE x # s
    <3>1. z = [NewSession EXCEPT !.pc = "failed"] \/ z = session[x]
      BY <1>1, <2>2
    <3>2. Good(z)
      BY <3>1, FailedIsGood DEF SessionInv
    <3>3. Good(z)'
      BY <1>2, <3>2, ReadersKeepGood
    <3> QED
      BY <3>3
  <2> QED
    BY <2>1, <2>2
<1> QED
  BY <1>2, <1>3 DEF SessionInv

LEMMA ElementOf == ASSUME NEW S, NEW seq \in Seq(S), NEW i \in 1..Len(seq) PROVE seq[i] \in S
  OBVIOUS

(* c is cells but for v in one place. *)
Differs(c, cells, type, id, v) ==
    /\ c \in Cells
    /\ \A ty \in TestTypes, i \in TestIds :
          c[ty][i] = IF ty = type /\ i = id THEN v ELSE cells[ty][i]

LEMMA CellWritten ==
    ASSUME NEW cells \in Cells, NEW type \in TestTypes, NEW id \in TestIds, NEW v \in UploadIds,
           NEW c, c = [cells EXCEPT ![type] = [cells[type] EXCEPT ![id] = v]]
    PROVE  Differs(c, cells, type, id, v)
<1>1. cells[type] \in [TestIds -> UploadIds]
  BY DEF Cells
<1> PICK row : row = [cells[type] EXCEPT ![id] = v]
  OBVIOUS
<1>2. row \in [TestIds -> UploadIds] /\ \A i \in TestIds : row[i] = IF i = id THEN v ELSE cells[type][i]
  BY <1>1
<1>3. c \in Cells
  BY <1>2 DEF Cells
<1> QED
  BY <1>2, <1>3 DEF Cells, Differs

(* The keys of a batch of the upload in place hold nothing but its tests. *)
LEMMA ReadsBasis ==
    ASSUME StorageInv, NEW x, Good(x), x.pc = "cursor", Sure(x),
           NEW key \in Keys, key.task = x.task, x.front <= key.id, key.id <= x.back,
           NEW k \in 1..MaxUploads, k <= Len(testDocs[key])
    PROVE  testDocs[key][k] = x.base
<1> PICK u, bs, b, n :
      /\ u = taskMeta[x.task].up /\ bs = taskMeta[x.task].batches /\ b = x.batchId + 1
      /\ n = TestsOf(u)
  OBVIOUS
<1>1. Live(x) /\ x.calm
  BY DEF Live, Sure
<1>2. Basis(x) /\ Copying(x) /\ x.batchId < x.batchCount /\ Len(bs) = x.batchCount
  BY <1>1 DEF Good, Exact, Asking, Settled
<1>3. x.base = u /\ Complete(u) /\ uploads[u].task = x.task
  BY <1>2 DEF Basis, InPlace
<1>4. n > 0 /\ x.front = FrontId(Batch(x)) /\ x.back = BackId(Batch(x))
  BY <1>2, <1>3 DEF Copying
<1>5. IsSplit(bs, n) /\ n \in Nat /\ n <= MaxTests /\ Batch(x) = bs[b] /\ b \in 1..Len(bs)
  BY <1>1, <1>2, BatchFacts
<1>6. x.front \in 1..n /\ x.back \in 1..n
  BY <1>4, <1>5 DEF IsSplit
<1>7. key.id \in TestIds /\ key.type \in TestTypes /\ key = Key(x.task, key.id, key.type)
  BY DEF Keys, Key
<1>8. key.id \in 1..n
  BY <1>5, <1>6, <1>7 DEF TestIds
<1>9. IsOnly(testDocs[key], u)
  BY <1>3, <1>7, <1>8 DEF Complete
<1>10. Len(testDocs[key]) = 1 /\ testDocs[key][1] = u
  BY <1>9 DEF IsOnly
<1>11. k = 1
  BY <1>10, BoundsAssumption
<1> QED
  BY <1>3, <1>10, <1>11

LEMMA ReadDocIsGood ==
    ASSUME StorageInv, NEW x, Good(x), x.pc = "cursor",
           NEW p \in DocsBetween(x.task, x.front, x.back),
           NEW v, v = testDocs[p[1]][p[2]],
           NEW cells, cells = [x.cells EXCEPT ![p[1].type] = [x.cells[p[1].type] EXCEPT ![p[1].id] = v]],
           NEW y, y = [x EXCEPT !.cells = cells, !.seen = x.seen \cup {p}]
    PROVE  Good(y)
<1> PICK key, k : key = p[1] /\ k = p[2]
  OBVIOUS
<1>1. Live(x) /\ x \in Session /\ Bound(x) /\ TypeOK
  BY DEF Live, Good, Typed, Reading, StorageInv
<1>2. /\ p \in Documents /\ key \in Keys /\ k \in 1..MaxUploads /\ key.task = x.task
      /\ x.front <= key.id /\ key.id <= x.back /\ k <= Len(testDocs[key])
  BY DEF DocsBetween, Documents
<1>3. key.type \in TestTypes /\ key.id \in TestIds
  BY <1>2 DEF Keys
<1>4. v \in 1..MaxUploads
  <2>1. testDocs[key] \in Seq(1..MaxUploads)
    BY <1>1, <1>2 DEF TypeOK
  <2> PICK docs : docs = testDocs[key]
    OBVIOUS
  <2>2. docs \in Seq(1..MaxUploads) /\ k \in 1..Len(docs) /\ v = docs[k]
    BY <1>2, <2>1, BoundsAssumption
  <2>3. docs[k] \in 1..MaxUploads
    BY <2>2, ElementOf
  <2> QED
    BY <2>2, <2>3
<1>5. v \in UploadIds /\ v # 0
  BY <1>4, BoundsAssumption DEF UploadIds
<1>6. x.cells \in Cells /\ x.seen \in SUBSET Documents
  BY <1>1 DEF Session
<1>7. /\ cells \in Cells
      /\ \A ty \in TestTypes, i \in TestIds :
            cells[ty][i] = IF ty = key.type /\ i = key.id THEN v ELSE x.cells[ty][i]
  <2> PICK type, id, before : type = key.type /\ id = key.id /\ before = x.cells
    OBVIOUS
  <2>1. cells = [before EXCEPT ![type] = [before[type] EXCEPT ![id] = v]]
    OBVIOUS
  <2>2. before \in Cells /\ type \in TestTypes /\ id \in TestIds /\ v \in UploadIds
    BY <1>3, <1>5, <1>6
  <2>3. Differs(cells, before, type, id, v)
    BY <2>1, <2>2, CellWritten
  <2> QED
    BY <2>3 DEF Differs
<1>8. x.seen \cup {p} \in SUBSET Documents
  BY <1>2, <1>6
<1>9. y \in Session
  BY <1>1, <1>7, <1>8 DEF Session
<1>10. /\ y.pc = x.pc /\ y.task = x.task /\ y.batchCount = x.batchCount /\ y.batchId = x.batchId
       /\ y.front = x.front /\ y.back = x.back /\ y.due = x.due /\ y.seen = x.seen \cup {p}
       /\ y.cells = cells /\ y.served = x.served /\ y.base = x.base
       /\ y.calm = x.calm /\ y.solo = x.solo /\ y.torn = x.torn
  BY <1>1 DEF Session
<1>11. \A q \in Documents : q[1].type \in TestTypes /\ q[1].id \in TestIds
  BY DEF Documents, Keys
<1>12. Bound(y)
  <2>1. ASSUME NEW q \in y.seen PROVE y.cells[q[1].type][q[1].id] # 0
    <3>1. q \in Documents /\ (q = p \/ q \in x.seen)
      BY <1>2, <1>6, <1>10, <2>1
    <3>2. q \in x.seen => x.cells[q[1].type][q[1].id] # 0
      BY <1>1 DEF Bound
    <3> QED
      BY <1>5, <1>7, <1>10, <1>11, <3>1, <3>2
  <2> QED
    BY <1>1, <1>10, <2>1 DEF Bound
<1>13. /\ Typed(y) /\ NotBlank(y) /\ Asking(y) /\ Settled(y) /\ Reading(y) /\ Blamed(y)
       /\ Fulfilled(y)
  BY <1>1, <1>9, <1>10, <1>12
     DEF Good, Typed, NotBlank, Asking, Settled, Reading, Blamed, Fulfilled, Live
<1>14. Exact(y)
  <2> SUFFICES ASSUME Sure(y)
               PROVE  /\ Basis(y) /\ Copying(y)
                      /\ TestsOf(y.base) > 0 => y.served = All(FrontId(Batch(y)) - 1, y.base)
    BY DEF Exact
  <2>1. Batch(y) = Batch(x) /\ Sure(x)
    BY <1>10 DEF Batch, Sure
  <2>2. /\ Basis(x) /\ Copying(x)
        /\ TestsOf(x.base) > 0 => x.served = All(FrontId(Batch(x)) - 1, x.base)
    BY <1>1, <2>1 DEF Good, Exact
  <2>3. v = x.base
    BY <1>2, <2>1, ReadsBasis
  <2>4. ASSUME NEW q \in y.seen PROVE y.cells[q[1].type][q[1].id] = y.base
    <3>1. q \in Documents /\ (q = p \/ q \in x.seen)
      BY <1>2, <1>6, <1>10, <2>4
    <3>2. q \in x.seen => x.cells[q[1].type][q[1].id] = x.base
      BY <2>2 DEF Copying
    <3> QED
      BY <1>7, <1>10, <1>11, <2>3, <3>1, <3>2
  <2>5. Copying(y)
    BY <1>10, <2>1, <2>2, <2>4 DEF Copying
  <2> QED
    BY <1>10, <2>1, <2>2, <2>5 DEF Basis
<1> QED
  BY <1>13, <1>14 DEF Good

LEMMA ReadDocKeeps ==
    ASSUME StorageInv, StorageInv', SessionInv, NEW s \in Sessions, ReadDoc(s)
    PROVE  SessionInv'
<1> PICK x : x = session[s]
  OBVIOUS
<1>1. Good(x) /\ x.pc = "cursor" /\ UNCHANGED <<testDocs, taskMeta, uploads, http>>
      /\ DOMAIN session = Sessions
  BY DEF SessionInv, ReadDoc
<1>2. x \in Session
  BY <1>1 DEF Good, Typed
<1>3. PICK p \in DocsBetween(x.task, x.front, x.back) :
         session' = [session EXCEPT
                       ![s].cells[p[1].type][p[1].id] = testDocs[p[1]][p[2]],
                       ![s].seen = @ \cup {p}]
  BY DEF ReadDoc
<1> PICK v, cells : /\ v = testDocs[p[1]][p[2]]
                    /\ cells = [x.cells EXCEPT ![p[1].type] = [x.cells[p[1].type] EXCEPT ![p[1].id] = v]]
  OBVIOUS
<1> PICK y : y = [x EXCEPT !.cells = cells, !.seen = x.seen \cup {p}]
  OBVIOUS
<1>4. session' = [session EXCEPT ![s] = y]
  BY <1>1, <1>2, <1>3 DEF Session
<1>5. Good(y)
  BY <1>1, ReadDocIsGood
<1> QED
  BY <1>1, <1>4, <1>5, CallStep

----------------------------------------------------------------------------
LEMMA AllAppend ==
    ASSUME NEW m \in Nat, NEW n \in Nat, NEW u
    PROVE  All(m, u) \o All(n, u) = All(m + n, u)
<1> PICK p : p = <<u, u>>
  OBVIOUS
<1> PICK a, b, c : /\ a = [k \in 1..m |-> p] /\ b = [k \in 1..n |-> p] /\ c = [k \in 1..(m + n) |-> p]
  OBVIOUS
<1>1. a = All(m, u) /\ b = All(n, u) /\ c = All(m + n, u)
  BY DEF All
<1>2. /\ a \in Seq({p}) /\ Len(a) = m /\ b \in Seq({p}) /\ Len(b) = n
      /\ c \in Seq({p}) /\ Len(c) = m + n
  OBVIOUS
<1>3. a \o b \in Seq({p}) /\ Len(a \o b) = m + n
  BY <1>2
<1>4. \A k \in 1..(m + n) : (a \o b)[k] = p /\ c[k] = p
  BY <1>2, <1>3
<1>5. a \o b = c
  BY <1>2, <1>3, <1>4
<1> QED
  BY <1>1, <1>5

(* The reply of a session record. *)
Answer(x) == [k \in 1..(x.back + 1 - x.front) |->
                <<x.cells["input"][x.front + k - 1], x.cells["output"][x.front + k - 1]>>]

(* The cells of a batch whose documents have all been delivered. *)
LEMMA DeliveredCells ==
    ASSUME NEW x, x \in Session, Bound(x), x.due \subseteq x.seen,
           NEW id \in x.front..x.back, NEW type \in TestTypes
    PROVE  \E p \in x.seen : p[1].type = type /\ p[1].id = id
<1> PICK p : p = <<Key(x.task, id, type), 1>>
  OBVIOUS
<1>1. p \in x.seen
  BY DEF Bound
<1>2. p[1].type = type /\ p[1].id = id
  BY DEF Key
<1> QED
  BY <1>1, <1>2

LEMMA AnswerFacts ==
    ASSUME NEW x, x \in Session, Bound(x), x.due \subseteq x.seen,
           NEW a, a = Answer(x)
    PROVE  /\ a \in Served /\ \A k \in 1..Len(a) : a[k][1] # 0 /\ a[k][2] # 0
           /\ (\A p \in x.seen : x.cells[p[1].type][p[1].id] = x.base) =>
                 a = All(x.back + 1 - x.front, x.base)
<1> PICK n, in, out : /\ n = x.back + 1 - x.front
                      /\ in = x.cells["input"] /\ out = x.cells["output"]
  OBVIOUS
<1>1. /\ x.front \in TestIds /\ x.back \in TestIds /\ x.front \in Nat /\ x.back \in Nat
      /\ x.front <= x.back
  BY BoundsAssumption DEF Bound, TestIds
<1>2. n \in Nat /\ \A k \in 1..n : x.front + k - 1 \in x.front..x.back /\ x.front + k - 1 \in TestIds
  BY <1>1, BoundsAssumption DEF TestIds
<1>3. in \in [TestIds -> UploadIds] /\ out \in [TestIds -> UploadIds]
  <2>1. x.cells \in Cells
    BY DEF Session
  <2> QED
    BY <2>1 DEF Cells, TestTypes
<1>4. a = [k \in 1..n |-> <<in[x.front + k - 1], out[x.front + k - 1]>>]
  BY DEF Answer
<1>5. \A k \in 1..n : in[x.front + k - 1] \in UploadIds /\ out[x.front + k - 1] \in UploadIds
  BY <1>2, <1>3
<1>6. a \in [1..n -> UploadIds \X UploadIds]
  BY <1>4, <1>5
<1>7. a \in Served /\ Len(a) = n
  BY <1>2, <1>6 DEF Served
<1>8. \A k \in 1..n : a[k][1] = in[x.front + k - 1] /\ a[k][2] = out[x.front + k - 1]
  BY <1>4
<1>9. ASSUME NEW k \in 1..n PROVE in[x.front + k - 1] # 0 /\ out[x.front + k - 1] # 0
  <2> PICK id : id = x.front + k - 1
    OBVIOUS
  <2>1. id \in x.front..x.back /\ "input" \in TestTypes /\ "output" \in TestTypes
    BY <1>2 DEF TestTypes
  <2>2. /\ \E p \in x.seen : p[1].type = "input" /\ p[1].id = id
        /\ \E p \in x.seen : p[1].type = "output" /\ p[1].id = id
    BY <2>1, DeliveredCells
  <2>3. \A p \in x.seen : x.cells[p[1].type][p[1].id] # 0
    BY DEF Bound
  <2> QED
    BY <2>2, <2>3
<1>10. ASSUME \A p \in x.seen : x.cells[p[1].type][p[1].id] = x.base
       PROVE  a = All(n, x.base)
  <2>1. ASSUME NEW k \in 1..n PROVE in[x.front + k - 1] = x.base /\ out[x.front + k - 1] = x.base
    <3> PICK id : id = x.front + k - 1
      OBVIOUS
    <3>1. id \in x.front..x.back /\ "input" \in TestTypes /\ "output" \in TestTypes
      BY <1>2 DEF TestTypes
    <3>2. /\ \E p \in x.seen : p[1].type = "input" /\ p[1].id = id
          /\ \E p \in x.seen : p[1].type = "output" /\ p[1].id = id
      BY <3>1, DeliveredCells
    <3> QED
      BY <1>10, <3>2
  <2> QED
    BY <1>4, <2>1 DEF All
<1> QED
  BY <1>7, <1>8, <1>9, <1>10

LEMMA ServedMore ==
    ASSUME NEW a \in Served, NEW b \in Served,
           \A k \in 1..Len(a) : a[k][1] # 0 /\ a[k][2] # 0,
           \A k \in 1..Len(b) : b[k][1] # 0 /\ b[k][2] # 0
    PROVE  /\ a \o b \in Served
           /\ \A k \in 1..Len(a \o b) : (a \o b)[k][1] # 0 /\ (a \o b)[k][2] # 0
<1> PICK S : S = UploadIds \X UploadIds
  OBVIOUS
<1>1. a \in Seq(S) /\ b \in Seq(S) /\ Len(a) \in Nat /\ Len(b) \in Nat
  BY DEF Served
<1>2. a \o b \in Seq(S) /\ Len(a \o b) = Len(a) + Len(b)
  BY <1>1
<1>3. ASSUME NEW k \in 1..Len(a \o b) PROVE (a \o b)[k][1] # 0 /\ (a \o b)[k][2] # 0
  <2>1. k \in 1..(Len(a) + Len(b))
    BY <1>2
  <2>2. CASE k <= Len(a)
    <3>1. k \in 1..Len(a) /\ (a \o b)[k] = a[k]
      BY <1>1, <2>1, <2>2
    <3> QED
      BY <3>1
  <2>3. CASE ~(k <= Len(a))
    <3>1. k - Len(a) \in 1..Len(b) /\ (a \o b)[k] = b[k - Len(a)]
      BY <1>1, <2>1, <2>3
    <3> QED
      BY <3>1
  <2> QED
    BY <2>2, <2>3
<1> QED
  BY <1>2, <1>3 DEF Served

LEMMA CloseBatchIsGood ==
    ASSUME StorageInv, NEW x, Good(x), x.pc = "cursor", x.due \subseteq x.seen, NEW y,
           y = [x EXCEPT !.served = x.served \o Answer(x), !.batchId = x.batchId + 1,
                         !.front = 1, !.back = 0, !.due = {}, !.seen = {}, !.cells = NoCells,
                         !.pc = IF x.batchId + 1 = x.batchCount THEN "done" ELSE "ready"]
    PROVE  Good(y)
<1> PICK u, bs, b, n, a, served, pc :
      /\ u = taskMeta[x.task].up /\ bs = taskMeta[x.task].batches /\ b = x.batchId + 1
      /\ n = TestsOf(u) /\ a = Answer(x) /\ served = x.served \o a
      /\ pc = IF x.batchId + 1 = x.batchCount THEN "done" ELSE "ready"
  OBVIOUS
<1>1. Live(x) /\ x \in Session /\ Bound(x) /\ x.batchId < x.batchCount /\ x.task \in Tasks
  BY DEF Live, Good, Typed, Reading, Asking
<1>2. x.batchId \in Nat /\ x.batchCount \in Nat /\ x.served \in Served
  BY <1>1 DEF Session
<1>3. b \in Nat /\ b <= x.batchCount
  BY <1>1, <1>2
<1>4. /\ a \in Served /\ \A k \in 1..Len(a) : a[k][1] # 0 /\ a[k][2] # 0
      /\ (\A p \in x.seen : x.cells[p[1].type][p[1].id] = x.base) =>
            a = All(x.back + 1 - x.front, x.base)
  BY <1>1, AnswerFacts
<1>5. \A k \in 1..Len(x.served) : x.served[k][1] # 0 /\ x.served[k][2] # 0
  BY DEF Good, NotBlank
<1>6. served \in Served /\ \A k \in 1..Len(served) : served[k][1] # 0 /\ served[k][2] # 0
  <2> PICK old : old = x.served
    OBVIOUS
  <2>1. old \in Served /\ \A k \in 1..Len(old) : old[k][1] # 0 /\ old[k][2] # 0
    BY <1>2, <1>5
  <2> QED
    BY <1>4, <2>1, ServedMore
<1>7. NoCells \in Cells /\ {} \in SUBSET Documents
  BY BoundsAssumption DEF NoCells, Cells, UploadIds
<1>8. pc \in Phases /\ pc \in {"ready", "done"} /\ (pc = "done" <=> b = x.batchCount)
  BY DEF Phases
<1>9. y \in Session
  BY <1>1, <1>3, <1>6, <1>7, <1>8 DEF Session
<1>10. /\ y.pc = pc /\ y.task = x.task /\ y.batchCount = x.batchCount /\ y.batchId = b
       /\ y.served = served /\ y.base = x.base
       /\ y.calm = x.calm /\ y.solo = x.solo /\ y.torn = x.torn
  BY <1>1 DEF Session
<1>11. Typed(y) /\ NotBlank(y) /\ Reading(y) /\ Blamed(y)
  BY <1>1, <1>6, <1>8, <1>9, <1>10 DEF Typed, NotBlank, Reading, Blamed
<1>12. Asking(y) /\ Settled(y)
  <2>1. pc = "ready" => b < x.batchCount
    BY <1>2, <1>3, <1>8
  <2>2. Live(y) => pc = "ready"
    BY <1>8, <1>10 DEF Live
  <2> QED
    BY <1>1, <1>10, <2>1, <2>2 DEF Good, Asking, Settled
<1>13. ASSUME Sure(x)
       PROVE  /\ Basis(x) /\ x.base = u /\ n > 0 /\ b \in 1..Len(bs) /\ Len(bs) = x.batchCount
              /\ IsSplit(bs, n) /\ served = All(BackId(bs[b]), u)
  <2>1. /\ Basis(x) /\ Copying(x)
        /\ TestsOf(x.base) > 0 => x.served = All(FrontId(Batch(x)) - 1, x.base)
    BY <1>1, <1>13 DEF Good, Exact
  <2>2. Len(bs) = x.batchCount
    BY <1>1, <1>13 DEF Good, Settled, Sure
  <2>3. x.base = u
    BY <2>1 DEF Basis, InPlace
  <2>4. IsSplit(bs, n) /\ Batch(x) = bs[b] /\ b \in 1..Len(bs) /\ n \in Nat
    BY <1>1, <2>2, BatchFacts
  <2>5. /\ n > 0 /\ x.front = FrontId(bs[b]) /\ x.back = BackId(bs[b])
        /\ x.served = All(x.front - 1, u)
    BY <2>1, <2>3, <2>4 DEF Copying
  <2>6. a = All(x.back + 1 - x.front, u)
    BY <1>4, <2>1, <2>3 DEF Copying
  <2>7. x.front \in 1..n /\ x.back \in 1..n /\ x.front <= x.back
    BY <2>4, <2>5 DEF IsSplit
  <2>8. served = All(x.back, u)
    <3> PICK i, j : i = x.front - 1 /\ j = x.back + 1 - x.front
      OBVIOUS
    <3>1. i \in Nat /\ j \in Nat /\ i + j = x.back
      BY <2>4, <2>7
    <3>2. All(i, u) \o All(j, u) = All(i + j, u)
      BY <3>1, AllAppend
    <3>3. x.served \o a = All(i, u) \o All(j, u)
      BY <2>5, <2>6
    <3> QED
      BY <3>1, <3>2, <3>3
  <2> QED
    BY <2>1, <2>2, <2>3, <2>4, <2>5, <2>8
<1>14. Exact(y)
  <2> SUFFICES ASSUME Live(y), Sure(y)
               PROVE  /\ Basis(y) /\ y.pc # "cursor"
                      /\ TestsOf(y.base) > 0 => y.served = All(FrontId(Batch(y)) - 1, y.base)
    BY DEF Exact
  <2>1. Sure(x) /\ pc = "ready" /\ b # x.batchCount
    BY <1>8, <1>10 DEF Sure, Live
  <2>2. b \in 1..Len(bs) /\ Len(bs) = x.batchCount /\ Len(bs) \in Nat
    BY <1>2, <1>13, <2>1
  <2>3. b \in 1..Len(bs) - 1
    BY <2>1, <2>2
  <2>4. b \in 1..Len(bs) /\ FrontId(bs[b + 1]) = BackId(bs[b]) + 1 /\ BackId(bs[b]) \in 1..n
    BY <1>13, <2>1, <2>2, <2>3 DEF IsSplit
  <2>5. FrontId(bs[b + 1]) - 1 = BackId(bs[b])
    BY <2>4
  <2>6. Batch(y) = bs[b + 1]
    BY <1>10 DEF Batch
  <2>7. y.served = All(FrontId(Batch(y)) - 1, y.base)
    BY <1>10, <1>13, <2>1, <2>5, <2>6
  <2> QED
    BY <1>10, <1>13, <2>1, <2>7 DEF Basis
<1>15. Fulfilled(y)
  <2> SUFFICES ASSUME y.pc = "done", Sure(y)
               PROVE  y.base \in 1..Len(uploads) /\ y.served = All(TestsOf(y.base), y.base)
    BY DEF Fulfilled
  <2>1. Sure(x) /\ b = x.batchCount
    BY <1>8, <1>10 DEF Sure
  <2>2. BackId(bs[b]) = n
    BY <1>13, <2>1 DEF IsSplit
  <2> QED
    BY <1>10, <1>13, <2>1, <2>2 DEF Basis
<1> QED
  BY <1>11, <1>12, <1>14, <1>15 DEF Good

LEMMA CloseBatchKeeps ==
    ASSUME StorageInv, StorageInv', SessionInv, NEW s \in Sessions, CloseBatch(s)
    PROVE  SessionInv'
<1> PICK x : x = session[s]
  OBVIOUS
<1> PICK y : y = [x EXCEPT !.served = x.served \o Answer(x), !.batchId = x.batchId + 1,
                           !.front = 1, !.back = 0, !.due = {}, !.seen = {}, !.cells = NoCells,
                           !.pc = IF x.batchId + 1 = x.batchCount THEN "done" ELSE "ready"]
  OBVIOUS
<1>1. /\ Good(x) /\ x.pc = "cursor" /\ x.due \subseteq x.seen
      /\ UNCHANGED <<testDocs, taskMeta, uploads, http>>
  BY DEF SessionInv, CloseBatch
<1>2. Reply(s) = Answer(x)
  BY DEF Reply, Answer
<1>3. session' = [session EXCEPT ![s] = y]
  BY <1>2, Zenon DEF CloseBatch
<1>4. Good(y)
  BY <1>1, CloseBatchIsGood
<1> QED
  BY <1>1, <1>3, <1>4, CallStep

----------------------------------------------------------------------------
LEMMA SessionStep ==
    ASSUME StorageInv, StorageInv', WriterInv, SessionInv, [Next]_vars
    PROVE  SessionInv'
<1>1. ASSUME NEW s \in Sessions, GrpcStep(s) PROVE SessionInv'
  BY <1>1, GetScriptsKeeps, OpenBatchKeeps, OpenUndefinedBatchKeeps, ReadDocKeeps,
     CloseBatchKeeps, CallFailsKeeps DEF GrpcStep
<1>2. CASE UNCHANGED <<testDocs, taskMeta, uploads, http, session>>
  <2>1. ASSUME NEW s \in Sessions PROVE Good(session[s])'
    <3> PICK x : x = session[s]
      OBVIOUS
    <3>1. Good(x)
      BY DEF SessionInv
    <3>2. Good(x)'
      BY <1>2, <3>1, ReadersKeepGood
    <3> QED
      BY <1>2, <3>2
  <2> QED
    BY <1>2, <2>1 DEF SessionInv
<1> QED
  BY <1>1, <1>2, StepKinds, BeginKeepsSessions, WorksKeepSessions

LEMMA SessionInvariant == Spec => [](StorageInv /\ WriterInv /\ SessionInv)
<1>1. StorageInv /\ WriterInv /\ SessionInv /\ [Next]_vars => (StorageInv /\ WriterInv /\ SessionInv)'
  BY NextKeeps, WriterStep, SessionStep
<1> QED
  BY <1>1, InitStorage, InitWriter, InitSessions, PTL DEF Spec

(***************************************************************************)
(* GetBatch resizes inputTests and outputTests to empty strings and fills  *)
(* in what the cursor delivers; whatever uploads run at the same time,     *)
(* fail or crash, no string of an answer is left empty.                    *)
(***************************************************************************)
THEOREM NoTestLeftBlank == Spec => []NoBlankTests
<1>1. SessionInv => NoBlankTests
  BY DEF SessionInv, Good, NotBlank, NoBlankTests
<1> QED
  BY <1>1, SessionInvariant, PTL

(***************************************************************************)
(* A submission that is tested while nobody uploads tests of its task asks *)
(* for every batch GetScripts announced and never reads past the batches   *)
(* or into an empty one, unless an upload of the task had no test.         *)
(***************************************************************************)
THEOREM AnnouncedBatchesExist == Spec => []AnnouncedIsDefined
<1>1. StorageInv /\ SessionInv => AnnouncedIsDefined
  <2> SUFFICES ASSUME StorageInv, SessionInv, NEW s \in Sessions, session[s].calm,
                      \A u \in UploadsOf(session[s].task) : TestsOf(u) > 0,
                      session[s].pc = "undefined"
               PROVE  FALSE
    BY DEF AnnouncedIsDefined
  <2>1. PICK u \in UploadsOf(session[s].task) : TestsOf(u) = 0
    BY DEF SessionInv, Good, Blamed
  <2>2. TestsOf(u) > 0
    OBVIOUS
  <2> QED
    BY <2>1, <2>2
<1> QED
  BY <1>1, SessionInvariant, PTL

(***************************************************************************)
(* The batches a submission gets, put together, are the tests of the last  *)
(* accepted upload, each once and in order, when nobody uploads meanwhile, *)
(* the uploads before were made one at a time and none of them broke off   *)
(* after that one: the split, the upserts, the two reads of the metadata   *)
(* and the cursor agree.                                                   *)
(***************************************************************************)
THEOREM AcceptedTestsAreServed == Spec => []AcceptedIsServed
<1>1. SessionInv => AcceptedIsServed
  <2> SUFFICES ASSUME SessionInv, NEW s \in Sessions, NEW x, x = session[s],
                      x.pc = "done", x.calm, x.solo, ~x.torn
               PROVE  x.served = [k \in 1..TestsOf(x.base) |-> <<x.base, x.base>>]
    BY DEF AcceptedIsServed
  <2>1. Fulfilled(x) /\ Sure(x)
    BY DEF SessionInv, Good, Sure
  <2> QED
    BY <2>1 DEF Fulfilled, All
<1> QED
  BY <1>1, SessionInvariant, PTL

----------------------------------------------------------------------------
(***************************************************************************)
(* The documents a submission is tested on are not older than the upload b *)
(* that was the last accepted one when it was begun, also while uploads    *)
(* are under way.  An older document may still be there, for a test upload *)
(* b does not have; but it is the only one of its key, nobody is about to  *)
(* insert beside it, and an upload that needs the key replaces it before   *)
(* its metadata can refer to it.                                           *)
(***************************************************************************)
Fresh(docs, b) == \A k \in 1..Len(docs) : docs[k] >= b

Inserting(key) == \E w \in Workers : http[w].pc = "insert" /\ CurrentKey(w) = key
Replaceable(key) == Len(testDocs[key]) = 1 /\ ~Inserting(key)

(* The documents of the first n updates of upload u are fresh. *)
AllFresh(u, n, b) == \A k \in 1..n : Fresh(testDocs[KeyAt(u, k)], b)

DoneFresh(w, b) ==
    /\ http[w].pc \in {"tests", "insert"} => AllFresh(http[w].up, http[w].step - 1, b)
    /\ http[w].pc = "meta" => AllFresh(http[w].up, 2 * TestsOf(http[w].up), b)

MetaFresh(t, b) == taskMeta[t].up # 0 => AllFresh(taskMeta[t].up, 2 * TestsOf(taskMeta[t].up), b)

Recent(t, b) ==
    /\ b <= Len(uploads)
    /\ \A u \in Running(t) : u >= b
    /\ \A key \in Keys : key.task = t => Fresh(testDocs[key], b) \/ Replaceable(key)
    /\ \A w \in Workers : http[w].pc # "idle" /\ uploads[http[w].up].task = t => DoneFresh(w, b)
    /\ MetaFresh(t, b)

LEMMA KeyAtKept ==
    ASSUME UploadsKept, NEW u \in 1..Len(uploads), NEW k
    PROVE  KeyAt(u, k)' = KeyAt(u, k) /\ TestsOf(u)' = TestsOf(u)
<1>1. uploads'[u].task = uploads[u].task /\ uploads'[u].req = uploads[u].req
  BY DEF UploadsKept
<1>2. TestsOf(u)' = TestsOf(u)
  BY <1>1 DEF TestsOf
<1> QED
  BY <1>1, <1>2 DEF KeyAt

(* What a step does with the fresh documents of a task. *)
FreshKept(t, b) == \A key \in Keys : key.task = t /\ Fresh(testDocs[key], b) => Fresh(testDocs'[key], b)

LEMMA AllFreshKept ==
    ASSUME TypeOK, UploadsKept, NEW t, NEW b, FreshKept(t, b),
           NEW u \in 1..Len(uploads), uploads[u].task = t, NEW n \in Nat, n <= 2 * TestsOf(u),
           AllFresh(u, n, b)
    PROVE  AllFresh(u, n, b)'
<1> SUFFICES ASSUME NEW k \in 1..n PROVE Fresh(testDocs'[KeyAt(u, k)'], b)
  BY DEF AllFresh, Fresh
<1>1. TestsOf(u) \in Nat
  BY UploadFacts
<1>2. k \in 1..(2 * TestsOf(u))
  BY <1>1
<1>3. KeyAt(u, k) \in Keys /\ KeyAt(u, k)' = KeyAt(u, k)
  BY <1>2, KeyAtInKeys, KeyAtKept
<1>4. KeyAt(u, k).task = t
  BY DEF KeyAt, Key
<1>5. Fresh(testDocs[KeyAt(u, k)], b)
  BY DEF AllFresh
<1>6. Fresh(testDocs'[KeyAt(u, k)], b)
  BY <1>3, <1>4, <1>5 DEF FreshKept
<1> QED
  BY <1>3, <1>6

LEMMA NotInserting ==
    ASSUME TypeOK, UploadsKept, NEW key, ~Inserting(key),
           \A w \in Workers : http'[w].pc = "insert" => http'[w] = http[w] \/ CurrentKey(w)' # key
    PROVE  ~Inserting(key)'
<1> SUFFICES ASSUME NEW w \in Workers, http'[w].pc = "insert", CurrentKey(w)' = key PROVE FALSE
  BY DEF Inserting
<1> PICK u, k : u = http[w].up /\ k = http[w].step
  OBVIOUS
<1>1. http'[w] = http[w] /\ http[w].pc = "insert"
  OBVIOUS
<1>2. u \in 1..Len(uploads)
  BY <1>1 DEF TypeOK
<1>3. KeyAt(u, k)' = KeyAt(u, k)
  BY <1>2, KeyAtKept
<1>4. CurrentKey(w)' = KeyAt(u, k)'
  BY <1>1 DEF CurrentKey
<1>5. CurrentKey(w) = KeyAt(u, k)
  BY DEF CurrentKey
<1> QED
  BY <1>1, <1>3, <1>4, <1>5 DEF Inserting

LEMMA RecentStep ==
    ASSUME StorageInv, StorageInv', UploadsKept, NEW t \in Tasks, NEW b \in Nat, Recent(t, b),
           \A u \in Running(t)' : u >= b,
           FreshKept(t, b),
           \A key \in Keys : key.task = t /\ Replaceable(key) =>
              Fresh(testDocs'[key], b) \/ Replaceable(key)',
           \A w \in Workers : http'[w].pc # "idle" /\ uploads'[http'[w].up].task = t =>
              http'[w] = http[w] \/ DoneFresh(w, b)',
           taskMeta'[t].up = taskMeta[t].up \/ MetaFresh(t, b)'
    PROVE  Recent(t, b)'
<1>1. TypeOK /\ TypeOK' /\ Len(uploads) \in Nat /\ Len(uploads') \in Nat
  BY UploadsOfFacts, NewUploadsOfFacts DEF StorageInv
<1>2. b <= Len(uploads')
  BY <1>1 DEF Recent, UploadsKept
<1>3. \A key \in Keys : key.task = t => Fresh(testDocs'[key], b) \/ Replaceable(key)'
  BY DEF Recent, FreshKept
<1>4. ASSUME NEW w \in Workers, http'[w].pc # "idle", uploads'[http'[w].up].task = t, http'[w] = http[w]
      PROVE  DoneFresh(w, b)'
  <2> PICK u, k : u = http[w].up /\ k = http[w].step
    OBVIOUS
  <2>1. u \in 1..Len(uploads) /\ (http[w].pc # "meta" => k \in 1..(2 * TestsOf(u))) /\ http[w].pc # "idle"
    BY <1>1, <1>4 DEF TypeOK
  <2>2. uploads[u].task = t /\ TestsOf(u) \in Nat /\ TestsOf(u)' = TestsOf(u)
    BY <1>1, <1>4, <2>1, UploadFacts, KeyAtKept DEF UploadsKept
  <2>3. DoneFresh(w, b)
    BY <2>1, <2>2 DEF Recent
  <2>4. CASE http[w].pc \in {"tests", "insert"}
    <3>1. k - 1 \in Nat /\ k - 1 <= 2 * TestsOf(u) /\ AllFresh(u, k - 1, b)
      BY <2>1, <2>2, <2>3, <2>4 DEF DoneFresh
    <3>2. AllFresh(u, k - 1, b)'
      <4> PICK n : n = k - 1
        OBVIOUS
      <4>1. AllFresh(u, n, b)'
        BY <1>1, <2>1, <2>2, <3>1, AllFreshKept
      <4> QED
        BY <4>1
    <3> QED
      BY <1>4, <2>4, <3>2 DEF DoneFresh
  <2>5. CASE http[w].pc = "meta"
    <3> PICK n : n = 2 * TestsOf(u)
      OBVIOUS
    <3>1. n \in Nat /\ n <= 2 * TestsOf(u) /\ AllFresh(u, n, b)
      BY <2>2, <2>3, <2>5 DEF DoneFresh
    <3>2. AllFresh(u, n, b)'
      BY <1>1, <2>1, <2>2, <3>1, AllFreshKept
    <3> QED
      BY <1>4, <2>2, <2>5, <3>2 DEF DoneFresh
  <2> QED
    BY <1>1, <2>1, <2>4, <2>5 DEF TypeOK
<1>5. ASSUME taskMeta'[t].up = taskMeta[t].up PROVE MetaFresh(t, b)'
  <2> SUFFICES ASSUME taskMeta[t].up # 0, NEW u, u = taskMeta[t].up, NEW n, n = 2 * TestsOf(u)
               PROVE  AllFresh(u, n, b)' /\ TestsOf(u)' = TestsOf(u)
    BY <1>5 DEF MetaFresh
  <2>1. u \in 1..Len(uploads) /\ uploads[u].task = t
    BY DEF StorageInv, TaskInv
  <2>2. TestsOf(u) \in Nat /\ TestsOf(u)' = TestsOf(u)
    BY <1>1, <2>1, UploadFacts, KeyAtKept
  <2>3. AllFresh(u, n, b)
    BY DEF Recent, MetaFresh
  <2>4. n \in Nat /\ n <= 2 * TestsOf(u)
    BY <2>2
  <2> QED
    BY <1>1, <2>1, <2>2, <2>3, <2>4, AllFreshKept
<1> QED
  BY <1>2, <1>3, <1>4, <1>5 DEF Recent

(* A busy worker's upload is not older than b. *)
LEMMA WorkerIsRecent ==
    ASSUME StorageInv, WriterInv, NEW t \in Tasks, NEW b \in Nat, Recent(t, b),
           NEW w \in Workers, http[w].pc # "idle", NEW u, u = http[w].up, uploads[u].task = t
    PROVE  u \in 1..Len(uploads) /\ u >= b /\ u \in Running(t)
<1>1. TypeOK /\ u \in 1..Len(uploads)
  BY DEF StorageInv, TypeOK
<1>2. uploads[u].status = "running"
  BY DEF WriterInv, Exclusive
<1>3. u \in Running(t)
  BY <1>1, <1>2, UploadsOfFacts
<1> QED
  BY <1>1, <1>3 DEF Recent

LEMMA RecentWrite ==
    ASSUME StorageInv, StorageInv', WriterInv, NEW t \in Tasks, NEW b \in Nat, Recent(t, b),
           NEW w \in Workers, http[w].pc \in {"tests", "insert"}, NEW u, u = http[w].up,
           NEW docs, testDocs' = [testDocs EXCEPT ![CurrentKey(w)] = docs],
           uploads[u].task = t => Fresh(docs, b), taskMeta' = taskMeta,
           NextUpdate(w) \/ Finish(w, "400")
    PROVE  Recent(t, b)' /\ FreshKept(t, b)
<1>1. TypeOK /\ TypeOK' /\ testDocs \in [Keys -> Seq(1..MaxUploads)] /\ http \in [Workers -> Worker]
  BY DEF StorageInv, TypeOK, Worker
<1>2. u \in 1..Len(uploads) /\ CurrentKey(w) \in Keys /\ CurrentKey(w).task = uploads[u].task
  BY CurrentTask
<1>3. NextUpdate(w) => OnlyStatus(u) /\ uploads' = uploads
  BY <1>1 DEF NextUpdate, OnlyStatus, UploadsKept, TypeOK, Upload
<1>4. Finish(w, "400") => OnlyStatus(u) /\ uploads'[u].status = "400" /\ http' = [http EXCEPT ![w] = Idle]
  BY <1>1, FinishFacts
<1>5. UploadsKept /\ OnlyStatus(u)
  BY <1>3, <1>4 DEF OnlyStatus
<1>6. \A v \in Running(t)' : v >= b
  <2> SUFFICES ASSUME NEW v \in Running(t)' PROVE v \in Running(t)
    BY DEF Recent
  <2>1. v \in 1..Len(uploads') /\ uploads'[v].task = t /\ uploads'[v].status = "running"
    BY <1>5, NewUploadsOfFacts
  <2>2. v \in 1..Len(uploads) /\ uploads[v].task = t /\ uploads[v].status = "running"
    <3>1. v \in 1..Len(uploads) /\ uploads[v].task = t
      BY <1>5, <2>1 DEF OnlyStatus, UploadsKept
    <3>2. CASE uploads' = uploads
      BY <2>1, <3>1, <3>2
    <3>3. CASE uploads'[u].status = "400"
      BY <1>5, <2>1, <3>1, <3>3 DEF OnlyStatus
    <3> QED
      BY <1>3, <1>4, <3>2, <3>3
  <2> QED
    BY <1>1, <2>2, UploadsOfFacts
<1>7. \A key \in Keys : testDocs'[key] = IF key = CurrentKey(w) THEN docs ELSE testDocs[key]
  BY <1>1
<1>8. FreshKept(t, b)
  BY <1>2, <1>7 DEF FreshKept
<1>9. /\ \A x \in Workers : x # w => http'[x] = http[x]
      /\ http'[w].pc # "insert"
  <2>1. CASE NextUpdate(w)
    BY <1>1, <2>1 DEF NextUpdate
  <2>2. CASE Finish(w, "400")
    BY <1>1, <1>4, <2>2 DEF Idle
  <2> QED
    BY <2>1, <2>2
<1>10. ASSUME NEW key \in Keys, key.task = t, Replaceable(key)
       PROVE  Fresh(testDocs'[key], b) \/ Replaceable(key)'
  <2>1. CASE key = CurrentKey(w)
    BY <1>2, <1>7, <1>10, <2>1
  <2>2. CASE key # CurrentKey(w)
    <3>1. ~Inserting(key)'
      BY <1>1, <1>5, <1>9, <1>10, NotInserting DEF Replaceable
    <3> QED
      BY <1>7, <1>10, <2>2, <3>1 DEF Replaceable
  <2> QED
    BY <2>1, <2>2
<1>11. ASSUME http'[w].pc # "idle", uploads'[http'[w].up].task = t
       PROVE  DoneFresh(w, b)'
  <2>1. NextUpdate(w) /\ uploads' = uploads
    BY <1>1, <1>3, <1>4, <1>11 DEF Idle
  <2> PICK k : k = http[w].step
    OBVIOUS
  <2>2. http'[w] = [pc |-> IF k = 2 * TestsOf(u) THEN "meta" ELSE "tests", up |-> u, step |-> k + 1]
    BY <1>1, <2>1 DEF NextUpdate
  <2>3. uploads[u].task = t
    BY <1>11, <2>1, <2>2
  <2>4. TestsOf(u) \in Nat /\ k \in 1..(2 * TestsOf(u)) /\ TestsOf(u)' = TestsOf(u)
    BY <1>1, <1>5, CurrentKeyFacts, KeyAtKept, <1>2
  <2> PICK n : n = k - 1
    OBVIOUS
  <2>5. n \in Nat /\ n <= 2 * TestsOf(u) /\ AllFresh(u, n, b)
    BY <2>3, <2>4 DEF Recent, DoneFresh
  <2>6. AllFresh(u, n, b)'
    BY <1>1, <1>2, <1>5, <1>8, <2>3, <2>5, AllFreshKept
  <2>7. Fresh(testDocs'[KeyAt(u, k)'], b)
    <3>1. KeyAt(u, k)' = KeyAt(u, k) /\ KeyAt(u, k) = CurrentKey(w)
      BY <1>2, <1>5, KeyAtKept DEF CurrentKey
    <3> QED
      BY <1>2, <1>7, <2>3, <3>1
  <2>8. AllFresh(u, k, b)'
    <3> SUFFICES ASSUME NEW i \in 1..k PROVE Fresh(testDocs'[KeyAt(u, i)'], b)
      BY DEF AllFresh, Fresh
    <3>1. CASE i = k
      BY <2>7, <3>1
    <3>2. CASE i \in 1..n
      BY <2>6, <3>2 DEF AllFresh, Fresh
    <3> QED
      BY <2>4, <3>1, <3>2
  <2>9. CASE k = 2 * TestsOf(u)
    BY <2>2, <2>4, <2>8, <2>9 DEF DoneFresh
  <2>10. CASE k # 2 * TestsOf(u)
    <3>1. http'[w].pc = "tests" /\ http'[w].up = u /\ http'[w].step - 1 = k
      BY <2>2, <2>4, <2>10
    <3> QED
      BY <2>8, <3>1 DEF DoneFresh
  <2> QED
    BY <2>9, <2>10
<1>12. \A x \in Workers : http'[x].pc # "idle" /\ uploads'[http'[x].up].task = t =>
          http'[x] = http[x] \/ DoneFresh(x, b)'
  BY <1>9, <1>11
<1>13. taskMeta'[t].up = taskMeta[t].up
  OBVIOUS
<1> QED
  BY <1>5, <1>6, <1>8, <1>10, <1>12, <1>13, RecentStep

LEMMA RecentUpdate ==
    ASSUME StorageInv, StorageInv', WriterInv, NEW t \in Tasks, NEW b \in Nat, Recent(t, b),
           NEW w \in Workers, UpdateTest(w)
    PROVE  Recent(t, b)' /\ FreshKept(t, b)
<1> PICK u : u = http[w].up
  OBVIOUS
<1>1. testDocs \in [Keys -> Seq(1..MaxUploads)] /\ http[w].pc \in {"tests", "insert"} /\ http[w].pc # "idle"
  BY DEF StorageInv, TypeOK, UpdateTest
<1>2. CurrentKey(w) \in Keys /\ CurrentKey(w).task = uploads[u].task /\ u \in 1..Len(uploads)
  BY <1>1, CurrentTask
<1> PICK old : old = testDocs[CurrentKey(w)]
  OBVIOUS
<1>3. old \in Seq(1..MaxUploads) /\ Len(old) \in Nat
  BY <1>1, <1>2
<1>4. PICK k \in DOMAIN old : testDocs' = [testDocs EXCEPT ![CurrentKey(w)] = [old EXCEPT ![k] = u]]
  BY DEF UpdateTest
<1> PICK docs : docs = [old EXCEPT ![k] = u]
  OBVIOUS
<1>5. k \in 1..Len(old) /\ Len(docs) = Len(old) /\ \A i \in 1..Len(old) : docs[i] = IF i = k THEN u ELSE old[i]
  BY <1>3, <1>4
<1>6. ASSUME uploads[u].task = t PROVE Fresh(docs, b)
  <2>1. u >= b
    BY <1>1, <1>6, WorkerIsRecent
  <2>2. Fresh(old, b) \/ Len(old) = 1
    BY <1>2, <1>6 DEF Recent, Replaceable
  <2> QED
    BY <1>3, <1>5, <2>1, <2>2 DEF Fresh
<1> QED
  BY <1>1, <1>4, <1>6, RecentWrite DEF UpdateTest

LEMMA RecentInsert ==
    ASSUME StorageInv, StorageInv', WriterInv, NEW t \in Tasks, NEW b \in Nat, Recent(t, b),
           NEW w \in Workers, InsertTest(w)
    PROVE  Recent(t, b)' /\ FreshKept(t, b)
<1> PICK u : u = http[w].up
  OBVIOUS
<1>1. testDocs \in [Keys -> Seq(1..MaxUploads)] /\ http[w].pc = "insert"
  BY DEF StorageInv, TypeOK, InsertTest
<1>2. CurrentKey(w) \in Keys /\ CurrentKey(w).task = uploads[u].task /\ u \in 1..Len(uploads)
  BY <1>1, CurrentTask
<1> PICK old : old = testDocs[CurrentKey(w)]
  OBVIOUS
<1>3. old \in Seq(1..MaxUploads) /\ Len(old) \in Nat
  BY <1>1, <1>2
<1> PICK docs : docs = Append(old, u)
  OBVIOUS
<1>4. testDocs' = [testDocs EXCEPT ![CurrentKey(w)] = docs]
  BY DEF InsertTest
<1>5. Len(docs) = Len(old) + 1 /\ \A i \in 1..Len(docs) : docs[i] = IF i = Len(old) + 1 THEN u ELSE old[i]
  BY <1>3
<1>6. ASSUME uploads[u].task = t PROVE Fresh(docs, b)
  <2>1. u >= b
    BY <1>1, <1>6, WorkerIsRecent
  <2>2. Fresh(old, b)
    BY <1>1, <1>2, <1>6 DEF Recent, Replaceable, Inserting
  <2> QED
    BY <1>3, <1>5, <2>1, <2>2 DEF Fresh
<1> QED
  BY <1>1, <1>4, <1>6, RecentWrite DEF InsertTest

(* Steps that write no test. *)
LEMMA RecentQuiet ==
    ASSUME StorageInv, StorageInv', UploadsKept, NEW t \in Tasks, NEW b \in Nat, Recent(t, b),
           testDocs' = testDocs,
           \A u \in Running(t)' : u >= b,
           \A w \in Workers : http'[w].pc = "insert" =>
              http'[w] = http[w] \/ testDocs[CurrentKey(w)'] = <<>>,
           \A w \in Workers : http'[w].pc # "idle" /\ uploads'[http'[w].up].task = t =>
              http'[w] = http[w] \/ DoneFresh(w, b)',
           taskMeta'[t].up = taskMeta[t].up \/ MetaFresh(t, b)'
    PROVE  Recent(t, b)' /\ FreshKept(t, b)
<1>1. FreshKept(t, b)
  BY DEF FreshKept
<1>2. ASSUME NEW key \in Keys, key.task = t, Replaceable(key) PROVE Replaceable(key)'
  <2>1. testDocs[key] # <<>>
    <3>1. Len(<<>>) = 0
      OBVIOUS
    <3>2. Len(testDocs[key]) = 1
      BY <1>2 DEF Replaceable
    <3> PICK docs : docs = testDocs[key]
      OBVIOUS
    <3>3. docs = <<>> => Len(docs) = 0
      BY <3>1
    <3> QED
      BY <3>2, <3>3
  <2>2. TypeOK
    BY DEF StorageInv
  <2>3. \A w \in Workers : http'[w].pc = "insert" => http'[w] = http[w] \/ CurrentKey(w)' # key
    BY <2>1
  <2>4. ~Inserting(key)'
    BY <1>2, <2>2, <2>3, NotInserting DEF Replaceable
  <2> QED
    BY <1>2, <2>4 DEF Replaceable
<1> QED
  BY <1>1, <1>2, RecentStep

LEMMA RecentNoMatch ==
    ASSUME StorageInv, StorageInv', WriterInv, NEW t \in Tasks, NEW b \in Nat, Recent(t, b),
           NEW w \in Workers, NoTestMatches(w)
    PROVE  Recent(t, b)' /\ FreshKept(t, b)
<1>1. TypeOK /\ TypeOK' /\ http \in [Workers -> Worker] /\ uploads \in Seq(Upload)
  BY DEF StorageInv, TypeOK, Worker, Upload
<1>2. /\ uploads' = uploads /\ testDocs' = testDocs /\ taskMeta' = taskMeta
      /\ http[w].pc = "tests" /\ testDocs[CurrentKey(w)] = <<>>
  BY DEF NoTestMatches
<1>3. http[w] \in Worker /\ http'[w] = [http[w] EXCEPT !.pc = "insert"] /\ \A x \in Workers : x # w => http'[x] = http[x]
  BY <1>1 DEF NoTestMatches
<1>4. http'[w].pc = "insert" /\ http'[w].up = http[w].up /\ http'[w].step = http[w].step
  BY <1>3 DEF Worker
<1>5. UploadsKept /\ \A u, k : KeyAt(u, k)' = KeyAt(u, k)
  BY <1>1, <1>2 DEF UploadsKept, KeyAt, TestsOf
<1>6. CurrentKey(w)' = CurrentKey(w)
  BY <1>4, <1>5 DEF CurrentKey
<1>7. \A u \in Running(t)' : u >= b
  BY <1>2 DEF Running, UploadsOf, Recent
<1>8. ASSUME uploads'[http'[w].up].task = t PROVE DoneFresh(w, b)'
  <2>1. AllFresh(http[w].up, http[w].step - 1, b)
    BY <1>2, <1>4, <1>8 DEF Recent, DoneFresh
  <2> QED
    BY <1>2, <1>4, <1>5, <2>1 DEF DoneFresh, AllFresh
<1>9. \A x \in Workers : http'[x].pc = "insert" => http'[x] = http[x] \/ testDocs[CurrentKey(x)'] = <<>>
  BY <1>2, <1>3, <1>6
<1>10. \A x \in Workers : http'[x].pc # "idle" /\ uploads'[http'[x].up].task = t =>
          http'[x] = http[x] \/ DoneFresh(x, b)'
  BY <1>3, <1>8
<1> QED
  BY <1>2, <1>5, <1>7, <1>9, <1>10, RecentQuiet

LEMMA RecentFinish ==
    ASSUME StorageInv, StorageInv', NEW t \in Tasks, NEW b \in Nat, Recent(t, b),
           NEW w \in Workers, http[w].pc # "idle", NEW st \in {"200", "400"}, Finish(w, st),
           testDocs' = testDocs, taskMeta'[t].up = taskMeta[t].up \/ MetaFresh(t, b)'
    PROVE  Recent(t, b)' /\ FreshKept(t, b)
<1> PICK u : u = http[w].up
  OBVIOUS
<1>1. TypeOK /\ TypeOK' /\ http \in [Workers -> Worker]
  BY DEF StorageInv, TypeOK, Worker
<1>2. http' = [http EXCEPT ![w] = Idle] /\ OnlyStatus(u) /\ uploads'[u].status = st
  BY <1>1, FinishFacts
<1>3. UploadsKept
  BY <1>2 DEF OnlyStatus
<1>4. http'[w].pc = "idle" /\ \A x \in Workers : x # w => http'[x] = http[x]
  BY <1>1, <1>2 DEF Idle
<1>5. \A v \in Running(t)' : v >= b
  <2> SUFFICES ASSUME NEW v \in Running(t)' PROVE v \in Running(t)
    BY DEF Recent
  <2>1. v \in 1..Len(uploads') /\ uploads'[v].task = t /\ uploads'[v].status = "running"
    BY <1>3, NewUploadsOfFacts
  <2>2. v # u /\ v \in 1..Len(uploads)
    BY <1>2, <2>1 DEF OnlyStatus
  <2>3. uploads'[v] = uploads[v]
    BY <1>2, <2>2 DEF OnlyStatus
  <2> QED
    BY <1>1, <2>1, <2>2, <2>3, UploadsOfFacts
<1> QED
  BY <1>3, <1>4, <1>5, RecentQuiet

LEMMA RecentMeta ==
    ASSUME StorageInv, StorageInv', NEW t \in Tasks, NEW b \in Nat, Recent(t, b),
           NEW w \in Workers, UpsertTaskMetaData(w)
    PROVE  Recent(t, b)' /\ FreshKept(t, b)
<1> PICK u : u = http[w].up
  OBVIOUS
<1>1. TypeOK /\ http[w].pc = "meta" /\ testDocs' = testDocs
  BY DEF StorageInv, UpsertTaskMetaData
<1>2. u \in 1..Len(uploads) /\ DOMAIN taskMeta = Tasks
  BY <1>1 DEF TypeOK
<1>3. PICK st \in {"200", "400"} : Finish(w, st)
  BY DEF UpsertTaskMetaData
<1>4. UploadsKept
  BY <1>1, <1>3, FinishFacts DEF OnlyStatus
<1>5. taskMeta' = [taskMeta EXCEPT ![uploads[u].task] =
                      [up |-> u, batches |-> SplitIntoBatches(uploads[u].req, BatchSize)]]
  BY DEF UpsertTaskMetaData
<1>6. CASE uploads[u].task # t
  <2>1. taskMeta'[t] = taskMeta[t]
    BY <1>2, <1>5, <1>6
  <2> QED
    BY <1>1, <1>3, <2>1, RecentFinish
<1>7. CASE uploads[u].task = t
  <2>1. taskMeta'[t].up = u
    BY <1>2, <1>5, <1>7
  <2> PICK n : n = 2 * TestsOf(u)
    OBVIOUS
  <2>2. n \in Nat /\ n <= 2 * TestsOf(u) /\ TestsOf(u)' = TestsOf(u)
    BY <1>1, <1>2, <1>4, UploadFacts, KeyAtKept
  <2>3. AllFresh(u, n, b)
    BY <1>1, <1>7 DEF Recent, DoneFresh
  <2>4. AllFresh(u, n, b)'
    BY <1>1, <1>2, <1>4, <1>7, <2>2, <2>3, AllFreshKept DEF FreshKept
  <2>5. MetaFresh(t, b)'
    BY <2>1, <2>2, <2>4 DEF MetaFresh
  <2> QED
    BY <1>1, <1>3, <2>5, RecentFinish
<1> QED
  BY <1>6, <1>7

LEMMA RecentCrash ==
    ASSUME StorageInv, StorageInv', WriterInv, NEW t \in Tasks, NEW b \in Nat, Recent(t, b), HttpCrash
    PROVE  Recent(t, b)' /\ FreshKept(t, b)
<1>1. testDocs' = testDocs /\ taskMeta' = taskMeta /\ \A w \in Workers : http'[w].pc = "idle"
  BY DEF HttpCrash, Idle
<1>2. TypeOK /\ TypeOK' /\ UploadsKept
  BY HttpCrashWorks DEF StorageInv
<1>3. \A v \in 1..Len(uploads') : uploads'[v].status # "running"
  <2>1. uploads \in Seq(Upload)
    BY <1>2 DEF TypeOK, Upload
  <2>2. DOMAIN uploads = 1..Len(uploads) /\ \A u \in 1..Len(uploads) : uploads[u] \in Upload
    BY <2>1
  <2>3. DOMAIN uploads' = DOMAIN uploads /\ DOMAIN uploads' = 1..Len(uploads')
    BY <1>2 DEF HttpCrash, UploadsKept
  <2>4. \A v \in DOMAIN uploads : uploads'[v].status # "running"
    BY <2>2 DEF HttpCrash, Upload
  <2> QED
    BY <2>3, <2>4
<1>4. Running(t)' = {}
  BY <1>2, <1>3, NewUploadsOfFacts
<1> QED
  BY <1>1, <1>2, <1>4, RecentQuiet

LEMMA RecentBegin ==
    ASSUME StorageInv, StorageInv', NEW t \in Tasks, NEW b \in Nat, Recent(t, b),
           NEW w \in Workers, NEW x \in Tasks, NEW last \in Nat, Begins(w, x, last)
    PROVE  Recent(t, b)' /\ FreshKept(t, b)
<1>1. TypeOK /\ TypeOK' /\ UploadsKept /\ testDocs' = testDocs /\ taskMeta' = taskMeta
  BY DEF StorageInv, Begins
<1>2. \A y \in Workers : y # w => http'[y] = http[y]
  BY DEF Begins
<1>3. http'[w].up = last /\ http'[w].step = 1 /\ http'[w].pc \in {"tests", "meta"}
      /\ (http'[w].pc = "meta" => TestsOf(last)' = 0)
  BY DEF Begins
<1>4. \A n \in Nat : n = 0 => AllFresh(last, n, b)'
  BY DEF AllFresh
<1>5. DoneFresh(w, b)'
  BY <1>3, <1>4 DEF DoneFresh
<1>6. \A v \in Running(t)' : v >= b
  <2> SUFFICES ASSUME NEW v \in Running(t)', v # last PROVE v \in Running(t)
    BY <1>1, UploadsOfFacts DEF Recent, Begins
  <2>1. v \in 1..Len(uploads') /\ uploads'[v].task = t /\ uploads'[v].status = "running"
    BY <1>1, NewUploadsOfFacts
  <2>2. v \in 1..Len(uploads)
    BY <1>1, <2>1, UploadsOfFacts DEF Begins
  <2>3. uploads[v].task = t /\ uploads[v].status = "running"
    BY <1>1, <2>1, <2>2 DEF Begins, UploadsKept
  <2> QED
    BY <1>1, <2>2, <2>3, UploadsOfFacts
<1> QED
  BY <1>1, <1>2, <1>3, <1>5, <1>6, RecentQuiet

LEMMA RecentKept ==
    ASSUME StorageInv, StorageInv', WriterInv, NEW t \in Tasks, NEW b \in Nat, Recent(t, b), [Next]_vars
    PROVE  Recent(t, b)' /\ FreshKept(t, b)
<1>1. TypeOK /\ TypeOK'
  BY DEF StorageInv
<1>2. ASSUME NEW w \in Workers, BeginUpload(w) PROVE Recent(t, b)' /\ FreshKept(t, b)
  <2>1. \E x \in Tasks, last \in Nat : Begins(w, x, last)
    BY <1>1, <1>2, BeginFacts
  <2> QED
    BY <2>1, RecentBegin
<1>3. ASSUME NEW w \in Workers, StorageError(w) PROVE Recent(t, b)' /\ FreshKept(t, b)
  BY <1>3, RecentFinish DEF StorageError
<1>4. CASE Works
  BY <1>3, <1>4, RecentUpdate, RecentInsert, RecentNoMatch, RecentMeta, RecentCrash DEF Works
<1>5. CASE UNCHANGED <<testDocs, taskMeta, uploads, http>>
  <2>1. UploadsKept
    BY <1>1, <1>5 DEF UploadsKept, TypeOK, Upload
  <2>2. \A u \in Running(t)' : u >= b
    BY <1>5 DEF Running, UploadsOf, Recent
  <2> QED
    BY <1>5, <2>1, <2>2, RecentQuiet
<1> QED
  BY <1>2, <1>4, <1>5, StepKinds

(***************************************************************************)
(* When the last upload of a task was accepted and no two overlapped,      *)
(* nothing older than it is left for its tests.                            *)
(***************************************************************************)
LEMMA SettledIsRecent ==
    ASSUME StorageInv, WriterInv, NEW t \in Tasks, OneByOne(t),
           NEW b, b = LastAccepted(t), \A v \in UploadsOf(t) : v <= b
    PROVE  b \in Nat /\ Recent(t, b)
<1>1. TypeOK /\ HasLast(t) /\ Content(t) /\ Exclusive /\ testDocs \in [Keys -> Seq(1..MaxUploads)]
  BY DEF StorageInv, WriterInv, TypeOK
<1>2. /\ Len(uploads) \in Nat
      /\ \A u : u \in UploadsOf(t) <=> u \in 1..Len(uploads) /\ uploads[u].task = t
  BY <1>1, UploadsOfFacts
<1>3. b = 0 \/ (b \in 1..Len(uploads) /\ b \in Accepted(t))
  BY <1>1, LastAcceptedFacts
<1>4. b \in Nat /\ b <= Len(uploads)
  BY <1>2, <1>3
<1>5. Running(t) = {}
  <2> SUFFICES ASSUME NEW v \in Running(t) PROVE FALSE
    OBVIOUS
  <2>1. v \in 1..Len(uploads) /\ uploads[v].task = t /\ uploads[v].status = "running" /\ v \in UploadsOf(t)
    BY <1>1, <1>2, UploadsOfFacts
  <2>2. b \in Accepted(t) /\ v <= b /\ b \in 1..Len(uploads)
    BY <1>3, <2>1
  <2>3. uploads[b].task = t /\ uploads[b].status = "200"
    BY <1>1, <2>2, UploadsOfFacts
  <2>4. b > v
    BY <2>1, <2>2, <2>3
  <2>5. ~uploads[v].solo
    BY <1>1, <2>1, <2>2, <2>3, <2>4 DEF Exclusive
  <2> QED
    BY <2>1, <2>5 DEF OneByOne
<1>6. \A w \in Workers : http[w].pc # "idle" => uploads[http[w].up].task # t
  <2> SUFFICES ASSUME NEW w \in Workers, http[w].pc # "idle", uploads[http[w].up].task = t PROVE FALSE
    OBVIOUS
  <2>1. http[w].up \in 1..Len(uploads) /\ uploads[http[w].up].status = "running"
    BY <1>1 DEF TypeOK, Exclusive
  <2>2. http[w].up \in Running(t)
    BY <1>1, <2>1, UploadsOfFacts
  <2> QED
    BY <1>5, <2>2
<1>7. ASSUME NEW key \in Keys, key.task = t PROVE Fresh(testDocs[key], b) \/ Replaceable(key)
  <2> PICK docs : docs = testDocs[key]
    OBVIOUS
  <2>1. docs \in Seq(1..MaxUploads) /\ Len(docs) \in Nat /\ Len(docs) <= 1
    BY <1>1, <1>7 DEF Content
  <2>2. ~Inserting(key)
    <3> SUFFICES ASSUME NEW w \in Workers, http[w].pc = "insert", CurrentKey(w) = key PROVE FALSE
      BY DEF Inserting
    <3>1. CurrentKey(w).task = uploads[http[w].up].task
      BY CurrentTask
    <3> QED
      BY <1>6, <1>7, <3>1
  <2>3. CASE Len(docs) = 0
    BY <2>3 DEF Fresh
  <2>4. CASE Len(docs) = 1
    BY <2>2, <2>4 DEF Replaceable
  <2>5. Len(docs) = 0 \/ Len(docs) = 1
    <3> PICK len : len = Len(docs)
      OBVIOUS
    <3>1. len \in Nat /\ len <= 1
      BY <2>1
    <3> QED
      BY <3>1, NoneOrOne
  <2> QED
    BY <2>3, <2>4, <2>5, Zenon
<1>8. MetaFresh(t, b)
  <2> SUFFICES ASSUME taskMeta[t].up # 0 PROVE AllFresh(taskMeta[t].up, 2 * TestsOf(taskMeta[t].up), b)
    BY DEF MetaFresh
  <2>1. taskMeta[t].up \in UploadsOf(t)
    BY MetaFacts
  <2>2. b \in Accepted(t) /\ b \in 1..Len(uploads)
    BY <1>2, <1>3, <2>1
  <2>3. b \in UploadsOf(t) /\ uploads[b].status = "200" /\ uploads[b].task = t
    BY <1>1, <1>2, <2>2, UploadsOfFacts
  <2>4. InPlace(b)
    BY <1>1, <2>3 DEF Content
  <2>5. taskMeta[t].up = b /\ Complete(b)
    <3>1. taskMeta[uploads[b].task].up = b /\ Complete(b)
      BY <2>4 DEF InPlace
    <3> QED
      BY <2>3, <3>1
  <2>6. TestsOf(b) \in Nat
    BY <1>1, <2>2, UploadFacts
  <2>7. ASSUME NEW k \in 1..(2 * TestsOf(b)) PROVE Fresh(testDocs[KeyAt(b, k)], b)
    <3>1. CASE k <= TestsOf(b)
      <4>1. KeyAt(b, k) = Key(uploads[b].task, k, "input") /\ k \in 1..TestsOf(b)
        BY <2>6, <2>7, <3>1 DEF KeyAt
      <4>2. IsOnly(testDocs[KeyAt(b, k)], b)
        BY <2>5, <4>1 DEF Complete, TestTypes
      <4> QED
        BY <1>4, <4>2 DEF IsOnly, Fresh
    <3>2. CASE ~(k <= TestsOf(b))
      <4> PICK i : i = k - TestsOf(b)
        OBVIOUS
      <4>1. KeyAt(b, k) = Key(uploads[b].task, i, "output") /\ i \in 1..TestsOf(b)
        BY <2>6, <2>7, <3>2 DEF KeyAt
      <4>2. IsOnly(testDocs[KeyAt(b, k)], b)
        BY <2>5, <4>1 DEF Complete, TestTypes
      <4> QED
        BY <1>4, <4>2 DEF IsOnly, Fresh
    <3> QED
      BY <3>1, <3>2
  <2> QED
    BY <2>5, <2>7 DEF AllFresh
<1> QED
  BY <1>4, <1>5, <1>6, <1>7, <1>8 DEF Recent

LEMMA ChosenLargest ==
    ASSUME NEW S, S # {}, \E u \in S : \A v \in S : v <= u
    PROVE  LET m == CHOOSE u \in S : \A v \in S : v <= u IN m \in S /\ \A v \in S : v <= m
OBVIOUS

(* A step of a worker changes one status, that of its upload. *)
LEMMA WorksOnStatus ==
    ASSUME StorageInv, Works
    PROVE  HttpCrash \/ \E w \in Workers : http[w].pc # "idle" /\ OnlyStatus(http[w].up)
<1>1. TypeOK
  BY DEF StorageInv
<1>2. ASSUME NEW w \in Workers, NextUpdate(w) PROVE OnlyStatus(http[w].up)
  BY <1>1, <1>2 DEF NextUpdate, OnlyStatus, UploadsKept, TypeOK, Upload
<1>3. ASSUME NEW w \in Workers, http[w].pc # "idle", NEW st \in {"200", "400"}, Finish(w, st)
      PROVE  OnlyStatus(http[w].up)
  BY <1>1, <1>3, FinishFacts
<1>4. ASSUME NEW w \in Workers, UpdateTest(w) PROVE http[w].pc # "idle" /\ OnlyStatus(http[w].up)
  BY <1>2, <1>3, <1>4 DEF UpdateTest
<1>5. ASSUME NEW w \in Workers, InsertTest(w) PROVE http[w].pc # "idle" /\ OnlyStatus(http[w].up)
  BY <1>2, <1>3, <1>5 DEF InsertTest
<1>6. ASSUME NEW w \in Workers, NoTestMatches(w) PROVE http[w].pc # "idle" /\ OnlyStatus(http[w].up)
  BY <1>1, <1>6 DEF NoTestMatches, OnlyStatus, UploadsKept, TypeOK, Upload
<1>7. ASSUME NEW w \in Workers, UpsertTaskMetaData(w) PROVE http[w].pc # "idle" /\ OnlyStatus(http[w].up)
  BY <1>3, <1>7 DEF UpsertTaskMetaData
<1>8. ASSUME NEW w \in Workers, StorageError(w) PROVE http[w].pc # "idle" /\ OnlyStatus(http[w].up)
  BY <1>3, <1>8 DEF StorageError
<1> QED
  BY <1>4, <1>5, <1>6, <1>7, <1>8 DEF Works

(* The last accepted upload of a task stays what it is, or the last upload becomes it. *)
LEMMA StepAccepts ==
    ASSUME StorageInv, StorageInv', WriterInv, WriterInv', [Next]_vars, NEW t \in Tasks, OneByOne(t)'
    PROVE  /\ OneByOne(t)
           /\ \/ LastAccepted(t)' = LastAccepted(t)
              \/ \A v \in UploadsOf(t)' : v <= LastAccepted(t)'
<1>1. TypeOK /\ TypeOK' /\ HasLast(t)'
  BY DEF StorageInv, WriterInv
<1>2. /\ LastAccepted(t) = IF Accepted(t) = {} THEN 0
                           ELSE CHOOSE u \in Accepted(t) : \A v \in Accepted(t) : v <= u
      /\ LastAccepted(t)' = IF Accepted(t)' = {} THEN 0
                            ELSE CHOOSE u \in Accepted(t)' : \A v \in Accepted(t)' : v <= u
  BY DEF LastAccepted, Accepted
<1> DEFINE Goal == OneByOne(t) /\ \/ Accepted(t)' = Accepted(t)
                                  \/ \E u \in Accepted(t)' : \A v \in UploadsOf(t)' : v <= u
<1>3. ASSUME NEW w \in Workers, BeginUpload(w) PROVE Goal
  <2>1. PICK x \in Tasks, last \in Nat : Begins(w, x, last)
    BY <1>1, <1>3, BeginFacts
  <2>2. /\ UploadsKept /\ last = Len(uploads) + 1 /\ Len(uploads') = last /\ Len(uploads) \in Nat
        /\ uploads'[last].status = "running"
        /\ \A u \in 1..Len(uploads) : /\ uploads'[u].status = uploads[u].status
                                      /\ u \in Running(x) => ~uploads'[u].solo
                                      /\ u \notin Running(x) => uploads'[u] = uploads[u]
    BY <1>1, <2>1, UploadsOfFacts DEF Begins
  <2>3. \A u : u \in Accepted(t)' <=> u \in Accepted(t)
    BY <1>1, <2>2, UploadsOfFacts, NewUploadsOfFacts DEF UploadsKept
  <2>4. ASSUME NEW u \in UploadsOf(t) PROVE uploads[u].solo
    <3>1. u \in 1..Len(uploads) /\ uploads[u].task = t
      BY <1>1, <2>4, UploadsOfFacts
    <3>2. u \in 1..Len(uploads') /\ uploads'[u].task = t
      BY <2>2, <3>1 DEF UploadsKept
    <3>3. uploads'[u].solo
      BY <2>2, <3>2, NewUploadsOfFacts DEF OneByOne
    <3> QED
      BY <2>2, <3>1, <3>3
  <2> QED
    BY <2>3, <2>4 DEF OneByOne
<1>4. ASSUME HttpCrash PROVE Goal
  <2>1. UploadsKept
    BY <1>1, <1>4, HttpCrashWorks
  <2>2. DOMAIN uploads = 1..Len(uploads) /\ \A u \in 1..Len(uploads) : uploads[u] \in Upload
    <3>1. uploads \in Seq(Upload)
      BY <1>1 DEF TypeOK, Upload
    <3> QED
      BY <3>1
  <2>3. DOMAIN uploads' = DOMAIN uploads /\ DOMAIN uploads' = 1..Len(uploads')
    BY <1>4, <2>1 DEF HttpCrash, UploadsKept
  <2>4. \A u \in DOMAIN uploads : /\ uploads'[u].solo = uploads[u].solo
                                  /\ uploads'[u].status = "200" <=> uploads[u].status = "200"
    BY <1>4, <2>2 DEF HttpCrash, Upload
  <2>5. \A u : /\ u \in Accepted(t)' <=> u \in Accepted(t)
               /\ u \in UploadsOf(t)' <=> u \in UploadsOf(t)
               /\ u \in UploadsOf(t) => uploads'[u].solo = uploads[u].solo
    BY <1>1, <2>1, <2>2, <2>3, <2>4, UploadsOfFacts, NewUploadsOfFacts DEF UploadsKept
  <2> QED
    BY <2>5 DEF OneByOne
<1>5. ASSUME NEW w \in Workers, http[w].pc # "idle", OnlyStatus(http[w].up) PROVE Goal
  <2> PICK u : u = http[w].up
    OBVIOUS
  <2>1. u \in 1..Len(uploads) /\ uploads[u].status = "running"
    BY <1>1, <1>5 DEF TypeOK, WriterInv, Exclusive
  <2>2. /\ UploadsKept /\ Len(uploads') = Len(uploads)
        /\ \A v \in 1..Len(uploads) : v # u => uploads'[v] = uploads[v]
        /\ \A v \in 1..Len(uploads) : uploads'[v].solo = uploads[v].solo
    BY <1>5 DEF OnlyStatus
  <2>3. \A v : v \in UploadsOf(t)' <=> v \in UploadsOf(t)
    BY <1>1, <2>2, UploadsOfFacts, NewUploadsOfFacts DEF UploadsKept
  <2>4. OneByOne(t)
    <3>1. \A v \in UploadsOf(t) : uploads'[v].solo = uploads[v].solo
      BY <1>1, <2>2, UploadsOfFacts
    <3> QED
      BY <2>3, <3>1 DEF OneByOne
  <2>5. CASE uploads[u].task # t \/ uploads'[u].status # "200"
    <3>1. \A v : v \in Accepted(t)' <=> v \in Accepted(t)
      BY <1>1, <2>1, <2>2, <2>5, UploadsOfFacts, NewUploadsOfFacts DEF UploadsKept
    <3> QED
      BY <2>4, <3>1
  <2>6. CASE uploads[u].task = t /\ uploads'[u].status = "200"
    <3>1. Alone(w, u, t)
      BY <1>5, <2>4, <2>6, AloneAtWork DEF WriterInv
    <3>2. u \in Accepted(t)'
      BY <2>1, <2>2, <2>6, NewUploadsOfFacts DEF UploadsKept
    <3> QED
      BY <2>3, <2>4, <3>1, <3>2 DEF Alone
  <2> QED
    BY <2>5, <2>6
<1>6. ASSUME UNCHANGED <<testDocs, taskMeta, uploads, http>> PROVE Goal
  <2>1. Accepted(t)' = Accepted(t) /\ (OneByOne(t)' <=> OneByOne(t))
    BY <1>6 DEF Accepted, UploadsOf, OneByOne
  <2> QED
    BY <2>1
<1>7. Goal
  <2> HIDE DEF Goal
  <2> QED
    BY <1>3, <1>4, <1>5, <1>6, StepKinds, WorksOnStatus
<1>8. CASE Accepted(t)' = Accepted(t)
  BY <1>2, <1>7, <1>8
<1>9. ASSUME NEW u \in Accepted(t)', \A v \in UploadsOf(t)' : v <= u
      PROVE  \A v \in UploadsOf(t)' : v <= LastAccepted(t)'
  <2>1. u <= LastAccepted(t)' /\ LastAccepted(t)' \in Accepted(t)'
    <3>1. Accepted(t)' # {}
      BY <1>9
    <3> QED
      BY <1>1, <1>2, <1>9, <3>1, ChosenLargest DEF HasLast
  <2>2. Accepted(t)' \subseteq UploadsOf(t)'
    BY DEF Accepted
  <2>3. UploadsOf(t)' \subseteq Nat
    BY <1>1 DEF UploadsOf, TypeOK
  <2> QED
    BY <1>9, <2>1, <2>2, <2>3
<1> QED
  BY <1>7, <1>8, <1>9

----------------------------------------------------------------------------
(***************************************************************************)
(* A session begun after uploads that were made one at a time: what it has *)
(* been served, what it has read and what its cursor can still deliver is  *)
(* not older than its base.                                                *)
(***************************************************************************)
ServedRecent(x) == \A k \in 1..Len(x.served) : x.served[k][1] >= x.base /\ x.served[k][2] >= x.base
ReadRecent(x) == \A p \in x.seen : x.cells[p[1].type][p[1].id] >= x.base
LeftRecent(x) == \A id \in x.front..x.back, type \in TestTypes :
                    Fresh(testDocs[Key(x.task, id, type)], x.base)

UpToDate(x) ==
    x.solo =>
        /\ Live(x) => Recent(x.task, x.base)
        /\ x.pc = "cursor" => LeftRecent(x) /\ ReadRecent(x)
        /\ ServedRecent(x)

TasksRecent == \A t \in Tasks : OneByOne(t) => Recent(t, LastAccepted(t))
SessionsRecent == \A s \in Sessions : UpToDate(session[s])
RecentInv == TasksRecent /\ SessionsRecent

(* The tasks whose last upload was accepted. *)
AtRest == \A t \in Tasks :
             OneByOne(t) /\ (\A v \in UploadsOf(t) : v <= LastAccepted(t)) => Recent(t, LastAccepted(t))

LEMMA AtRestFollows == StorageInv /\ WriterInv => AtRest
  BY SettledIsRecent DEF AtRest

LEMMA TasksStep ==
    ASSUME StorageInv, StorageInv', WriterInv, WriterInv', AtRest', TasksRecent, [Next]_vars
    PROVE  TasksRecent'
<1> SUFFICES ASSUME NEW t \in Tasks, OneByOne(t)' PROVE Recent(t, LastAccepted(t))'
  BY DEF TasksRecent
<1>1. OneByOne(t) /\ \/ LastAccepted(t)' = LastAccepted(t)
                     \/ \A v \in UploadsOf(t)' : v <= LastAccepted(t)'
  BY StepAccepts
<1>2. CASE \A v \in UploadsOf(t)' : v <= LastAccepted(t)'
  BY <1>2 DEF AtRest
<1>3. CASE LastAccepted(t)' = LastAccepted(t)
  <2> PICK b : b = LastAccepted(t)
    OBVIOUS
  <2>1. b \in Nat
    BY LastAcceptedFacts, BoundsAssumption DEF StorageInv, WriterInv, UploadIds
  <2>2. Recent(t, b)
    BY <1>1 DEF TasksRecent
  <2>3. Recent(t, b)'
    BY <2>1, <2>2, RecentKept
  <2> QED
    BY <1>3, <2>3
<1> QED
  BY <1>1, <1>2, <1>3

(* What a step of the storage leaves of a session that has it. *)
LEMMA UpToDateKept ==
    ASSUME StorageInv, StorageInv', WriterInv, [Next]_vars,
           NEW x, x \in Session, Live(x) => x.task \in Tasks, Reading(x), UpToDate(x)
    PROVE  UpToDate(x)'
<1> SUFFICES ASSUME x.solo
             PROVE  /\ Live(x) => Recent(x.task, x.base)'
                    /\ x.pc = "cursor" => LeftRecent(x)' /\ ReadRecent(x)
                    /\ ServedRecent(x)
  BY DEF UpToDate, ReadRecent, ServedRecent, Live
<1>1. /\ Live(x) => Recent(x.task, x.base)
      /\ x.pc = "cursor" => LeftRecent(x) /\ ReadRecent(x)
      /\ ServedRecent(x)
  BY DEF UpToDate
<1> PICK t, b : t = x.task /\ b = x.base
  OBVIOUS
<1>2. b \in Nat
  BY BoundsAssumption DEF Session, UploadIds
<1>3. ASSUME Live(x) PROVE Recent(t, b)' /\ FreshKept(t, b)
  BY <1>1, <1>2, <1>3, RecentKept
<1>4. ASSUME x.pc = "cursor" PROVE LeftRecent(x)'
  <2> SUFFICES ASSUME NEW id \in x.front..x.back, NEW type \in TestTypes
               PROVE  Fresh(testDocs'[Key(t, id, type)], b)
    BY DEF LeftRecent, Fresh, Key
  <2>1. Live(x) /\ Bound(x)
    BY <1>4 DEF Live, Reading
  <2>2. id \in TestIds
    BY <2>1, BoundsAssumption DEF Bound, TestIds
  <2>3. Key(t, id, type) \in Keys /\ Key(t, id, type).task = t
    BY <2>1, <2>2 DEF Key, Keys
  <2>4. Fresh(testDocs[Key(t, id, type)], b)
    BY <1>1, <1>4 DEF LeftRecent
  <2> QED
    BY <1>3, <2>1, <2>3, <2>4 DEF FreshKept
<1> QED
  BY <1>1, <1>3, <1>4

LEMMA FailedIsUpToDate == UpToDate([NewSession EXCEPT !.pc = "failed"])
<1> PICK y : y = [NewSession EXCEPT !.pc = "failed"]
  OBVIOUS
<1>1. y.pc = "failed" /\ y.served = <<>>
  BY NewSessionFacts DEF Session
<1>2. ServedRecent(y)
  BY <1>1 DEF ServedRecent
<1>3. UpToDate(y)
  BY <1>1, <1>2 DEF UpToDate, Live
<1> QED
  BY <1>3

LEMMA BegunIsUpToDate ==
    ASSUME TasksRecent, NEW x, Good(x), x.pc = "idle", NEW t \in Tasks, NEW y,
           y = [x EXCEPT !.pc = "ready", !.task = t, !.batchCount = Len(taskMeta[t].batches),
                         !.calm = (Running(t) = {}),
                         !.solo = \A u \in UploadsOf(t) : uploads[u].solo,
                         !.base = LastAccepted(t),
                         !.torn = \E u \in UploadsOf(t) : u > LastAccepted(t)]
    PROVE  UpToDate(y)
<1>1. x \in Session /\ x.served = <<>>
  BY DEF Good, Typed
<1>2. y.pc = "ready" /\ y.task = t /\ y.base = LastAccepted(t) /\ y.served = <<>>
  BY <1>1 DEF Session
<1>3. y.solo = OneByOne(t)
  BY <1>1, Zenon DEF Session, OneByOne
<1>4. ServedRecent(y)
  BY <1>2 DEF ServedRecent
<1>5. y.solo => Recent(t, LastAccepted(t))
  BY <1>3, Zenon DEF TasksRecent
<1> QED
  BY <1>2, <1>4, <1>5 DEF UpToDate

LEMMA OpenIsUpToDate ==
    ASSUME StorageInv, NEW x, Good(x), UpToDate(x), x.pc = "ready",
           x.batchId < Len(taskMeta[x.task].batches), Len(Batch(x)) > 0,
           NEW front, front = FrontId(Batch(x)), NEW back, back = BackId(Batch(x)), NEW y,
           y = [x EXCEPT !.pc = "cursor", !.front = front, !.back = back,
                         !.due = DocsBetween(x.task, front, back),
                         !.seen = {}, !.cells = NoCells]
    PROVE  UpToDate(y)
<1> PICK u, bs, b, n, t :
      /\ u = taskMeta[x.task].up /\ bs = taskMeta[x.task].batches /\ b = x.batchId + 1
      /\ n = TestsOf(u) /\ t = x.task
  OBVIOUS
<1>1. Live(x) /\ x \in Session
  BY DEF Live, Good, Typed
<1>2. /\ t \in Tasks /\ taskMeta[t].up # 0 /\ IsSplit(bs, n)
      /\ u \in 1..Len(uploads) /\ uploads[u].task = t
      /\ n \in Nat /\ n <= MaxTests /\ Batch(x) = bs[b] /\ b \in 1..Len(bs)
  BY <1>1, BatchFacts
<1>3. n > 0
  <2> SUFFICES ASSUME n = 0 PROVE FALSE
    BY <1>2, NonzeroIsPositive, Zenon
  <2>1. Len(bs) = 1 /\ bs[1] = <<>>
    BY <1>2 DEF IsSplit
  <2>2. b = 1
    BY <1>2, <2>1
  <2>3. Len(bs[b]) = 0
    BY <2>1, <2>2
  <2> QED
    BY <1>2, <2>3
<1>4. front \in 1..n /\ back \in 1..n
  BY <1>2, <1>3 DEF IsSplit
<1>5. /\ y.pc = "cursor" /\ y.task = t /\ y.front = front /\ y.back = back /\ y.seen = {}
      /\ y.served = x.served /\ y.base = x.base /\ y.solo = x.solo
  BY <1>1 DEF Session
<1>6. ASSUME x.solo PROVE Recent(t, x.base) /\ ServedRecent(x)
  BY <1>1, <1>6 DEF UpToDate
<1>7. ASSUME x.solo, NEW id \in front..back, NEW type \in TestTypes
      PROVE  Fresh(testDocs[Key(t, id, type)], x.base)
  <2>1. id \in 1..n /\ AllFresh(u, 2 * n, x.base)
    <3>1. n \in Nat /\ taskMeta[t].up # 0
      BY <1>2
    <3>2. id \in 1..n
      BY <1>4, <3>1, BetweenTwo
    <3>3. MetaFresh(t, x.base)
      BY <1>6, <1>7 DEF Recent
    <3> QED
      BY <3>1, <3>2, <3>3 DEF MetaFresh
  <2>2. CASE type = "input"
    <3>1. KeyAt(u, id) = Key(t, id, type) /\ id \in 1..(2 * n)
      BY <1>2, <2>1, <2>2 DEF KeyAt
    <3> QED
      BY <2>1, <3>1 DEF AllFresh
  <2>3. CASE type = "output"
    <3> PICK k : k = id + n
      OBVIOUS
    <3>1. k \in 1..(2 * n) /\ ~(k <= n) /\ k - n = id
      BY <1>2, <2>1, SecondHalf, Zenon
    <3>2. KeyAt(u, k) = Key(t, id, type)
      BY <1>2, <2>3, <3>1 DEF KeyAt
    <3> QED
      BY <2>1, <3>1, <3>2 DEF AllFresh
  <2> QED
    BY <2>2, <2>3 DEF TestTypes
<1>8. x.solo => LeftRecent(y) /\ ReadRecent(y) /\ ServedRecent(y) /\ Recent(y.task, y.base)
  BY <1>5, <1>6, <1>7 DEF LeftRecent, ReadRecent, ServedRecent
<1> QED
  BY <1>5, <1>8 DEF UpToDate

LEMMA ReadIsUpToDate ==
    ASSUME StorageInv, NEW x, Good(x), UpToDate(x), x.pc = "cursor",
           NEW p \in DocsBetween(x.task, x.front, x.back),
           NEW v, v = testDocs[p[1]][p[2]],
           NEW cells, cells = [x.cells EXCEPT ![p[1].type] = [x.cells[p[1].type] EXCEPT ![p[1].id] = v]],
           NEW y, y = [x EXCEPT !.cells = cells, !.seen = x.seen \cup {p}]
    PROVE  UpToDate(y)
<1> PICK key, k : key = p[1] /\ k = p[2]
  OBVIOUS
<1>1. Live(x) /\ x \in Session /\ Bound(x) /\ TypeOK /\ x.task \in Tasks
  BY DEF Live, Good, Typed, Reading, StorageInv
<1>2. /\ p \in Documents /\ key \in Keys /\ k \in 1..MaxUploads /\ key.task = x.task
      /\ x.front <= key.id /\ key.id <= x.back /\ k <= Len(testDocs[key])
  BY DEF DocsBetween, Documents
<1>3. key.type \in TestTypes /\ key.id \in TestIds /\ key = Key(x.task, key.id, key.type)
  BY <1>2 DEF Keys, Key
<1>4. key.id \in x.front..x.back
  BY <1>1, <1>2, <1>3, BoundsAssumption DEF Bound, TestIds
<1>5. v \in UploadIds /\ k \in 1..Len(testDocs[key])
  <2> PICK docs : docs = testDocs[key]
    OBVIOUS
  <2>1. docs \in Seq(1..MaxUploads)
    BY <1>1, <1>2 DEF TypeOK
  <2>2. k \in 1..Len(docs) /\ v = docs[k]
    BY <1>2, <2>1, BoundsAssumption
  <2>3. docs[k] \in 1..MaxUploads
    BY <2>1, <2>2, ElementOf
  <2> QED
    BY <2>2, <2>3, BoundsAssumption DEF UploadIds
<1>6. x.cells \in Cells /\ x.seen \in SUBSET Documents
  BY <1>1 DEF Session
<1>7. \A ty \in TestTypes, i \in TestIds :
         cells[ty][i] = IF ty = key.type /\ i = key.id THEN v ELSE x.cells[ty][i]
  <2> PICK type, id, before : type = key.type /\ id = key.id /\ before = x.cells
    OBVIOUS
  <2>1. cells = [before EXCEPT ![type] = [before[type] EXCEPT ![id] = v]]
    OBVIOUS
  <2>2. before \in Cells /\ type \in TestTypes /\ id \in TestIds /\ v \in UploadIds
    BY <1>3, <1>5, <1>6
  <2>3. Differs(cells, before, type, id, v)
    BY <2>1, <2>2, CellWritten
  <2> QED
    BY <2>3 DEF Differs
<1>8. /\ y.pc = x.pc /\ y.task = x.task /\ y.front = x.front /\ y.back = x.back
      /\ y.seen = x.seen \cup {p} /\ y.cells = cells /\ y.served = x.served /\ y.base = x.base
      /\ y.solo = x.solo
  BY <1>1 DEF Session
<1>9. \A q \in Documents : q[1].type \in TestTypes /\ q[1].id \in TestIds
  BY DEF Documents, Keys
<1>10. ASSUME x.solo PROVE ReadRecent(y)
  <2>1. LeftRecent(x) /\ ReadRecent(x)
    BY <1>10 DEF UpToDate
  <2>2. v >= x.base
    <3>1. Fresh(testDocs[key], x.base)
      BY <1>3, <1>4, <2>1 DEF LeftRecent
    <3> QED
      BY <1>5, <3>1 DEF Fresh
  <2> SUFFICES ASSUME NEW q \in y.seen PROVE y.cells[q[1].type][q[1].id] >= y.base
    BY DEF ReadRecent
  <2>3. q \in Documents /\ (q = p \/ q \in x.seen)
    BY <1>2, <1>6, <1>8
  <2>4. q \in x.seen => x.cells[q[1].type][q[1].id] >= x.base
    BY <2>1 DEF ReadRecent
  <2> QED
    BY <1>7, <1>8, <1>9, <2>2, <2>3, <2>4
<1>11. x.solo => LeftRecent(y) /\ ServedRecent(y) /\ Recent(y.task, y.base)
  BY <1>1, <1>8 DEF UpToDate, LeftRecent, ServedRecent
<1> QED
  BY <1>8, <1>10, <1>11 DEF UpToDate

LEMMA MoreIsRecent ==
    ASSUME NEW a \in Served, NEW c \in Served, NEW b,
           \A k \in 1..Len(a) : a[k][1] >= b /\ a[k][2] >= b,
           \A k \in 1..Len(c) : c[k][1] >= b /\ c[k][2] >= b
    PROVE  \A k \in 1..Len(a \o c) : (a \o c)[k][1] >= b /\ (a \o c)[k][2] >= b
<1> PICK S : S = UploadIds \X UploadIds
  OBVIOUS
<1>1. a \in Seq(S) /\ c \in Seq(S) /\ Len(a) \in Nat /\ Len(c) \in Nat
  BY DEF Served
<1>2. Len(a \o c) = Len(a) + Len(c)
  BY <1>1
<1> SUFFICES ASSUME NEW k \in 1..Len(a \o c) PROVE (a \o c)[k][1] >= b /\ (a \o c)[k][2] >= b
  OBVIOUS
<1>3. k \in 1..(Len(a) + Len(c))
  BY <1>2
<1>4. CASE k <= Len(a)
  <2>1. k \in 1..Len(a) /\ (a \o c)[k] = a[k]
    BY <1>1, <1>3, <1>4
  <2> QED
    BY <2>1
<1>5. CASE ~(k <= Len(a))
  <2>1. k - Len(a) \in 1..Len(c) /\ (a \o c)[k] = c[k - Len(a)]
    BY <1>1, <1>3, <1>5
  <2> QED
    BY <2>1
<1> QED
  BY <1>4, <1>5

LEMMA AnswerIsRecent ==
    ASSUME NEW x, x \in Session, Bound(x), x.due \subseteq x.seen, ReadRecent(x), NEW a, a = Answer(x)
    PROVE  \A k \in 1..Len(a) : a[k][1] >= x.base /\ a[k][2] >= x.base
<1> PICK n, in, out : /\ n = x.back + 1 - x.front
                      /\ in = x.cells["input"] /\ out = x.cells["output"]
  OBVIOUS
<1>1. /\ x.front \in Nat /\ x.back \in Nat /\ x.front <= x.back
  BY BoundsAssumption DEF Bound, TestIds
<1>2. n \in Nat /\ \A k \in 1..n : x.front + k - 1 \in x.front..x.back
  BY <1>1
<1>3. a = [k \in 1..n |-> <<in[x.front + k - 1], out[x.front + k - 1]>>]
  BY DEF Answer
<1>4. Len(a) = n
  BY <1>2, <1>3
<1>5. \A k \in 1..n : a[k][1] = in[x.front + k - 1] /\ a[k][2] = out[x.front + k - 1]
  BY <1>3
<1>6. ASSUME NEW k \in 1..n PROVE in[x.front + k - 1] >= x.base /\ out[x.front + k - 1] >= x.base
  <2> PICK id : id = x.front + k - 1
    OBVIOUS
  <2>1. id \in x.front..x.back /\ "input" \in TestTypes /\ "output" \in TestTypes
    BY <1>2 DEF TestTypes
  <2>2. /\ \E p \in x.seen : p[1].type = "input" /\ p[1].id = id
        /\ \E p \in x.seen : p[1].type = "output" /\ p[1].id = id
    BY <2>1, DeliveredCells
  <2> QED
    BY <2>2 DEF ReadRecent
<1> QED
  BY <1>4, <1>5, <1>6

LEMMA CloseIsUpToDate ==
    ASSUME NEW x, Good(x), UpToDate(x), x.pc = "cursor", x.due \subseteq x.seen, NEW y,
           y = [x EXCEPT !.served = x.served \o Answer(x), !.batchId = x.batchId + 1,
                         !.front = 1, !.back = 0, !.due = {}, !.seen = {}, !.cells = NoCells,
                         !.pc = IF x.batchId + 1 = x.batchCount THEN "done" ELSE "ready"]
    PROVE  UpToDate(y)
<1> PICK old, a, b : old = x.served /\ a = Answer(x) /\ b = x.base
  OBVIOUS
<1>1. Live(x) /\ x \in Session /\ Bound(x)
  BY DEF Live, Good, Typed, Reading
<1>2. old \in Served /\ a \in Served
  BY <1>1, AnswerFacts DEF Session
<1>3. y.pc # "cursor" /\ y.task = x.task /\ y.served = old \o a /\ y.base = b /\ y.solo = x.solo
  BY <1>1 DEF Session
<1>4. ASSUME x.solo PROVE ServedRecent(y) /\ Recent(x.task, b)
  <2>1. ReadRecent(x) /\ ServedRecent(x) /\ Recent(x.task, b)
    BY <1>1, <1>4 DEF UpToDate
  <2>2. \A k \in 1..Len(a) : a[k][1] >= b /\ a[k][2] >= b
    BY <1>1, <2>1, AnswerIsRecent
  <2>3. \A k \in 1..Len(old) : old[k][1] >= b /\ old[k][2] >= b
    BY <2>1 DEF ServedRecent
  <2>4. \A k \in 1..Len(old \o a) : (old \o a)[k][1] >= b /\ (old \o a)[k][2] >= b
    BY <1>2, <2>2, <2>3, MoreIsRecent
  <2> QED
    BY <1>3, <2>1, <2>4 DEF ServedRecent
<1> QED
  BY <1>3, <1>4 DEF UpToDate

LEMMA UndefinedIsUpToDate ==
    ASSUME NEW x, Good(x), UpToDate(x), NEW y, y = [x EXCEPT !.pc = "undefined"]
    PROVE  UpToDate(y)
<1>1. x \in Session
  BY DEF Good, Typed
<1>2. y.pc = "undefined" /\ y.served = x.served /\ y.base = x.base /\ y.solo = x.solo
  BY <1>1 DEF Session
<1>3. x.solo => ServedRecent(y)
  BY <1>2 DEF UpToDate, ServedRecent
<1> QED
  BY <1>2, <1>3 DEF UpToDate, Live

LEMMA DisturbedIsUpToDate ==
    ASSUME NEW x, Good(x), UpToDate(x), NEW y, y = [x EXCEPT !.calm = FALSE]
    PROVE  UpToDate(y)
<1>1. x \in Session
  BY DEF Good, Typed
<1>2. /\ y.pc = x.pc /\ y.task = x.task /\ y.front = x.front /\ y.back = x.back /\ y.seen = x.seen
      /\ y.cells = x.cells /\ y.served = x.served /\ y.base = x.base /\ y.solo = x.solo
  BY <1>1 DEF Session
<1> QED
  BY <1>2 DEF UpToDate, Live, LeftRecent, ReadRecent, ServedRecent

LEMMA CallIsUpToDate ==
    ASSUME SessionInv, SessionsRecent, NEW s \in Sessions, NEW y, UpToDate(y),
           session' = [session EXCEPT ![s] = y]
    PROVE  \A x \in Sessions : UpToDate(session'[x])
<1>1. DOMAIN session = Sessions
  BY DEF SessionInv
<1>2. session'[s] = y /\ \A x \in Sessions : x # s => session'[x] = session[x]
  BY <1>1
<1> QED
  BY <1>2 DEF SessionsRecent

LEMMA CallsAreUpToDate ==
    ASSUME StorageInv, SessionInv, RecentInv, NEW s \in Sessions, GrpcStep(s)
    PROVE  \A x \in Sessions : UpToDate(session'[x])
<1> PICK x : x = session[s]
  OBVIOUS
<1>1. Good(x) /\ UpToDate(x) /\ x \in Session /\ DOMAIN session = Sessions /\ SessionsRecent /\ TasksRecent
  BY DEF SessionInv, RecentInv, SessionsRecent, Good, Typed
<1>2. CASE Fails(s)
  BY <1>1, <1>2, FailedIsUpToDate, CallIsUpToDate DEF Fails
<1>3. CASE GetScripts(s)
  <2>1. ASSUME NEW t \in Tasks, NEW y,
               y = [x EXCEPT !.pc = "ready", !.task = t, !.batchCount = Len(taskMeta[t].batches),
                             !.calm = (Running(t) = {}),
                             !.solo = \A u \in UploadsOf(t) : uploads[u].solo,
                             !.base = LastAccepted(t),
                             !.torn = \E u \in UploadsOf(t) : u > LastAccepted(t)],
               session' = [session EXCEPT ![s] = y]
        PROVE  \A z \in Sessions : UpToDate(session'[z])
    <3>1. x.pc = "idle"
      BY <1>3 DEF GetScripts
    <3>2. UpToDate(y)
      BY <1>1, <2>1, <3>1, BegunIsUpToDate
    <3> QED
      BY <1>1, <2>1, <3>2, CallIsUpToDate
  <2> QED
    BY <1>2, <1>3, <2>1, ZenonT(60) DEF GetScripts
<1>4. CASE OpenBatch(s)
  <2> PICK front, back : front = FrontId(Batch(x)) /\ back = BackId(Batch(x))
    OBVIOUS
  <2> PICK y : y = [x EXCEPT !.pc = "cursor", !.front = front, !.back = back,
                             !.due = DocsBetween(x.task, front, back),
                             !.seen = {}, !.cells = NoCells]
    OBVIOUS
  <2>1. x.pc = "ready" /\ x.batchId < Len(taskMeta[x.task].batches) /\ Len(Batch(x)) > 0
    BY <1>4 DEF OpenBatch, BatchDefined, Batches, Batch
  <2>2. session' = [session EXCEPT ![s] = y]
    BY <1>4, Zenon DEF OpenBatch, Batches, Batch
  <2>3. UpToDate(y)
    BY <1>1, <2>1, OpenIsUpToDate
  <2> QED
    BY <1>1, <2>2, <2>3, CallIsUpToDate
<1>5. CASE OpenUndefinedBatch(s)
  <2>1. PICK died \in BOOLEAN :
           session' = [z \in Sessions |->
                         CASE z = s -> [session[z] EXCEPT !.pc = "undefined"]
                           [] z # s /\ died /\ session[z].pc = "cursor" ->
                                [NewSession EXCEPT !.pc = "failed"]
                           [] OTHER -> session[z]]
    BY <1>5 DEF OpenUndefinedBatch
  <2>2. session'[s] = [x EXCEPT !.pc = "undefined"]
    BY <2>1
  <2>3. \A z \in Sessions : z # s => session'[z] = [NewSession EXCEPT !.pc = "failed"] \/ session'[z] = session[z]
    BY <2>1
  <2>4. UpToDate(session'[s])
    BY <1>1, <2>2, UndefinedIsUpToDate
  <2>5. \A z \in Sessions : UpToDate(session[z])
    BY <1>1 DEF SessionsRecent
  <2> QED
    BY <2>3, <2>4, <2>5, FailedIsUpToDate
<1>6. CASE ReadDoc(s)
  <2>1. PICK p \in DocsBetween(x.task, x.front, x.back) :
           session' = [session EXCEPT
                         ![s].cells[p[1].type][p[1].id] = testDocs[p[1]][p[2]],
                         ![s].seen = @ \cup {p}]
    BY <1>6 DEF ReadDoc
  <2> PICK v, cells : /\ v = testDocs[p[1]][p[2]]
                      /\ cells = [x.cells EXCEPT ![p[1].type] = [x.cells[p[1].type] EXCEPT ![p[1].id] = v]]
    OBVIOUS
  <2> PICK y : y = [x EXCEPT !.cells = cells, !.seen = x.seen \cup {p}]
    OBVIOUS
  <2>2. session' = [session EXCEPT ![s] = y]
    BY <1>1, <2>1 DEF Session
  <2>3. x.pc = "cursor"
    BY <1>6 DEF ReadDoc
  <2>4. UpToDate(y)
    BY <1>1, <2>3, ReadIsUpToDate
  <2> QED
    BY <1>1, <2>2, <2>4, CallIsUpToDate
<1>7. CASE CloseBatch(s)
  <2> PICK y : y = [x EXCEPT !.served = x.served \o Answer(x), !.batchId = x.batchId + 1,
                             !.front = 1, !.back = 0, !.due = {}, !.seen = {}, !.cells = NoCells,
                             !.pc = IF x.batchId + 1 = x.batchCount THEN "done" ELSE "ready"]
    OBVIOUS
  <2>1. x.pc = "cursor" /\ x.due \subseteq x.seen
    BY <1>7 DEF CloseBatch
  <2>2. Reply(s) = Answer(x)
    BY DEF Reply, Answer
  <2>3. session' = [session EXCEPT ![s] = y]
    BY <1>7, <2>2, Zenon DEF CloseBatch
  <2>4. UpToDate(y)
    BY <1>1, <2>1, CloseIsUpToDate
  <2> QED
    BY <1>1, <2>3, <2>4, CallIsUpToDate
<1>8. CASE CallFails(s)
  BY <1>2, <1>8 DEF CallFails
<1> QED
  BY <1>3, <1>4, <1>5, <1>6, <1>7, <1>8 DEF GrpcStep

LEMMA SessionsAreUpToDate ==
    ASSUME StorageInv, StorageInv', WriterInv, SessionInv, RecentInv, [Next]_vars
    PROVE  \A s \in Sessions : UpToDate(session'[s])
<1>1. TypeOK /\ TypeOK' /\ \A s \in Sessions : UpToDate(session[s]) /\ Good(session[s])
  BY DEF StorageInv, SessionInv, RecentInv, SessionsRecent
<1>2. ASSUME NEW w \in Workers, BeginUpload(w), NEW s \in Sessions PROVE UpToDate(session'[s])
  <2>1. PICK t \in Tasks, last \in Nat : Begins(w, t, last)
    BY <1>1, <1>2, BeginFacts
  <2>2. session'[s] = session[s] \/ session'[s] = [session[s] EXCEPT !.calm = FALSE]
    BY <2>1 DEF Begins
  <2> QED
    BY <1>1, <2>2, DisturbedIsUpToDate
<1>3. CASE Works
  BY <1>1, <1>3, WorksStep
<1>4. CASE UNCHANGED <<testDocs, taskMeta, uploads, http, session>>
  BY <1>1, <1>4
<1> QED
  BY <1>2, <1>3, <1>4, StepKinds, CallsAreUpToDate

LEMMA RecentInvStep ==
    ASSUME StorageInv, StorageInv', WriterInv, WriterInv', SessionInv, SessionInv', AtRest',
           RecentInv, [Next]_vars
    PROVE  RecentInv'
<1>1. TasksRecent'
  BY TasksStep DEF RecentInv
<1>2. ASSUME NEW s \in Sessions PROVE UpToDate(session[s])'
  <2> PICK x : x = session'[s]
    OBVIOUS
  <2>1. Good(session[s])'
    BY DEF SessionInv
  <2>2. x \in Session /\ (Live(x) => x.task \in Tasks) /\ Reading(x)
    BY <2>1 DEF Good, Typed, Reading, Bound, Live
  <2>3. UpToDate(x)
    BY SessionsAreUpToDate
  <2>4. UpToDate(x)'
    BY <2>2, <2>3, UpToDateKept
  <2> QED
    BY <2>4
<1> QED
  BY <1>1, <1>2 DEF RecentInv, SessionsRecent

LEMMA InitRecent == ASSUME Init, AtRest PROVE RecentInv
<1>1. uploads = <<>>
  BY DEF Init
<1>2. \A t : UploadsOf(t) = {}
  BY <1>1 DEF UploadsOf
<1>3. TasksRecent
  BY <1>2 DEF TasksRecent, AtRest
<1>4. ASSUME NEW s \in Sessions PROVE UpToDate(session[s])
  <2> PICK x : x = NewSession
    OBVIOUS
  <2>1. x.pc = "idle" /\ x.served = <<>>
    BY NewSessionFacts
  <2>2. ServedRecent(x)
    BY <2>1 DEF ServedRecent
  <2>3. UpToDate(x)
    BY <2>1, <2>2 DEF UpToDate, Live
  <2> QED
    BY <2>3 DEF Init
<1> QED
  BY <1>3, <1>4 DEF RecentInv, SessionsRecent

StorageAndSessions == StorageInv /\ WriterInv /\ SessionInv /\ RecentInv

LEMMA InitAll == Init => StorageAndSessions
  BY InitStorage, InitWriter, InitSessions, AtRestFollows, InitRecent DEF StorageAndSessions

LEMMA AllInvariant == Spec => []StorageAndSessions
<1>1. StorageAndSessions /\ [Next]_vars => StorageInv' /\ WriterInv' /\ SessionInv'
  BY NextKeeps, WriterStep, SessionStep DEF StorageAndSessions
<1>2. StorageAndSessions /\ StorageInv' /\ WriterInv' /\ SessionInv' /\ AtRest' /\ [Next]_vars => RecentInv'
  BY RecentInvStep DEF StorageAndSessions
<1>3. StorageAndSessions' <=> StorageInv' /\ WriterInv' /\ SessionInv' /\ RecentInv'
  BY DEF StorageAndSessions
<1> QED
  BY <1>1, <1>2, <1>3, AtRestFollows, InitAll, PTL DEF Spec

(***************************************************************************)
(* A submission of a task whose uploads were made one at a time until it   *)
(* was begun is served no test older than the last upload accepted before, *)
(* also when uploads run, overlap, fail or crash while it is being served. *)
(***************************************************************************)
ServedNothingOlder ==
    \A s \in Sessions : session[s].solo =>
        \A k \in 1..Len(session[s].served) :
            session[s].served[k][1] >= session[s].base /\ session[s].served[k][2] >= session[s].base

(***************************************************************************)
(* Needs the whole invariant: an upload that breaks off leaves documents   *)
(* of older uploads in place, and only because they are single and no      *)
(* worker is about to insert beside them does the next upload replace them *)
(* before its metadata sends GetBatch to them.                             *)
(***************************************************************************)
THEOREM ServesNothingOlder == Spec => []ServedNothingOlder
<1>1. StorageAndSessions => ServedNothingOlder
  BY DEF StorageAndSessions, RecentInv, SessionsRecent, UpToDate, ServedRecent, ServedNothingOlder
<1> QED
  BY <1>1, AllInvariant, PTL
=============================================================================
