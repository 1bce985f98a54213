-------------------------- MODULE BuildFlowProofs --------------------------
(***************************************************************************)
(* Tasks and builds for any number of requests, names and rows: names stay *)
(* unique, the two databases stay in step, and what was created is shown.  *)
(***************************************************************************)
EXTENDS BuildFlow, TLAPS

Row == [task : 1..MaxRows, by : Requests]
Doc == [id : {NoId}, scripts : Requests \cup {"none"}]
Statuses == {0, 200, 400, 500}
PutStatuses == {0, 200, 500}
Req == [pc : {"new", "insert", "put", "waiting", "done"}, name : Names \cup {"none"},
        build : 0..MaxRows, status : Statuses]
Put == [build : 1..MaxRows, by : Requests, status : PutStatuses]
Listing == [pc : {"idle", "open", "done"}, due : SUBSET (1..MaxRows), created : SUBSET (1..MaxRows),
            status : PutStatuses, items : SUBSET [id : {0}, scripts : Requests \cup {"none"}]]

Types ==
    /\ tasks \in Seq(Names)
    /\ builds \in Seq(Row) /\ Len(builds) <= MaxRows
    /\ documents \in [1..MaxRows -> Doc]
    /\ request \in [Requests -> Req]
    /\ puts \subseteq Put
    /\ listing \in Listing

(* A request that made a row remembers it, and made no other. *)
RowsOfRequests ==
    \A b \in 1..Len(builds) :
        /\ request[builds[b].by].build = b
        /\ request[builds[b].by].pc \in {"put", "waiting", "done"}

(* A request about to insert a task has chosen its name. *)
NamesChosen == \A r \in Requests : request[r].pc = "insert" => request[r].name \in Names

(* Only an answered request has a status. *)
OpenIsUnanswered == \A r \in Requests : request[r].pc # "done" => request[r].status = 0

(* A request about to send its scripts has made the row it sends them for. *)
PutsAhead ==
    \A r \in Requests : request[r].pc = "put" =>
        request[r].build \in 1..Len(builds) /\ builds[request[r].build].by = r

(* A PUT under way is for the row of its request; one that succeeded has stored its scripts. *)
PutsOfRows ==
    \A p \in puts :
        /\ p.build \in 1..Len(builds) /\ builds[p.build].by = p.by
        /\ p.status = 200 => documents[p.build] # NoDocument

(* The last answer to GET /build was right and stays so. *)
ReplyRight ==
    /\ reply.lost = FALSE
    /\ reply.status = 200 =>
         reply.asked \in 1..Len(builds) /\ reply.build.scripts = builds[reply.asked].by

(* A cursor is bound to come to every build that was known to be created. *)
ListingRight ==
    /\ listing.created \subseteq 1..Len(builds)
    /\ listing.pc = "idle" => listing.status = 0
    /\ listing.pc = "open" => listing.status = 0 /\ listing.created \subseteq listing.due
    /\ listing.status = 200 =>
         \A b \in listing.created : \E item \in listing.items : item.scripts = builds[b].by

BuildInv ==
    /\ Types /\ OneTaskPerName /\ ScriptsOfTheirRow /\ ListedIsUsable
    /\ RowsOfRequests /\ NamesChosen /\ OpenIsUnanswered /\ PutsAhead
    /\ PutsOfRows /\ ReplyRight /\ ListingRight

----------------------------------------------------------------------------
LEMMA ZeroStatus == 0 \in Statuses /\ 0 \in PutStatuses
  BY DEF Statuses, PutStatuses

LEMMA RowFacts ==
    ASSUME Types
    PROVE  /\ Len(builds) \in Nat /\ DOMAIN builds = 1..Len(builds) /\ DOMAIN tasks = 1..Len(tasks)
           /\ \A b \in 1..Len(builds) : builds[b].by \in Requests /\ b \in 1..MaxRows
           /\ \A p \in puts : p \in Put /\ p.build \in 1..MaxRows /\ p.by \in Requests
           /\ \A r \in Requests : request[r] \in Req
<1>1. builds \in Seq(Row) /\ Len(builds) \in Nat /\ Len(builds) <= MaxRows /\ tasks \in Seq(Names)
  BY DEF Types
<1>2. \A b \in 1..Len(builds) : builds[b] \in Row
  BY <1>1
<1>3. \A row \in Row : row.by \in Requests
  BY DEF Row
<1>4. \A p \in Put : p.build \in 1..MaxRows /\ p.by \in Requests
  BY DEF Put
<1>5. \A b \in 1..Len(builds) : b \in 1..MaxRows
  BY <1>1, MaxRowsAssumption
<1> QED
  BY <1>1, <1>2, <1>3, <1>4, <1>5 DEF Types

LEMMA TypesImplyTypeOK == Types /\ PutsAhead => TypeOK
<1> SUFFICES ASSUME Types, PutsAhead PROVE TypeOK
  OBVIOUS
<1>1. tasks \in Seq(Names) /\ builds \in Seq([task : 1..MaxRows, by : Requests])
  BY DEF Types, Row
<1>2. /\ documents \in [1..MaxRows -> [id : {NoId}, scripts : Requests \cup {"none"}]]
      /\ request \in [Requests -> [pc : {"new", "insert", "put", "waiting", "done"},
                                   name : Names \cup {"none"}, build : 0..MaxRows,
                                   status : {0, 200, 400, 500}]]
      /\ puts \subseteq [build : 1..MaxRows, by : Requests, status : {0, 200, 500}]
  BY DEF Types, Doc, Req, Put, Statuses, PutStatuses
<1>3. listing.pc \in {"idle", "open", "done"} /\ listing.due \cup listing.created \subseteq 1..MaxRows
  BY DEF Types, Listing
<1>4. \A r \in Requests : request[r].pc = "put" => request[r].build \in DOMAIN builds
  BY RowFacts DEF PutsAhead
<1> QED
  BY <1>1, <1>2, <1>3, <1>4 DEF TypeOK

LEMMA InvImpliesShown == BuildInv => CreatedIsShown
  BY DEF BuildInv, ReplyRight, ListingRight, CreatedIsShown

LEMMA InitBuilds == Init => BuildInv
<1> SUFFICES ASSUME Init PROVE BuildInv
  OBVIOUS
<1>1. /\ tasks = <<>> /\ builds = <<>> /\ Len(builds) = 0 /\ puts = {}
      /\ documents = [id \in 1..MaxRows |-> NoDocument]
      /\ request = [r \in Requests |-> NewRequest]
      /\ listing = [pc |-> "idle", due |-> {}, created |-> {}, status |-> 0, items |-> {}]
  BY DEF Init
<1>2. Types
  <2>1. documents \in [1..MaxRows -> Doc]
    BY <1>1 DEF Doc, NoDocument
  <2>2. request \in [Requests -> Req]
    BY <1>1, MaxRowsAssumption, ZeroStatus DEF Req, NewRequest
  <2>3. listing \in Listing
    BY <1>1, ZeroStatus DEF Listing
  <2> QED
    BY <1>1, <2>1, <2>2, <2>3, MaxRowsAssumption DEF Types
<1>3. OneTaskPerName /\ ListedIsUsable
  BY <1>1 DEF OneTaskPerName, ListedIsUsable
<1>4. ScriptsOfTheirRow /\ RowsOfRequests /\ PutsOfRows
  BY <1>1 DEF ScriptsOfTheirRow, RowsOfRequests, PutsOfRows
<1>5. PutsAhead /\ NamesChosen /\ OpenIsUnanswered
  BY <1>1 DEF PutsAhead, NamesChosen, OpenIsUnanswered, NewRequest
<1>6. ReplyRight
  BY DEF Init, ReplyRight, NoReply
<1>7. ListingRight
  BY <1>1 DEF ListingRight
<1> QED
  BY <1>2, <1>3, <1>4, <1>5, <1>6, <1>7 DEF BuildInv

----------------------------------------------------------------------------
(* What create_build may send. *)
OwnPuts(r) ==
    {p \in Put : request[r].pc = "put" /\ p.build = request[r].build /\ p.by = r /\ p.status = 0}

(***************************************************************************)
(* A step of a request that leaves the builds of both databases alone: it  *)
(* sends no scripts but those of its row, is not told of a success before  *)
(* they are stored, and does not forget a row it has made.                 *)
(***************************************************************************)
LEMMA RequestStep ==
    ASSUME BuildInv, NEW r \in Requests, NEW rec \in Req, request' = [request EXCEPT ![r] = rec],
           rec.pc # "new", rec.pc # "put", rec.build = request[r].build,
           rec.pc = "insert" => request[r].pc = "new" /\ rec.name \in Names,
           rec.pc # "done" => rec.status = 0,
           rec.status = 200 => \A b \in 1..Len(builds) : builds[b].by = r => documents[b] # NoDocument,
           UNCHANGED <<builds, documents, reply, listing>>,
           puts' \subseteq puts \cup OwnPuts(r), tasks' \in Seq(Names), OneTaskPerName'
    PROVE  BuildInv'
<1>1. Types
  BY DEF BuildInv
<1>2. request' \in [Requests -> Req] /\ request'[r] = rec
      /\ \A x \in Requests : x # r => request'[x] = request[x]
  BY <1>1 DEF Types
<1>3. Types'
  <2>1. puts' \subseteq Put
    BY <1>1 DEF Types, OwnPuts
  <2> QED
    BY <1>1, <1>2, <2>1 DEF Types
<1>4. ScriptsOfTheirRow'
  BY DEF BuildInv, ScriptsOfTheirRow
<1>5. ListedIsUsable'
  <2>1. \A b \in 1..Len(builds) : request[builds[b].by].status = 200 => documents[b] # NoDocument
    BY <1>1, RowFacts DEF BuildInv, ListedIsUsable
  <2> QED
    BY <1>1, <1>2, <2>1, RowFacts DEF ListedIsUsable
<1>6. RowsOfRequests'
  BY <1>1, <1>2, RowFacts DEF BuildInv, RowsOfRequests, Req
<1>7. PutsAhead' /\ NamesChosen' /\ OpenIsUnanswered'
  BY <1>2 DEF BuildInv, PutsAhead, NamesChosen, OpenIsUnanswered
<1>8. PutsOfRows'
  <2> SUFFICES ASSUME NEW p \in puts'
               PROVE  /\ p.build \in 1..Len(builds) /\ builds[p.build].by = p.by
                      /\ p.status = 200 => documents[p.build] # NoDocument
    BY DEF PutsOfRows
  <2>1. CASE p \in puts
    BY <2>1 DEF BuildInv, PutsOfRows
  <2>2. CASE p \in OwnPuts(r)
    BY <2>2 DEF OwnPuts, BuildInv, PutsAhead
  <2> QED
    BY <2>1, <2>2
<1> QED
  BY <1>3, <1>4, <1>5, <1>6, <1>7, <1>8 DEF BuildInv, ReplyRight, ListingRight

LEMMA AnswerRecord ==
    ASSUME request \in [Requests -> Req], NEW r \in Requests, NEW status \in Statuses,
           Answer(r, status)
    PROVE  \E rec \in Req :
              /\ request' = [request EXCEPT ![r] = rec]
              /\ rec.pc = "done" /\ rec.build = request[r].build /\ rec.status = status
<1> DEFINE rec == [request[r] EXCEPT !.pc = "done", !.status = status]
<1>1. request[r] \in Req
  OBVIOUS
<1>2. rec \in Req /\ rec.pc = "done" /\ rec.build = request[r].build /\ rec.status = status
  BY <1>1 DEF Req
<1>3. request' = [request EXCEPT ![r] = [request[r] EXCEPT !.pc = "done", !.status = status]]
  BY DEF Answer
<1> QED
  BY <1>2, <1>3

(* Answers with an error change nothing but the request. *)
LEMMA AnswerKeeps ==
    ASSUME BuildInv, NEW r \in Requests, NEW status \in {400, 500}, Answer(r, status),
           UNCHANGED <<builds, documents, reply, listing>>,
           puts' \subseteq puts, tasks' \in Seq(Names), OneTaskPerName'
    PROVE  BuildInv'
<1>1. request \in [Requests -> Req] /\ request[r] \in Req
  BY RowFacts DEF BuildInv, Types
<1>2. PICK rec \in Req :
         /\ request' = [request EXCEPT ![r] = rec]
         /\ rec.pc = "done" /\ rec.build = request[r].build /\ rec.status = status
  BY <1>1, AnswerRecord, status \in Statuses DEF Statuses
<1>3. /\ rec.pc # "new" /\ rec.pc # "put"
      /\ rec.pc = "insert" => request[r].pc = "new" /\ rec.name \in Names
      /\ rec.pc # "done" => rec.status = 0
      /\ rec.status = 200 => \A b \in 1..Len(builds) : builds[b].by = r => documents[b] # NoDocument
  BY <1>2
<1>4. puts' \subseteq puts \cup OwnPuts(r)
  OBVIOUS
<1> QED
  BY <1>2, <1>3, <1>4, RequestStep, ZenonT(60)

LEMMA CheckNameKeeps ==
    ASSUME BuildInv, NEW r \in Requests, CheckName(r)
    PROVE  BuildInv'
<1>1. UNCHANGED <<tasks, builds, documents, puts, reply, listing>> /\ request[r].pc = "new"
  BY DEF CheckName
<1>2. tasks' \in Seq(Names) /\ OneTaskPerName' /\ puts' \subseteq puts
  BY <1>1 DEF BuildInv, Types, OneTaskPerName
<1>3. PICK name \in Names :
         IF \E t \in DOMAIN tasks : tasks[t] = name
           THEN Answer(r, 400)
           ELSE request' = [request EXCEPT ![r].pc = "insert", ![r].name = name]
  BY DEF CheckName
<1>4. CASE Answer(r, 400)
  BY <1>1, <1>2, <1>4, AnswerKeeps
<1>5. CASE request' = [request EXCEPT ![r].pc = "insert", ![r].name = name]
  <2> DEFINE rec == [request[r] EXCEPT !.pc = "insert", !.name = name]
  <2>1. request \in [Requests -> Req] /\ request[r] \in Req
    BY RowFacts DEF BuildInv, Types
  <2>2. /\ rec \in Req /\ rec.pc = "insert" /\ rec.name = name /\ rec.build = request[r].build
        /\ rec.status = request[r].status
    BY <2>1 DEF Req
  <2>3. request' = [request EXCEPT ![r] = rec]
    BY <2>1, <1>5
  <2>4. request[r].status = 0 /\ \A b \in 1..Len(builds) : builds[b].by = r => FALSE
    BY <1>1 DEF BuildInv, RowsOfRequests, OpenIsUnanswered
  <2> HIDE DEF rec
  <2> QED
    BY <1>1, <1>2, <2>2, <2>3, <2>4, RequestStep
<1> QED
  BY <1>3, <1>4, <1>5

(* The unique column: of two requests that found the name free one inserts. *)
LEMMA InsertTaskKeeps ==
    ASSUME BuildInv, NEW r \in Requests, InsertTask(r)
    PROVE  BuildInv'
<1>1. UNCHANGED <<builds, documents, puts, reply, listing>> /\ request[r].pc = "insert"
      /\ puts' \subseteq puts
  BY DEF InsertTask
<1>2. tasks \in Seq(Names) /\ OneTaskPerName /\ request \in [Requests -> Req] /\ request[r] \in Req
  BY RowFacts DEF BuildInv, Types
<1>3. CASE \E t \in DOMAIN tasks : tasks[t] = request[r].name
  BY <1>1, <1>2, <1>3, AnswerKeeps DEF InsertTask, OneTaskPerName
<1>4. CASE ~\E t \in DOMAIN tasks : tasks[t] = request[r].name
  <2>0. PICK status \in {200, 500} : Answer(r, status)
    BY <1>4 DEF InsertTask
  <2>1. request[r].name \in Names
    BY <1>1 DEF BuildInv, NamesChosen
  <2>2. tasks' = Append(tasks, request[r].name) /\ tasks' \in Seq(Names)
    BY <1>2, <1>4, <2>1 DEF InsertTask
  <2>3. OneTaskPerName'
    BY <1>2, <1>4, <2>1, <2>2 DEF OneTaskPerName
  <2>4. PICK rec \in Req :
           /\ request' = [request EXCEPT ![r] = rec]
           /\ rec.pc = "done" /\ rec.build = request[r].build /\ rec.status = status
    BY <1>2, <2>0, AnswerRecord, status \in Statuses DEF Statuses
  <2>5. \A b \in 1..Len(builds) : builds[b].by = r => FALSE
    BY <1>1 DEF BuildInv, RowsOfRequests
  <2>6. /\ rec.pc # "new" /\ rec.pc # "put"
        /\ rec.pc = "insert" => request[r].pc = "new" /\ rec.name \in Names
        /\ rec.pc # "done" => rec.status = 0
        /\ rec.status = 200 => \A b \in 1..Len(builds) : builds[b].by = r => documents[b] # NoDocument
    BY <2>4, <2>5
  <2> QED
    BY <1>1, <2>2, <2>3, <2>4, <2>5, <2>6, RequestStep
<1> QED
  BY <1>3, <1>4

(* The row is new and its request has made no other; it is the one that is sent. *)
LEMMA CreateBuildForTaskKeeps ==
    ASSUME BuildInv, NEW r \in Requests, CreateBuildForTask(r)
    PROVE  BuildInv'
<1>1. UNCHANGED <<tasks, documents, puts, reply, listing>> /\ request[r].pc = "new"
      /\ Len(builds) < MaxRows
  BY DEF CreateBuildForTask
<1>2. Types /\ request \in [Requests -> Req] /\ request[r] \in Req /\ builds \in Seq(Row)
      /\ Len(builds) \in Nat
  BY RowFacts DEF BuildInv, Types
<1>3. PICK t \in 1..MaxRows :
         IF t \in DOMAIN tasks
           THEN /\ builds' = Append(builds, [task |-> t, by |-> r])
                /\ request' = [request EXCEPT ![r].pc = "put", ![r].build = Len(builds) + 1]
           ELSE Answer(r, 400) /\ UNCHANGED builds
  BY DEF CreateBuildForTask
<1>4. CASE t \notin DOMAIN tasks
  <2>1. tasks' \in Seq(Names) /\ OneTaskPerName' /\ puts' \subseteq puts
    BY <1>1 DEF BuildInv, Types, OneTaskPerName
  <2> QED
    BY <1>1, <1>3, <1>4, <2>1, AnswerKeeps
<1>5. CASE t \in DOMAIN tasks
  <2> DEFINE n == Len(builds) + 1
             row == [task |-> t, by |-> r]
             rec == [request[r] EXCEPT !.pc = "put", !.build = n]
  <2>1. row \in Row /\ row.by = r
    BY DEF Row
  <2>2. /\ builds' \in Seq(Row) /\ Len(builds') = n /\ builds'[n] = row
        /\ \A b \in 1..Len(builds) : builds'[b] = builds[b]
    <3>1. builds' = Append(builds, row)
      BY <1>3, <1>5
    <3> HIDE DEF row
    <3> QED
      BY <1>2, <2>1, <3>1
  <2>3. n \in 1..MaxRows /\ n \notin 1..Len(builds) /\ 1..n = 1..Len(builds) \cup {n}
    BY <1>1, <1>2, MaxRowsAssumption
  <2>4. rec \in Req /\ rec.pc = "put" /\ rec.build = n /\ rec.status = request[r].status
    <3>1. n \in 0..MaxRows
      BY <2>3
    <3> HIDE DEF n
    <3> QED
      BY <1>2, <3>1 DEF Req
  <2>5. request' = [request EXCEPT ![r] = rec]
    BY <1>2, <1>3, <1>5
  <2> HIDE DEF n, row, rec
  <2>6. request' \in [Requests -> Req] /\ request'[r] = rec
        /\ \A x \in Requests : x # r => request'[x] = request[x]
    BY <1>2, <2>4, <2>5
  <2>7. \A b \in 1..Len(builds) : builds[b].by \in Requests /\ builds[b].by # r
    BY <1>1, <1>2, RowFacts DEF BuildInv, RowsOfRequests
  <2>8. Types'
    BY <1>1, <1>2, <2>2, <2>3, <2>6 DEF Types
  <2>9. OneTaskPerName' /\ NamesChosen'
    BY <1>1, <2>4, <2>6 DEF BuildInv, OneTaskPerName, NamesChosen
  <2>10. ScriptsOfTheirRow'
    BY <1>1, <1>2, <2>2, <2>3, <2>8, RowFacts DEF BuildInv, ScriptsOfTheirRow
  <2>11. ListedIsUsable'
    <3>1. request[r].status # 200
      BY <1>1, <1>2 DEF BuildInv, OpenIsUnanswered
    <3>2. DOMAIN builds = 1..Len(builds) /\ DOMAIN builds' = 1..n
      BY <1>2, <2>2
    <3>3. \A b \in 1..Len(builds) : request[builds[b].by].status = 200 => documents[b] # NoDocument
      BY <3>2 DEF BuildInv, ListedIsUsable
    <3> QED
      BY <1>1, <2>1, <2>2, <2>3, <2>4, <2>6, <2>7, <3>1, <3>2, <3>3 DEF ListedIsUsable
  <2>12. RowsOfRequests'
    BY <2>1, <2>2, <2>3, <2>4, <2>6, <2>7 DEF BuildInv, RowsOfRequests
  <2>13. PutsAhead'
    BY <2>1, <2>2, <2>3, <2>4, <2>6 DEF BuildInv, PutsAhead
  <2>14. PutsOfRows'
    BY <1>1, <2>2, <2>3 DEF BuildInv, PutsOfRows
  <2>15. ReplyRight' /\ ListingRight'
    BY <1>1, <2>2, <2>3 DEF BuildInv, ReplyRight, ListingRight
  <2>16. OpenIsUnanswered'
    BY <1>1, <2>4, <2>6 DEF BuildInv, OpenIsUnanswered
  <2> QED
    BY <2>8, <2>9, <2>10, <2>11, <2>12, <2>13, <2>14, <2>15, <2>16 DEF BuildInv
<1> QED
  BY <1>4, <1>5

LEMMA CreateBuildKeeps ==
    ASSUME BuildInv, NEW r \in Requests, CreateBuild(r)
    PROVE  BuildInv'
<1> DEFINE rec == [request[r] EXCEPT !.pc = "waiting"]
           p == [build |-> request[r].build, by |-> r, status |-> 0]
<1>1. /\ UNCHANGED <<tasks, builds, documents, reply, listing>> /\ request[r].pc = "put"
      /\ puts' = puts \cup {p}
      /\ request' = [request EXCEPT ![r] = rec]
  BY RowFacts DEF CreateBuild, BuildInv, Types
<1>2. request[r] \in Req /\ Types /\ tasks' \in Seq(Names) /\ OneTaskPerName' /\ request[r].status = 0
  BY <1>1, RowFacts DEF BuildInv, Types, OneTaskPerName, OpenIsUnanswered
<1>3. request[r].build \in 1..Len(builds) /\ request[r].build \in 1..MaxRows
  BY <1>1, <1>2, RowFacts DEF BuildInv, PutsAhead
<1>4. p \in OwnPuts(r)
  BY <1>1, <1>3, ZeroStatus DEF OwnPuts, Put
<1>5. rec \in Req /\ rec.pc = "waiting" /\ rec.build = request[r].build /\ rec.status = request[r].status
  BY <1>2 DEF Req
<1> HIDE DEF rec, p
<1>6. /\ rec.pc # "new" /\ rec.pc # "put"
      /\ rec.pc = "insert" => request[r].pc = "new" /\ rec.name \in Names
      /\ rec.pc # "done" => rec.status = 0
      /\ rec.status = 200 => \A b \in 1..Len(builds) : builds[b].by = r => documents[b] # NoDocument
  BY <1>2, <1>5
<1>7. puts' \subseteq puts \cup OwnPuts(r)
  BY <1>1, <1>4
<1> QED
  BY <1>1, <1>2, <1>5, <1>6, <1>7, RequestStep

(* The creator is told of a success only when the scripts of its row are stored. *)
LEMMA PutAnsweredKeeps ==
    ASSUME BuildInv, NEW p \in puts, PutAnswered(p)
    PROVE  BuildInv'
<1> DEFINE r == p.by
<1>1. UNCHANGED <<tasks, builds, documents, reply, listing>> /\ puts' \subseteq puts
  BY DEF PutAnswered
<1>2. r \in Requests /\ Types /\ tasks' \in Seq(Names) /\ OneTaskPerName' /\ request \in [Requests -> Req]
  BY <1>1, RowFacts DEF BuildInv, Types, OneTaskPerName
<1>3. CASE p.status = 200
  <2>1. Answer(r, 200) /\ 200 \in Statuses
    BY <1>3 DEF PutAnswered, Statuses
  <2>2. PICK rec \in Req :
           /\ request' = [request EXCEPT ![r] = rec]
           /\ rec.pc = "done" /\ rec.build = request[r].build /\ rec.status = 200
    BY <1>2, <2>1, AnswerRecord
  <2>3. \A b \in 1..Len(builds) : builds[b].by = r => documents[b] # NoDocument
    <3>1. p.build \in 1..Len(builds) /\ builds[p.build].by = r /\ documents[p.build] # NoDocument
      BY <1>3 DEF BuildInv, PutsOfRows
    <3> QED
      BY <3>1 DEF BuildInv, RowsOfRequests
  <2>4. /\ rec.pc # "new" /\ rec.pc # "put"
        /\ rec.pc = "insert" => request[r].pc = "new" /\ rec.name \in Names
        /\ rec.pc # "done" => rec.status = 0
        /\ rec.status = 200 => \A b \in 1..Len(builds) : builds[b].by = r => documents[b] # NoDocument
    BY <2>2, <2>3
  <2> QED
    BY <1>1, <1>2, <2>2, <2>4, RequestStep
<1>4. CASE p.status # 200
  <2>1. Answer(r, 400)
    BY <1>4 DEF PutAnswered
  <2> QED
    BY <1>1, <1>2, <2>1, AnswerKeeps
<1> QED
  BY <1>3, <1>4

LEMMA RequestBreaksKeeps ==
    ASSUME BuildInv, NEW r \in Requests, RequestBreaks(r)
    PROVE  BuildInv'
<1>1. tasks' \in Seq(Names) /\ OneTaskPerName' /\ puts' \subseteq puts
  BY DEF RequestBreaks, BuildInv, Types, OneTaskPerName
<1> QED
  BY <1>1, AnswerKeeps DEF RequestBreaks

----------------------------------------------------------------------------
(* A PUT that arrives late writes the scripts of the row it was sent for. *)
LEMMA UpsertBuildKeeps ==
    ASSUME BuildInv, NEW p \in puts, UpsertBuild(p)
    PROVE  BuildInv'
<1> DEFINE doc == Erased(MoveToJSON([id |-> p.build, scripts |-> p.by]))
<1>1. UNCHANGED <<tasks, builds, request, reply, listing>> /\ Types
  BY DEF UpsertBuild, BuildInv
<1>2. /\ p \in Put /\ p.build \in 1..MaxRows /\ p.by \in Requests
      /\ p.build \in 1..Len(builds) /\ builds[p.build].by = p.by
  BY <1>1, RowFacts DEF BuildInv, PutsOfRows
<1>3. doc \in Doc /\ doc.scripts = p.by /\ doc # NoDocument
  BY <1>2, RequestsAssumption DEF Doc, Erased, MoveToJSON, NoDocument
<1>4. documents' = [documents EXCEPT ![p.build] = doc]
  BY DEF UpsertBuild
<1> HIDE DEF doc
<1>5. /\ documents' \in [1..MaxRows -> Doc] /\ documents'[p.build] = doc
      /\ \A id \in 1..MaxRows : id # p.build => documents'[id] = documents[id]
  BY <1>1, <1>2, <1>3, <1>4 DEF Types
<1>6. PICK status \in {200, 500} : puts' = (puts \ {p}) \cup {[p EXCEPT !.status = status]}
  BY DEF UpsertBuild
<1>7. status \in PutStatuses
  BY DEF PutStatuses
<1>8. \A q \in puts' : q \in puts \/ (q \in Put /\ q.build = p.build /\ q.by = p.by)
  <2>1. [p EXCEPT !.status = status] \in Put /\ [p EXCEPT !.status = status].build = p.build
        /\ [p EXCEPT !.status = status].by = p.by
    BY <1>2, <1>7 DEF Put
  <2> QED
    BY <1>6, <2>1
<1>9. Types'
  <2>1. puts' \subseteq Put
    BY <1>1, <1>8 DEF Types
  <2> QED
    BY <1>1, <1>5, <2>1 DEF Types
<1>10. \A id \in 1..MaxRows : documents[id] # NoDocument => documents'[id] # NoDocument
  BY <1>3, <1>5
<1>11. ScriptsOfTheirRow'
  BY <1>1, <1>2, <1>3, <1>5, RowFacts DEF BuildInv, ScriptsOfTheirRow
<1>12. ListedIsUsable'
  BY <1>1, <1>10, RowFacts DEF BuildInv, ListedIsUsable
<1>13. PutsOfRows'
  <2> SUFFICES ASSUME NEW q \in puts'
               PROVE  /\ q.build \in 1..Len(builds) /\ builds[q.build].by = q.by
                      /\ q.status = 200 => documents'[q.build] # NoDocument
    BY <1>1 DEF PutsOfRows
  <2>1. CASE q \in puts
    BY <1>1, <1>10, <2>1, RowFacts DEF BuildInv, PutsOfRows
  <2>2. CASE q.build = p.build /\ q.by = p.by
    BY <1>2, <1>3, <1>5, <2>2
  <2> QED
    BY <1>8, <2>1, <2>2
<1> QED
  BY <1>1, <1>9, <1>11, <1>12, <1>13 DEF BuildInv, OneTaskPerName, RowsOfRequests, NamesChosen,
     OpenIsUnanswered, PutsAhead, ReplyRight, ListingRight

(* Steps that only end or refuse PUTs. *)
LEMMA PutsStep ==
    ASSUME BuildInv, UNCHANGED <<tasks, builds, documents, request, reply, listing>>,
           \A q \in puts' : q \in puts \/ (q \in Put /\ q.status # 200
                                              /\ \E p \in puts : q.build = p.build /\ q.by = p.by)
    PROVE  BuildInv'
<1>1. Types'
  BY DEF BuildInv, Types
<1>2. PutsOfRows'
  BY DEF BuildInv, PutsOfRows
<1> QED
  BY <1>1, <1>2 DEF BuildInv, OneTaskPerName, ScriptsOfTheirRow, ListedIsUsable, RowsOfRequests,
     NamesChosen, OpenIsUnanswered, PutsAhead, ReplyRight, ListingRight

LEMMA UpsertFailsKeeps ==
    ASSUME BuildInv, NEW p \in puts, UpsertFails(p)
    PROVE  BuildInv'
<1>1. p \in Put /\ 500 \in PutStatuses
  BY RowFacts DEF BuildInv, PutStatuses
<1> DEFINE q == [p EXCEPT !.status = 500]
<1>2. q \in Put /\ q.build = p.build /\ q.by = p.by /\ q.status = 500
  BY <1>1 DEF Put
<1>3. puts' = (puts \ {p}) \cup {q} /\ UNCHANGED <<tasks, builds, documents, request, reply, listing>>
  BY DEF UpsertFails
<1>4. q.status # 200
  BY <1>2
<1> HIDE DEF q
<1> QED
  BY <1>2, <1>3, <1>4, PutsStep

LEMMA HttpCrashKeeps == ASSUME BuildInv, HttpCrash PROVE BuildInv'
  BY PutsStep DEF HttpCrash

----------------------------------------------------------------------------
(* GET /build: a 404 for a build that was created would contradict ListedIsUsable. *)
LEMMA GetBuildKeeps ==
    ASSUME BuildInv, NEW id \in 1..MaxRows, GetBuild(id)
    PROVE  BuildInv'
<1>1. UNCHANGED <<tasks, builds, documents, request, puts, listing>>
  BY DEF GetBuild
<1>2. PICK found \in {FindBuild(id), [status |-> 500, build |-> TBuild]} :
         reply' = [asked |-> IF found.status = 200 THEN id ELSE 0,
                   status |-> found.status, build |-> MoveToJSON(found.build),
                   lost |-> found.status = 404 /\ id \in Created]
  BY DEF GetBuild
<1>3. reply'.lost = (found.status = 404 /\ id \in Created) /\ reply'.status = found.status
      /\ reply'.asked = (IF found.status = 200 THEN id ELSE 0)
      /\ reply'.build.scripts = found.build.scripts
  BY <1>2 DEF MoveToJSON
<1>4. found.status = 404 => documents[id] = NoDocument
  BY <1>2 DEF FindBuild
<1>5. found.status = 200 => documents[id] # NoDocument /\ found.build.scripts = documents[id].scripts
  BY <1>2 DEF FindBuild, FromJSON
<1>6. id \in Created => documents[id] # NoDocument
  BY DEF BuildInv, ListedIsUsable, Created
<1>7. ReplyRight'
  <2>1. reply'.lost = FALSE
    BY <1>3, <1>4, <1>6
  <2>2. ASSUME reply'.status = 200
        PROVE  reply'.asked = id /\ documents[id] # NoDocument /\ reply'.build.scripts = documents[id].scripts
    BY <1>3, <1>5, <2>2
  <2>3. documents[id] # NoDocument => id \in 1..Len(builds) /\ builds[id].by = documents[id].scripts
    BY RowFacts DEF BuildInv, ScriptsOfTheirRow
  <2> QED
    BY <1>1, <2>1, <2>2, <2>3 DEF ReplyRight
<1>8. Types'
  BY <1>1 DEF BuildInv, Types
<1> QED
  BY <1>1, <1>7, <1>8 DEF BuildInv, OneTaskPerName, ScriptsOfTheirRow, ListedIsUsable, RowsOfRequests,
     NamesChosen, OpenIsUnanswered, PutsAhead, PutsOfRows, ListingRight

LEMMA ParseFailsKeeps == ASSUME BuildInv, ParseFails PROVE BuildInv'
<1>1. UNCHANGED <<tasks, builds, documents, request, puts, listing>>
  BY DEF ParseFails
<1>2. PICK status \in {400, 500} : reply' = [NoReply EXCEPT !.status = status]
  BY DEF ParseFails
<1>3. reply'.lost = FALSE /\ reply'.status # 200
  BY <1>2 DEF NoReply
<1>4. Types'
  BY <1>1 DEF BuildInv, Types
<1> QED
  BY <1>1, <1>3, <1>4 DEF BuildInv, OneTaskPerName, ScriptsOfTheirRow, ListedIsUsable, RowsOfRequests,
     NamesChosen, OpenIsUnanswered, PutsAhead, PutsOfRows, ReplyRight, ListingRight

(* GET /builds: what is created is stored, and what is stored when it begins is delivered. *)
LEMMA ListingStep ==
    ASSUME BuildInv, UNCHANGED <<tasks, builds, documents, request, puts, reply>>,
           listing' \in Listing, ListingRight'
    PROVE  BuildInv'
<1>1. Types'
  BY DEF BuildInv, Types
<1> QED
  BY <1>1 DEF BuildInv, OneTaskPerName, ScriptsOfTheirRow, ListedIsUsable, RowsOfRequests,
     NamesChosen, OpenIsUnanswered, PutsAhead, PutsOfRows, ReplyRight

LEMMA OpenBuildsKeeps == ASSUME BuildInv, OpenBuilds PROVE BuildInv'
<1>1. Types /\ listing \in Listing /\ listing.pc = "idle" /\ listing.status = 0
  BY DEF BuildInv, Types, OpenBuilds, ListingRight
<1>2. Created \subseteq 1..Len(builds) /\ Created \subseteq 1..MaxRows
      /\ Stored \subseteq 1..MaxRows /\ Created \subseteq Stored
  BY <1>1, RowFacts DEF Created, Stored, BuildInv, ListedIsUsable
<1>3. listing' = [listing EXCEPT !.pc = "open", !.due = Stored, !.created = Created]
      /\ UNCHANGED <<tasks, builds, documents, request, puts, reply>>
  BY DEF OpenBuilds
<1>4. /\ listing'.pc = "open" /\ listing'.status = listing.status
      /\ listing'.created = Created /\ listing'.due = Stored
      /\ listing' \in Listing
  BY <1>1, <1>2, <1>3 DEF Listing
<1>5. ListingRight'
  BY <1>1, <1>2, <1>3, <1>4 DEF ListingRight
<1> QED
  BY <1>3, <1>4, <1>5, ListingStep

LEMMA GetBuildsKeeps == ASSUME BuildInv, GetBuilds PROVE BuildInv'
<1>1. Types /\ listing \in Listing /\ listing.pc = "open" /\ listing.created \subseteq listing.due
      /\ listing.created \subseteq 1..Len(builds)
      /\ UNCHANGED <<tasks, builds, documents, request, puts, reply>>
  BY DEF BuildInv, Types, GetBuilds, ListingRight
<1>2. CASE listing' = [listing EXCEPT !.pc = "done", !.due = {}, !.created = {}, !.status = 500]
  <2>1. 500 \in PutStatuses
    BY DEF PutStatuses
  <2>2. /\ listing' \in Listing /\ listing'.pc = "done" /\ listing'.created = {}
        /\ listing'.status = 500
    BY <1>1, <1>2, <2>1, ZenonT(60) DEF Listing
  <2>3. ListingRight'
    BY <2>2 DEF ListingRight
  <2> QED
    BY <1>1, <2>2, <2>3, ListingStep
<1>3. ASSUME NEW ids \in SUBSET Stored, listing.due \subseteq ids,
             listing' = [listing EXCEPT !.pc = "done", !.due = {}, !.status = 200,
                              !.items = MoveToJSONVector(ReadBuilds(ids))]
      PROVE  BuildInv'
  <2> DEFINE items == MoveToJSONVector(ReadBuilds(ids))
  <2>1. \A id \in ids : id \in 1..MaxRows /\ documents[id] \in Doc /\ documents[id].id = NoId
                         /\ documents[id].scripts \in Requests \cup {"none"}
    BY <1>1 DEF Stored, Types, Doc
  <2>2. items \subseteq [id : {0}, scripts : Requests \cup {"none"}]
    BY <2>1 DEF MoveToJSONVector, ReadBuilds, MoveToJSON, FromJSON, TBuild
  <2>3. \A id \in ids : \E item \in items : item.scripts = documents[id].scripts
    <3> SUFFICES ASSUME NEW id \in ids PROVE \E item \in items : item.scripts = documents[id].scripts
      OBVIOUS
    <3>1. MoveToJSON(FromJSON(documents[id])) \in items
      BY DEF MoveToJSONVector, ReadBuilds
    <3>2. MoveToJSON(FromJSON(documents[id])).scripts = documents[id].scripts
      BY DEF MoveToJSON, FromJSON
    <3> QED
      BY <3>1, <3>2
  <2> HIDE DEF items
  <2>4. 200 \in PutStatuses
    BY DEF PutStatuses
  <2>5. /\ listing' \in Listing /\ listing'.pc = "done" /\ listing'.created = listing.created
        /\ listing'.items = items
    BY <1>1, <1>3, <2>2, <2>4 DEF Listing, items
  <2>6. \A b \in listing.created : documents[b].scripts = builds[b].by
    BY <1>1, <1>3 DEF BuildInv, ScriptsOfTheirRow, Stored
  <2>7. ListingRight'
    BY <1>1, <1>3, <2>3, <2>5, <2>6 DEF ListingRight
  <2> QED
    BY <1>1, <2>5, <2>7, ListingStep
<1> QED
  BY <1>2, <1>3 DEF GetBuilds

----------------------------------------------------------------------------
LEMMA NextKeepsBuilds == BuildInv /\ [Next]_vars => BuildInv'
<1> SUFFICES ASSUME BuildInv, [Next]_vars PROVE BuildInv'
  OBVIOUS
<1>1. CASE UNCHANGED vars
  BY <1>1, PutsStep DEF vars
<1>2. ASSUME NEW r \in Requests, Admin(r) PROVE BuildInv'
  BY <1>2, CheckNameKeeps, InsertTaskKeeps, CreateBuildForTaskKeeps, CreateBuildKeeps,
     RequestBreaksKeeps DEF Admin
<1>3. ASSUME NEW p \in puts, Upload(p) PROVE BuildInv'
  BY <1>3, UpsertBuildKeeps, UpsertFailsKeeps, PutAnsweredKeeps DEF Upload
<1> QED
  BY <1>1, <1>2, <1>3, HttpCrashKeeps, GetBuildKeeps, ParseFailsKeeps, OpenBuildsKeeps,
     GetBuildsKeeps DEF Next

LEMMA BuildInvariant == Spec => []BuildInv
  BY InitBuilds, NextKeepsBuilds, PTL DEF Spec

(* Both databases keep their types, and a build that is sent has the id of a row. *)
THEOREM BuildTypes == Spec => []TypeOK
<1>1. BuildInv => TypeOK
  BY TypesImplyTypeOK DEF BuildInv
<1> QED
  BY <1>1, BuildInvariant, PTL

(* Any number of requests that create a task of one name leave one such task. *)
THEOREM TaskNamesUnique == Spec => []OneTaskPerName
<1>1. BuildInv => OneTaskPerName
  BY DEF BuildInv
<1> QED
  BY <1>1, BuildInvariant, PTL

(* No late, repeated or lost PUT stores scripts for a row that is not their own. *)
THEOREM ScriptsMatchRows == Spec => []ScriptsOfTheirRow
<1>1. BuildInv => ScriptsOfTheirRow
  BY DEF BuildInv
<1> QED
  BY <1>1, BuildInvariant, PTL

(* Whoever was told that a build was created can use it. *)
THEOREM ToldIsUsable == Spec => []ListedIsUsable
<1>1. BuildInv => ListedIsUsable
  BY DEF BuildInv
<1> QED
  BY <1>1, BuildInvariant, PTL

(* GET /build and GET /builds show every created build with its own scripts. *)
THEOREM CreatedBuildsShown == Spec => []CreatedIsShown
  BY InvImpliesShown, BuildInvariant, PTL
=============================================================================
