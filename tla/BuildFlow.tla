----------------------------- MODULE BuildFlow -----------------------------
(***************************************************************************)
(* How a task and its builds come to be: userver checks and inserts rows   *)
(* of its database, then sends the scripts of a build to tabasco, which    *)
(* stores them under the id of the row.  The two databases share nothing,  *)
(* and a request to tabasco may be given up while tabasco goes on with it. *)
(*                                                                         *)
(* The scripts of a build are known by the request that brought them.      *)
(***************************************************************************)
EXTENDS Naturals, Sequences

CONSTANTS
    Requests,   \* POSTs of administrators; one tried again is another one
    Names,      \* of tasks
    MaxRows     \* bound: tasks and builds in a behaviour

ASSUME MaxRowsAssumption == MaxRows \in Nat \ {0}
ASSUME RequestsAssumption == "none" \notin Requests   \* "none" stands for no scripts

VARIABLES
    tasks,      \* userver: the name of every task, its id being the position
    builds,     \* userver: [task, by] of every build, by the request that made it
    documents,  \* tabasco: the build documents by _id, NoDocument if there is none
    request,    \* a request of an administrator: [pc, name, build, status]
    puts,       \* PUT /uploadBuild under way: [build, by, status], status 0 while undone
    reply,      \* the last answer to GET /build: [asked, status, build, lost], asked if it is a build
    listing     \* GET /builds: [pc, due, created, status, items]

vars == <<tasks, builds, documents, request, puts, reply, listing>>

NoId == "no id"
NoDocument == [id |-> NoId, scripts |-> "none"]
TBuild == [id |-> 0, scripts |-> "none"]
NoReply == [asked |-> 0, status |-> 0, build |-> TBuild, lost |-> FALSE]
NewRequest == [pc |-> "new", name |-> "none", build |-> 0, status |-> 0]

Init ==
    /\ tasks = <<>> /\ builds = <<>>
    /\ documents = [id \in 1..MaxRows |-> NoDocument]
    /\ request = [r \in Requests |-> NewRequest]
    /\ puts = {}
    /\ reply = NoReply
    /\ listing = [pc |-> "idle", due |-> {}, created |-> {}, status |-> 0, items |-> {}]

Answer(r, status) == request' = [request EXCEPT ![r].pc = "done", ![r].status = status]

----------------------------------------------------------------------------
(* POST /admin/task: create_task looks for the name, then inserts the row. *)

CheckName(r) ==
    /\ request[r].pc = "new"
    /\ \E name \in Names :
         IF \E t \in DOMAIN tasks : tasks[t] = name
           THEN Answer(r, 400)
           ELSE request' = [request EXCEPT ![r].pc = "insert", ![r].name = name]
    /\ UNCHANGED <<tasks, builds, documents, puts, reply, listing>>

(* mutant: TaskDB.name without unique=True *)
InsertUnchecked(r) ==
    /\ request[r].pc = "insert"
    /\ tasks' = Append(tasks, request[r].name)
    /\ Answer(r, 200)
    /\ UNCHANGED <<builds, documents, puts, reply, listing>>

(***************************************************************************)
(* The column is unique: the second commit raises what the handler does    *)
(* not catch.  db.refresh may still fail when the row is there.            *)
(***************************************************************************)
InsertTask(r) ==
    /\ request[r].pc = "insert" /\ Len(tasks) < MaxRows
    /\ IF \E t \in DOMAIN tasks : tasks[t] = request[r].name
         THEN Answer(r, 500) /\ UNCHANGED tasks
         ELSE /\ tasks' = Append(tasks, request[r].name)
              /\ Answer(r, 200) \/ Answer(r, 500)
    /\ UNCHANGED <<builds, documents, puts, reply, listing>>

----------------------------------------------------------------------------
(* POST /admin/task/{id}/build: the row, then PUT /uploadBuild. *)

(* mutant: db.refresh is missing, the id of the row is not known *)
CreateBuildNotRefreshed(r) ==
    /\ request[r].pc = "new" /\ Len(builds) < MaxRows
    /\ \E t \in 1..MaxRows :
         IF t \in DOMAIN tasks
           THEN /\ builds' = Append(builds, [task |-> t, by |-> r])
                /\ request' = [request EXCEPT ![r].pc = "put"]
           ELSE Answer(r, 400) /\ UNCHANGED builds
    /\ UNCHANGED <<tasks, documents, puts, reply, listing>>

CreateBuildForTask(r) ==
    /\ request[r].pc = "new" /\ Len(builds) < MaxRows
    /\ \E t \in 1..MaxRows :
         IF t \in DOMAIN tasks
           THEN /\ builds' = Append(builds, [task |-> t, by |-> r])
                /\ request' = [request EXCEPT ![r].pc = "put", ![r].build = Len(builds) + 1]
           ELSE Answer(r, 400) /\ UNCHANGED builds
    /\ UNCHANGED <<tasks, documents, puts, reply, listing>>

(* mutant: the id of the task is sent for that of the build *)
CreateBuildOfTask(r) ==
    /\ request[r].pc = "put"
    /\ puts' = puts \cup {[build |-> builds[request[r].build].task, by |-> r, status |-> 0]}
    /\ request' = [request EXCEPT ![r].pc = "waiting"]
    /\ UNCHANGED <<tasks, builds, documents, reply, listing>>

(* create_build sends the request with all the fields Parse asks for. *)
CreateBuild(r) ==
    /\ request[r].pc = "put"
    /\ puts' = puts \cup {[build |-> request[r].build, by |-> r, status |-> 0]}
    /\ request' = [request EXCEPT ![r].pc = "waiting"]
    /\ UNCHANGED <<tasks, builds, documents, reply, listing>>

(* mutant: the status of the answer is not looked at *)
AnyAnswer(p) ==
    /\ p.status # 0 /\ request[p.by].pc = "waiting"
    /\ Answer(p.by, 200)
    /\ puts' = puts \ {p}
    /\ UNCHANGED <<tasks, builds, documents, reply, listing>>

(* Anything but a 200 is raised as RuntimeError and answered with 400. *)
PutAnswered(p) ==
    /\ p.status # 0 /\ request[p.by].pc = "waiting"
    /\ Answer(p.by, IF p.status = 200 THEN 200 ELSE 400)
    /\ puts' = puts \ {p}
    /\ UNCHANGED <<tasks, builds, documents, reply, listing>>

(***************************************************************************)
(* The database or tabasco is not reached, or the timeout of 20 seconds is *)
(* up: an exception that is no RuntimeError.  A PUT that was sent goes on. *)
(***************************************************************************)
RequestBreaks(r) ==
    /\ request[r].pc # "done"
    /\ Answer(r, 500)
    /\ UNCHANGED <<tasks, builds, documents, puts, reply, listing>>

----------------------------------------------------------------------------
(* tabasco. *)

(* A build as JSON, without its id when it is stored. *)
MoveToJSON(build) == [id |-> build.id, scripts |-> build.scripts]
Erased(data) == [data EXCEPT !.id = NoId]

(* Fields that are missing keep the value the struct starts with. *)
FromJSON(data) == [id |-> IF data.id = NoId THEN TBuild.id ELSE data.id, scripts |-> data.scripts]

(* The document is stored under _id; an error after that is answered with 500. *)
UpsertBuild(p) ==
    /\ p.status = 0
    /\ documents' = [documents EXCEPT ![p.build] =
                       Erased(MoveToJSON([id |-> p.build, scripts |-> p.by]))]
    /\ \E status \in {200, 500} : puts' = (puts \ {p}) \cup {[p EXCEPT !.status = status]}
    /\ UNCHANGED <<tasks, builds, request, reply, listing>>

UpsertFails(p) ==
    /\ p.status = 0
    /\ puts' = (puts \ {p}) \cup {[p EXCEPT !.status = 500]}
    /\ UNCHANGED <<tasks, builds, documents, request, reply, listing>>

(* The HTTP server dies with its requests; who waits for them gets an exception. *)
HttpCrash ==
    /\ puts # {}
    /\ puts' = {}
    /\ UNCHANGED <<tasks, builds, documents, request, reply, listing>>

(* storageClient_.GetBuild: the document with that _id, or 404. *)
FindBuild(id) ==
    IF documents[id] = NoDocument THEN [status |-> 404, build |-> TBuild]
                                  ELSE [status |-> 200, build |-> FromJSON(documents[id])]

(* history: the builds whose creators know of their success *)
Created == {b \in DOMAIN builds : request[builds[b].by].status = 200}

(* GET /build; an exception of the database is answered with 500. *)
GetBuild(id) ==
    /\ \E found \in {FindBuild(id), [status |-> 500, build |-> TBuild]} :
         reply' = [asked |-> IF found.status = 200 THEN id ELSE 0,
                   status |-> found.status, build |-> MoveToJSON(found.build),
                   lost |-> found.status = 404 /\ id \in Created]
    /\ UNCHANGED <<tasks, builds, documents, request, puts, listing>>

(* GET /build without an id, or with one that stoull throws at. *)
ParseFails ==
    /\ \E status \in {400, 500} : reply' = [NoReply EXCEPT !.status = status]
    /\ UNCHANGED <<tasks, builds, documents, request, puts, listing>>

(***************************************************************************)
(* GET /builds: find({}) opens a cursor, which delivers every document *)
(* that was there then and may or may not come to those stored since.      *)
(* created is history: the builds in Created when it was opened.           *)
(***************************************************************************)
Stored == {id \in 1..MaxRows : documents[id] # NoDocument}
ReadBuilds(ids) == {FromJSON(documents[id]) : id \in ids}
MoveToJSONVector(items) == {MoveToJSON(build) : build \in items}

OpenBuilds ==
    /\ listing.pc = "idle"
    /\ listing' = [listing EXCEPT !.pc = "open", !.due = Stored,
                      !.created = Created]
    /\ UNCHANGED <<tasks, builds, documents, request, puts, reply>>

(* mutant: the builds are gathered by their id, which is 0 for all *)
GetBuildsById ==
    /\ listing.pc = "open"
    /\ LET all == MoveToJSONVector(ReadBuilds(Stored))
       IN listing' = [listing EXCEPT !.pc = "done", !.due = {}, !.status = 200,
                        !.items = {CHOOSE b \in all : b.id = id : id \in {b.id : b \in all}}]
    /\ UNCHANGED <<tasks, builds, documents, request, puts, reply>>

GetBuilds ==
    /\ listing.pc = "open"
    /\ \/ \E ids \in SUBSET Stored :
            /\ listing.due \subseteq ids
            /\ listing' = [listing EXCEPT !.pc = "done", !.due = {}, !.status = 200,
                              !.items = MoveToJSONVector(ReadBuilds(ids))]
       \/ listing' = [listing EXCEPT !.pc = "done", !.due = {}, !.created = {}, !.status = 500]
    /\ UNCHANGED <<tasks, builds, documents, request, puts, reply>>

----------------------------------------------------------------------------
Admin(r) ==
    \/ CheckName(r) \/ InsertTask(r) \/ CreateBuildForTask(r) \/ CreateBuild(r) \/ RequestBreaks(r)

Upload(p) == UpsertBuild(p) \/ UpsertFails(p) \/ PutAnswered(p)

Next ==
    \/ \E r \in Requests : Admin(r)
    \/ \E p \in puts : Upload(p)
    \/ HttpCrash
    \/ \E id \in 1..MaxRows : GetBuild(id)
    \/ ParseFails \/ OpenBuilds \/ GetBuilds

Spec == Init /\ [][Next]_vars

----------------------------------------------------------------------------
(* Type correctness; a build that is sent has the id of a row. *)
TypeOK ==
    /\ tasks \in Seq(Names) /\ builds \in Seq([task : 1..MaxRows, by : Requests])
    /\ documents \in [1..MaxRows -> [id : {NoId}, scripts : Requests \cup {"none"}]]
    /\ request \in [Requests -> [pc : {"new", "insert", "put", "waiting", "done"},
                                 name : Names \cup {"none"}, build : 0..MaxRows,
                                 status : {0, 200, 400, 500}]]
    /\ puts \subseteq [build : 1..MaxRows, by : Requests, status : {0, 200, 500}]
    /\ listing.pc \in {"idle", "open", "done"} /\ listing.due \cup listing.created \subseteq 1..MaxRows
    /\ \A r \in Requests : request[r].pc = "put" => request[r].build \in DOMAIN builds

(* Requests that create a task at the same time never leave two of one name. *)
OneTaskPerName ==
    \A t, u \in DOMAIN tasks : tasks[t] = tasks[u] => t = u

(***************************************************************************)
(* The scripts tabasco has for an id are those of the row with that id: a  *)
(* PUT that arrives after its request was given up, and tried again under  *)
(* another id, overwrites nothing, and there are no scripts without a row. *)
(***************************************************************************)
ScriptsOfTheirRow ==
    \A id \in 1..MaxRows : documents[id] # NoDocument =>
        id \in DOMAIN builds /\ builds[id].by = documents[id].scripts

(***************************************************************************)
(* A build that a task lists and that has no scripts is one whose creator  *)
(* is still waiting or was not told that it succeeded.                     *)
(***************************************************************************)
ListedIsUsable ==
    \A b \in DOMAIN builds :
        request[builds[b].by].status = 200 => documents[b] # NoDocument

(***************************************************************************)
(* Once its creator was told of its success, a build is shown with its own *)
(* scripts: GET /build does not miss it, and GET /builds lists it, also if *)
(* others are stored meanwhile.                                            *)
(***************************************************************************)
CreatedIsShown ==
    /\ ~reply.lost
    /\ reply.status = 200 => reply.build.scripts = builds[reply.asked].by
    /\ listing.status = 200 =>
         \A b \in listing.created : \E item \in listing.items : item.scripts = builds[b].by
=============================================================================
