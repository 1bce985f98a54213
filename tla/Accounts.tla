------------------------------ MODULE Accounts ------------------------------
(***************************************************************************)
(* userver's accounts: people sign up under a name, sign in with their     *)
(* password, and with the token they are given post solutions and read     *)
(* their results, while the server is restarted and time passes.           *)
(*                                                                         *)
(* A person stands for a password that nobody else uses.  Python's hash of *)
(* a string differs from one process to the next: it is the string and the *)
(* number of the process.  A token is signed with a key from the           *)
(* environment and stays valid over a restart.                             *)
(***************************************************************************)
EXTENDS Naturals, Sequences

CONSTANTS
    Persons,
    Names,
    AccessTokenExpireMinutes,   \* the setting; create_token takes it for seconds
    MaxUsers,       \* bound: accounts
    MaxSolutions,   \* bound: solutions
    MaxRestarts,    \* bound: restarts of userver
    MaxTime         \* bound: seconds

ASSUME TimeAssumption == AccessTokenExpireMinutes \in Nat
ASSUME BoundsAssumption ==
    MaxUsers \in Nat /\ MaxSolutions \in Nat /\ MaxRestarts \in Nat /\ MaxTime \in Nat

VARIABLES
    users,      \* table users: [name, password], and who it was; the id is the position
    solutions,  \* table solutions: [user_id], and who posted it
    signingUp,  \* the name a person's sign-up has found free, or NoName
    token,      \* the last token of a person: [user_id, end_timestamp]
    process,    \* number of the userver process
    now,        \* time.time(), in seconds
    refused,    \* history: people refused at sign-in with the password of that account
    shown       \* history: who was shown which solution

vars == <<users, solutions, signingUp, token, process, now, refused, shown>>
history == <<refused, shown>>

NoName == "no name"
NoToken == [user_id |-> 0, end_timestamp |-> 0]

Init ==
    /\ users = <<>>
    /\ solutions = <<>>
    /\ signingUp = [p \in Persons |-> NoName]
    /\ token = [p \in Persons |-> NoToken]
    /\ process = 0
    /\ now = 0
    /\ refused = {} /\ shown = {}

Hash(name, person) == [text |-> <<name, person>>, process |-> process]

Ids(name) == {id \in 1..Len(users) : users[id].name = name}

----------------------------------------------------------------------------
(* POST /signup, add_user: the name is looked up, then the row inserted. *)
CheckName(p, name) ==
    /\ signingUp[p] = NoName /\ Ids(name) = {} /\ Len(users) < MaxUsers
    /\ signingUp' = [signingUp EXCEPT ![p] = name]
    /\ UNCHANGED <<users, solutions, token, process, now, history>>

(* mutant: the column is not unique *)
InsertAnyUser(p) ==
    /\ signingUp[p] # NoName
    /\ users' = Append(users, [name |-> signingUp[p], person |-> p,
                               password |-> Hash(signingUp[p], p)])
    /\ signingUp' = [signingUp EXCEPT ![p] = NoName]
    /\ UNCHANGED <<solutions, token, process, now, history>>

(* The column is unique: a second insert raises an exception nobody catches. *)
InsertUser(p) ==
    /\ signingUp[p] # NoName
    /\ users' = IF Ids(signingUp[p]) # {} THEN users
                ELSE Append(users, [name |-> signingUp[p], person |-> p,
                                    password |-> Hash(signingUp[p], p)])
    /\ signingUp' = [signingUp EXCEPT ![p] = NoName]
    /\ UNCHANGED <<solutions, token, process, now, history>>

(* mutant: the id is taken for a position that starts at 0 *)
CreateTokenFromZero(id) ==
    [user_id |-> id - 1, end_timestamp |-> now + AccessTokenExpireMinutes]

CreateToken(id) ==
    [user_id |-> id, end_timestamp |-> now + AccessTokenExpireMinutes]

(* mutant: the other way round at sign-in, password + username *)
PasswordMatchesReversed(id, p) == users[id].password.text = <<p, users[id].name>>

(* str(hash(username + password)) == user.password *)
PasswordMatches(id, p) == users[id].password = Hash(users[id].name, p)

(* POST /signin: a token, or 401 "wrong password". *)
SignIn(p, name) ==
    /\ \E id \in Ids(name) :
         \/ /\ PasswordMatches(id, p)
            /\ token' = [token EXCEPT ![p] = CreateToken(id)]
            /\ UNCHANGED refused
         \/ /\ ~PasswordMatches(id, p)
            /\ refused' = refused \cup {[person |-> q, restarts |-> process - users[id].password.process] :
                                         q \in {p} \cap {users[id].person}}
            /\ UNCHANGED token
    /\ UNCHANGED <<users, solutions, signingUp, process, now, shown>>

----------------------------------------------------------------------------
(* verify_token; a request with a token that ran out is answered with 400. *)
TokenValid(p) == token[p].end_timestamp > now

(* POST /tasks/{id}: save_solution for the user of the token. *)
PostSolution(p) ==
    /\ token[p] # NoToken /\ TokenValid(p) /\ Len(solutions) < MaxSolutions
    /\ solutions' = Append(solutions, [user_id |-> token[p].user_id, person |-> p])
    /\ UNCHANGED <<users, signingUp, token, process, now, history>>

(* mutant: the owner is not looked at *)
GetAnySolution(p, id) ==
    /\ token[p] # NoToken /\ TokenValid(p)
    /\ shown' = shown \cup {[person |-> p, solution |-> id]}
    /\ UNCHANGED <<users, solutions, signingUp, token, process, now, refused>>

(* GET /solutions/{id}: another user's solution is refused with 400. *)
GetSolutionById(p, id) ==
    /\ token[p] # NoToken /\ TokenValid(p)
    /\ solutions[id].user_id = token[p].user_id
    /\ shown' = shown \cup {[person |-> p, solution |-> id]}
    /\ UNCHANGED <<users, solutions, signingUp, token, process, now, refused>>

(* GET /solutions: all solutions of the user of the token. *)
GetMySolutions(p) ==
    /\ token[p] # NoToken /\ TokenValid(p)
    /\ shown' = shown \cup [person : {p},
                             solution : {id \in 1..Len(solutions) :
                                           solutions[id].user_id = token[p].user_id}]
    /\ UNCHANGED <<users, solutions, signingUp, token, process, now, refused>>

----------------------------------------------------------------------------
(* userver is started again, sign-ups under way are lost. *)
Restart ==
    /\ process < MaxRestarts
    /\ process' = process + 1
    /\ signingUp' = [p \in Persons |-> NoName]
    /\ UNCHANGED <<users, solutions, token, now, history>>

Tick ==
    /\ now < MaxTime
    /\ now' = now + 1
    /\ UNCHANGED <<users, solutions, signingUp, token, process, history>>

Next ==
    \/ \E p \in Persons, name \in Names : CheckName(p, name) \/ SignIn(p, name)
    \/ \E p \in Persons : InsertUser(p) \/ PostSolution(p) \/ GetMySolutions(p)
    \/ \E p \in Persons : \E id \in 1..Len(solutions) : GetSolutionById(p, id)
    \/ Restart \/ Tick

Spec == Init /\ [][Next]_vars

----------------------------------------------------------------------------
(* Type correctness; solutions and tokens belong to accounts that exist. *)
TypeOK ==
    /\ users \in Seq([name : Names, person : Persons,
                      password : [text : Names \X Persons, process : 0..MaxRestarts]])
    /\ solutions \in Seq([user_id : 1..Len(users), person : Persons])
    /\ signingUp \in [Persons -> Names \cup {NoName}]
    /\ \A p \in Persons : token[p] # NoToken => token[p].user_id \in 1..Len(users)
    /\ process \in 0..MaxRestarts /\ now \in 0..MaxTime

(* Two people who sign up under one name at the same time do not both get an account. *)
OneAccountPerName == \A i, j \in 1..Len(users) : users[i].name = users[j].name => i = j

(***************************************************************************)
(* As long as userver is not restarted, whoever has signed up can sign in, *)
(* also after a race for the name that was won.                            *)
(***************************************************************************)
RefusedOnlyAfterRestart == \A r \in refused : r.restarts > 0

(***************************************************************************)
(* A result is shown only to the person who posted the solution, through   *)
(* sign-ups that race for a name, restarts and tokens that outlive them.   *)
(***************************************************************************)
ShownToItsOwner == \A s \in shown : solutions[s.solution].person = s.person

(* 401 "wrong password" (server.py) means a wrong password: nobody with the right one gets it. *)
RightPasswordAccepted == refused = {}
=============================================================================
