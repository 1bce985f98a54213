--------------------------- MODULE AccountsProofs ---------------------------
(***************************************************************************)
(* Accounts for any number of people, names, accounts, solutions and       *)
(* restarts: names stay unique, a right password is refused only after a   *)
(* restart, and a result is shown only to the person who posted it.        *)
(***************************************************************************)
EXTENDS Accounts, TLAPS

Users == [name : Names, person : Persons,
          password : [text : Names \X Persons, process : 0..MaxRestarts]]
Posted(n) == [user_id : 1..n, person : Persons]

(* The state has its types, tokens with the fields they are given at sign-in. *)
Types ==
    /\ users \in Seq(Users)
    /\ solutions \in Seq(Posted(Len(users)))
    /\ signingUp \in [Persons -> Names \cup {NoName}]
    /\ token \in [Persons -> [user_id : 0..Len(users), end_timestamp : Nat]]
    /\ \A p \in Persons : token[p] # NoToken => token[p].user_id \in 1..Len(users)
    /\ process \in 0..MaxRestarts /\ now \in 0..MaxTime

(* What is stored as a password is the hash of the account's own person and name. *)
PasswordsOwn ==
    \A id \in 1..Len(users) :
        /\ users[id].password.text = <<users[id].name, users[id].person>>
        /\ users[id].password.process <= process

(* A token names the account of the person who holds it. *)
TokensOwn == \A p \in Persons : token[p] # NoToken => users[token[p].user_id].person = p

(* A solution is filed under the account of the person who posted it. *)
SolutionsOwn ==
    \A k \in 1..Len(solutions) : users[solutions[k].user_id].person = solutions[k].person

ShownPosted == \A s \in shown : s.solution \in 1..Len(solutions)

AccountsInv ==
    /\ Types /\ OneAccountPerName /\ PasswordsOwn /\ TokensOwn /\ SolutionsOwn
    /\ ShownPosted /\ ShownToItsOwner /\ RefusedOnlyAfterRestart

----------------------------------------------------------------------------
(* A row that is appended leaves the others as they are. *)
LEMMA AppendUser ==
    ASSUME Types, NEW u \in Users
    PROVE  /\ Append(users, u) \in Seq(Users)
           /\ Len(Append(users, u)) = Len(users) + 1 /\ Len(users) \in Nat
           /\ \A id \in 1..Len(users) : Append(users, u)[id] = users[id]
           /\ Append(users, u)[Len(users) + 1] = u
  BY DEF Types

(* What the rows hold, from the type of their tables. *)
LEMMA RowFacts ==
    ASSUME Types
    PROVE  /\ Len(users) \in Nat /\ Len(solutions) \in Nat
           /\ \A id \in 1..Len(users) :
                /\ users[id].name \in Names /\ users[id].person \in Persons
                /\ users[id].password \in [text : Names \X Persons, process : 0..MaxRestarts]
                /\ users[id].password.process \in Nat
           /\ \A k \in 1..Len(solutions) : solutions[k].user_id \in 1..Len(users)
<1>1. users \in Seq(Users) /\ solutions \in Seq(Posted(Len(users)))
  BY DEF Types
<1>2. \A id \in 1..Len(users) : users[id] \in Users
  BY <1>1
<1>3. \A k \in 1..Len(solutions) : solutions[k] \in Posted(Len(users))
  BY <1>1
<1>4. \A u \in Users :
         /\ u.name \in Names /\ u.person \in Persons
         /\ u.password \in [text : Names \X Persons, process : 0..MaxRestarts]
         /\ u.password.process \in Nat
  BY BoundsAssumption DEF Users
<1>5. \A s \in Posted(Len(users)) : s.user_id \in 1..Len(users)
  BY DEF Posted
<1> QED
  BY <1>1, <1>2, <1>3, <1>4, <1>5

LEMMA TypesImplyTypeOK == Types => TypeOK
<1> SUFFICES ASSUME Types PROVE TypeOK
  OBVIOUS
<1>1. users \in Seq([name : Names, person : Persons,
                     password : [text : Names \X Persons, process : 0..MaxRestarts]])
  BY DEF Types, Users
<1>2. solutions \in Seq([user_id : 1..Len(users), person : Persons])
  BY DEF Types, Posted
<1> QED
  BY <1>1, <1>2 DEF Types, TypeOK

LEMMA InitAccounts == Init => AccountsInv
<1> SUFFICES ASSUME Init PROVE AccountsInv
  OBVIOUS
<1>1. Len(users) = 0 /\ Len(solutions) = 0
  BY DEF Init
<1>2. Types
  BY <1>1, BoundsAssumption DEF Init, Types, NoToken
<1>3. OneAccountPerName /\ PasswordsOwn /\ SolutionsOwn
  BY <1>1 DEF OneAccountPerName, PasswordsOwn, SolutionsOwn
<1>4. TokensOwn /\ ShownPosted /\ ShownToItsOwner /\ RefusedOnlyAfterRestart
  BY DEF Init, TokensOwn, ShownPosted, ShownToItsOwner, RefusedOnlyAfterRestart
<1> QED
  BY <1>2, <1>3, <1>4 DEF AccountsInv

----------------------------------------------------------------------------
LEMMA CheckNameKeeps ==
    ASSUME AccountsInv, NEW p \in Persons, NEW name \in Names, CheckName(p, name)
    PROVE  AccountsInv'
<1>1. Types'
  BY DEF AccountsInv, Types, CheckName
<1> QED
  BY <1>1 DEF AccountsInv, CheckName, history, OneAccountPerName, PasswordsOwn, TokensOwn, SolutionsOwn,
              ShownPosted, ShownToItsOwner, RefusedOnlyAfterRestart

(* Of two sign-ups that found a name free, the one that inserts second inserts nothing. *)
LEMMA InsertUserKeeps ==
    ASSUME AccountsInv, NEW p \in Persons, InsertUser(p)
    PROVE  AccountsInv'
<1> DEFINE name == signingUp[p]
           u == [name |-> name, person |-> p, password |-> Hash(name, p)]
<1>1. Types /\ name \in Names
  BY DEF AccountsInv, Types, InsertUser
<1>2. UNCHANGED <<solutions, token, process, now, refused, shown>>
  BY DEF InsertUser, history
<1>3. signingUp' \in [Persons -> Names \cup {NoName}]
  BY <1>1 DEF Types, InsertUser
<1>4. CASE Ids(name) # {}
  <2>1. users' = users
    BY <1>4 DEF InsertUser
  <2>2. Types'
    BY <1>1, <1>2, <1>3, <2>1 DEF Types
  <2> QED
    BY <1>2, <2>1, <2>2 DEF AccountsInv, OneAccountPerName, PasswordsOwn, TokensOwn, SolutionsOwn,
              ShownPosted, ShownToItsOwner, RefusedOnlyAfterRestart
<1>5. CASE Ids(name) = {}
  <2>1. users' = Append(users, u)
    BY <1>5 DEF InsertUser
  <2>2. u \in Users /\ u.password.text = <<name, p>> /\ u.password.process = process
    BY <1>1 DEF Users, Hash, Types
  <2>3. /\ users' \in Seq(Users)
        /\ Len(users') = Len(users) + 1 /\ Len(users) \in Nat
        /\ \A id \in 1..Len(users) : users'[id] = users[id]
        /\ users'[Len(users) + 1] = u
    BY <1>1, <2>1, <2>2, AppendUser
  <2>4. Types'
    <3>1. 1..Len(users) \subseteq 1..Len(users') /\ 0..Len(users) \subseteq 0..Len(users')
      BY <2>3
    <3>2. solutions' \in Seq(Posted(Len(users')))
      <4>1. Posted(Len(users)) \subseteq Posted(Len(users'))
        BY <3>1 DEF Posted
      <4>2. solutions \in Seq(Posted(Len(users)))
        BY <1>1 DEF Types
      <4> QED
        BY <4>1, <4>2, <1>2
    <3>3. token' \in [Persons -> [user_id : 0..Len(users'), end_timestamp : Nat]]
      BY <1>1, <1>2, <3>1 DEF Types
    <3> QED
      BY <1>1, <1>2, <1>3, <2>3, <3>1, <3>2, <3>3 DEF Types
  <2>5. OneAccountPerName'
    <3>1. \A id \in 1..Len(users) : users[id].name # name
      BY <1>5 DEF Ids
    <3> QED
      BY <2>3, <3>1 DEF OneAccountPerName, AccountsInv
  <2>6. PasswordsOwn'
    BY <1>1, <1>2, <2>2, <2>3 DEF PasswordsOwn, AccountsInv, Types
  <2>7. TokensOwn'
    BY <1>1, <1>2, <2>3 DEF TokensOwn, AccountsInv, Types
  <2>8. SolutionsOwn'
    <3>1. \A k \in 1..Len(solutions) : solutions[k].user_id \in 1..Len(users)
      BY <1>1, RowFacts
    <3> QED
      BY <1>2, <2>3, <3>1 DEF SolutionsOwn, AccountsInv
  <2> QED
    BY <1>2, <2>4, <2>5, <2>6, <2>7, <2>8
    DEF AccountsInv, ShownPosted, ShownToItsOwner, RefusedOnlyAfterRestart
<1> QED
  BY <1>4, <1>5

(* The hash that matches has the text of the password of that account. *)
LEMMA SignInKeeps ==
    ASSUME AccountsInv, NEW p \in Persons, NEW name \in Names, SignIn(p, name)
    PROVE  AccountsInv'
<1>1. Types /\ UNCHANGED <<users, solutions, signingUp, process, now, shown>>
  BY DEF AccountsInv, SignIn
<1>2. PICK id \in Ids(name) :
         \/ /\ PasswordMatches(id, p)
            /\ token' = [token EXCEPT ![p] = CreateToken(id)]
            /\ UNCHANGED refused
         \/ /\ ~PasswordMatches(id, p)
            /\ refused' = refused \cup {[person |-> q, restarts |-> process - users[id].password.process] :
                                         q \in {p} \cap {users[id].person}}
            /\ UNCHANGED token
  BY DEF SignIn
<1>3. id \in 1..Len(users) /\ users[id].password.text = <<users[id].name, users[id].person>>
      /\ users[id].password.process <= process /\ users[id].password.process \in Nat /\ process \in Nat
  <2>1. id \in 1..Len(users)
    BY DEF Ids
  <2>2. process \in Nat
    BY <1>1, BoundsAssumption DEF Types
  <2> QED
    BY <1>1, <2>1, <2>2, RowFacts DEF AccountsInv, PasswordsOwn
<1>4. users[id].password \in [text : Names \X Persons, process : 0..MaxRestarts]
      /\ Len(users) \in Nat /\ now \in Nat
  <2>1. now \in Nat
    BY <1>1, BoundsAssumption DEF Types
  <2> QED
    BY <1>1, <1>3, <2>1, RowFacts
<1>5. CASE PasswordMatches(id, p) /\ token' = [token EXCEPT ![p] = CreateToken(id)] /\ UNCHANGED refused
  <2>1. users[id].person = p
    BY <1>3, <1>5 DEF PasswordMatches, Hash
  <2>2. CreateToken(id) \in [user_id : 1..Len(users), end_timestamp : Nat] /\ CreateToken(id).user_id = id
    BY <1>3, <1>4, TimeAssumption DEF CreateToken
  <2>3. Types'
    BY <1>1, <1>4, <1>5, <2>2 DEF Types
  <2>4. TokensOwn'
    BY <1>1, <1>5, <2>1, <2>2 DEF TokensOwn, AccountsInv, Types
  <2> QED
    BY <1>1, <1>5, <2>3, <2>4 DEF AccountsInv, OneAccountPerName, PasswordsOwn, SolutionsOwn,
              ShownPosted, ShownToItsOwner, RefusedOnlyAfterRestart
<1>6. CASE /\ ~PasswordMatches(id, p)
           /\ refused' = refused \cup {[person |-> q, restarts |-> process - users[id].password.process] :
                                        q \in {p} \cap {users[id].person}}
           /\ UNCHANGED token
  <2>1. users[id].person = p => process - users[id].password.process > 0
    <3> SUFFICES ASSUME users[id].person = p, users[id].password.process = process PROVE FALSE
      BY <1>3
    <3>1. users[id].password = Hash(users[id].name, p)
      BY <1>3, <1>4 DEF Hash
    <3> QED
      BY <3>1, <1>6 DEF PasswordMatches
  <2>2. RefusedOnlyAfterRestart'
    BY <1>6, <2>1 DEF RefusedOnlyAfterRestart, AccountsInv
  <2>3. Types'
    BY <1>1, <1>6 DEF Types
  <2> QED
    BY <1>1, <1>6, <2>2, <2>3 DEF AccountsInv, OneAccountPerName, PasswordsOwn, SolutionsOwn,
              TokensOwn, ShownPosted, ShownToItsOwner
<1> QED
  BY <1>2, <1>5, <1>6

LEMMA PostSolutionKeeps ==
    ASSUME AccountsInv, NEW p \in Persons, PostSolution(p)
    PROVE  AccountsInv'
<1> DEFINE s == [user_id |-> token[p].user_id, person |-> p]
<1>1. Types /\ UNCHANGED <<users, signingUp, token, process, now, refused, shown>>
      /\ solutions' = Append(solutions, s)
  BY DEF AccountsInv, PostSolution, history
<1>2. token[p].user_id \in 1..Len(users) /\ users[token[p].user_id].person = p
  BY <1>1 DEF PostSolution, AccountsInv, TokensOwn, Types
<1>3. s \in Posted(Len(users))
  BY <1>2 DEF Posted
<1>4. /\ solutions' \in Seq(Posted(Len(users)))
      /\ Len(solutions') = Len(solutions) + 1 /\ Len(solutions) \in Nat
      /\ \A k \in 1..Len(solutions) : solutions'[k] = solutions[k]
      /\ solutions'[Len(solutions) + 1] = s
  BY <1>1, <1>3 DEF Types
<1>5. Types'
  BY <1>1, <1>4 DEF Types
<1>6. SolutionsOwn'
  BY <1>1, <1>2, <1>4 DEF SolutionsOwn, AccountsInv
<1>7. ShownPosted' /\ ShownToItsOwner'
  BY <1>1, <1>4 DEF ShownPosted, ShownToItsOwner, AccountsInv
<1> QED
  BY <1>1, <1>5, <1>6, <1>7 DEF AccountsInv, OneAccountPerName, PasswordsOwn, TokensOwn,
            RefusedOnlyAfterRestart

(* Whatever is shown to a holder of a token was filed under the token's account. *)
LEMMA ShowKeeps ==
    ASSUME AccountsInv, NEW p \in Persons, token[p] # NoToken,
           NEW ids \in SUBSET (1..Len(solutions)),
           \A id \in ids : solutions[id].user_id = token[p].user_id,
           \A s \in shown' : s \in shown \/ (s.person = p /\ s.solution \in ids),
           UNCHANGED <<users, solutions, signingUp, token, process, now, refused>>
    PROVE  AccountsInv'
<1>1. Types'
  BY DEF AccountsInv, Types
<1>2. \A id \in ids : solutions[id].person = p
  BY DEF AccountsInv, SolutionsOwn, TokensOwn
<1>3. ShownPosted' /\ ShownToItsOwner'
  BY <1>2 DEF AccountsInv, ShownPosted, ShownToItsOwner
<1> QED
  BY <1>1, <1>3 DEF AccountsInv, OneAccountPerName, PasswordsOwn, TokensOwn, SolutionsOwn,
            RefusedOnlyAfterRestart

LEMMA GetSolutionKeeps ==
    ASSUME AccountsInv, NEW p \in Persons, NEW id \in 1..Len(solutions), GetSolutionById(p, id)
    PROVE  AccountsInv'
<1>1. \A s \in shown' : s \in shown \/ (s.person = p /\ s.solution \in {id})
  BY DEF GetSolutionById
<1> QED
  BY <1>1, ShowKeeps, {id} \in SUBSET (1..Len(solutions)) DEF GetSolutionById

LEMMA GetMySolutionsKeeps ==
    ASSUME AccountsInv, NEW p \in Persons, GetMySolutions(p)
    PROVE  AccountsInv'
<1> DEFINE ids == {id \in 1..Len(solutions) : solutions[id].user_id = token[p].user_id}
<1>1. ids \in SUBSET (1..Len(solutions)) /\ \A id \in ids : solutions[id].user_id = token[p].user_id
  OBVIOUS
<1>2. \A s \in shown' : s \in shown \/ (s.person = p /\ s.solution \in ids)
  BY DEF GetMySolutions
<1> HIDE DEF ids
<1> QED
  BY <1>1, <1>2, ShowKeeps DEF GetMySolutions

LEMMA RestartKeeps == ASSUME AccountsInv, Restart \/ Tick PROVE AccountsInv'
<1>1. Types /\ UNCHANGED <<users, solutions, token, refused, shown>>
      /\ process \in Nat /\ process' \in Nat /\ process <= process'
  BY BoundsAssumption DEF AccountsInv, Types, Restart, Tick, history
<1>2. Types'
  BY <1>1, BoundsAssumption DEF Types, Restart, Tick
<1>3. PasswordsOwn'
  <2>1. \A id \in 1..Len(users) : users[id].password.process \in Nat
    BY <1>1, RowFacts
  <2> QED
    BY <1>1, <2>1 DEF AccountsInv, PasswordsOwn
<1> QED
  BY <1>1, <1>2, <1>3 DEF AccountsInv, OneAccountPerName, TokensOwn, SolutionsOwn,
            ShownPosted, ShownToItsOwner, RefusedOnlyAfterRestart

LEMMA NextKeepsAccounts == AccountsInv /\ [Next]_vars => AccountsInv'
<1> SUFFICES ASSUME AccountsInv, [Next]_vars PROVE AccountsInv'
  OBVIOUS
<1>1. CASE UNCHANGED vars
  <2>1. Types'
    BY <1>1 DEF AccountsInv, Types, vars
  <2> QED
    BY <1>1, <2>1 DEF vars, AccountsInv, OneAccountPerName, PasswordsOwn, TokensOwn, SolutionsOwn,
              ShownPosted, ShownToItsOwner, RefusedOnlyAfterRestart
<1>2. CASE Next
  BY <1>2, CheckNameKeeps, SignInKeeps, InsertUserKeeps, PostSolutionKeeps, GetMySolutionsKeeps,
     GetSolutionKeeps, RestartKeeps DEF Next
<1> QED
  BY <1>1, <1>2

----------------------------------------------------------------------------
LEMMA AccountsInvariant == Spec => []AccountsInv
  BY InitAccounts, NextKeepsAccounts, PTL DEF Spec

(* Accounts, solutions and tokens keep their types and refer to accounts that exist. *)
THEOREM AccountTypes == Spec => []TypeOK
<1>1. AccountsInv => TypeOK
  BY TypesImplyTypeOK DEF AccountsInv
<1> QED
  BY <1>1, AccountsInvariant, PTL

(* Sign-ups that race for a name, any number of them, leave one account of that name. *)
THEOREM NamesStayUnique == Spec => []OneAccountPerName
<1>1. AccountsInv => OneAccountPerName
  BY DEF AccountsInv
<1> QED
  BY <1>1, AccountsInvariant, PTL

(* Without a restart between sign-up and sign-in the right password is not refused. *)
THEOREM RefusedNeedsRestart == Spec => []RefusedOnlyAfterRestart
<1>1. AccountsInv => RefusedOnlyAfterRestart
  BY DEF AccountsInv
<1> QED
  BY <1>1, AccountsInvariant, PTL

(* No race, restart or old token shows anyone the result of another person. *)
THEOREM ResultsStayPrivate == Spec => []ShownToItsOwner
<1>1. AccountsInv => ShownToItsOwner
  BY DEF AccountsInv
<1> QED
  BY <1>1, AccountsInvariant, PTL
=============================================================================
