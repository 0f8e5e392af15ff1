--------------------------- MODULE ConnectionPool ---------------------------
(***************************************************************************)
(* The connections gameplay-service shares among its requests.  A request  *)
(* takes one (queryRunner.connect), runs its statements and gives it back  *)
(* (release).  TypeORM gives a connection back as it is: move and unfollow *)
(* start a transaction and never end it, so the next request on that       *)
(* connection ends it for them, by its own COMMIT or ROLLBACK, unless the  *)
(* connection is closed for idleness first.  Until then the rows written   *)
(* stay locked.  refresh keeps the connection when it refuses a token.     *)
(*                                                                         *)
(* A definition marked (slip: ...) is a mistake a change of the code could *)
(* make in the definition that follows; no action uses it.                 *)
(***************************************************************************)
EXTENDS Naturals, FiniteSets, Sequences

CONSTANTS
    Requests,     \* requests, each made once
    Connections,  \* the pool
    Nobody        \* holds the connections nobody has

ASSUME PoolAssumption == Nobody \notin Requests /\ IsFiniteSet(Connections)

VARIABLES
    request,    \* kind, stage, statement it is at and outcome of each request
    lent,       \* who has each connection
    open,       \* a transaction is open on a connection
    pending,    \* writes of that transaction
    committed   \* writes in the database

vars == <<request, lent, open, pending, committed>>

Begin     == [do |-> "begin", row |-> "none"]
Update(r) == [do |-> "write", row |-> r]
Find(r)   == [do |-> "find", row |-> r]
Commit    == [do |-> "commit", row |-> "none"]
Release   == [do |-> "release", row |-> "none"]

(***************************************************************************)
(* The statements of the requests; account and session are inserts.        *)
(***************************************************************************)
Move            == <<Begin, Update("item"), Release>>
Unfollow        == <<Begin, Update("following"), Release>>
Follow          == <<Begin, Update("following"), Commit, Release>>
BuyAnimal       == <<Begin, Update("user"), Update("item"), Commit, Release>>
VerifySignature == <<Find("account"), Begin, Update("account"), Commit,
                     Begin, Update("session"), Commit, Release>>
Refresh         == <<Find("session"), Begin, Update("session"), Commit, Release>>

Program == [move |-> Move, unfollow |-> Unfollow, follow |-> Follow, buyAnimal |-> BuyAnimal,
            verifySignature |-> VerifySignature, refresh |-> Refresh]
Kinds     == DOMAIN Program
Forgetful == {k \in Kinds : \A i \in DOMAIN Program[k] : Program[k][i] # Commit}

New == [kind |-> "none", stage |-> "new", at |-> 0, ok |-> TRUE]

Running(q)      == request[q].stage = "running"
Answered(q)     == request[q].stage = "answered"
ConnectionOf(q) == CHOOSE c \in Connections : lent[c] = q
Statement(q)    == Program[request[q].kind][request[q].at]
At(q, do)       == Running(q) /\ Statement(q).do = do
Row(q)          == Statement(q).row
Last(q)         == Len(Program[request[q].kind])   \* to release

(* Inserted rows are new; the others are locked until the transaction that *)
(* wrote them ends.                                                        *)
Lockers(q) ==
    {c \in Connections \ {ConnectionOf(q)} :
        Row(q) \in {"item", "following", "user"} /\ \E w \in pending[c] : w.row = Row(q)}
Blocked(q) == At(q, "write") /\ Lockers(q) # {}

----------------------------------------------------------------------------
Init ==
    /\ request = [q \in Requests |-> New]
    /\ lent = [c \in Connections |-> Nobody]
    /\ open = [c \in Connections |-> FALSE]
    /\ pending = [c \in Connections |-> {}]
    /\ committed = {}

Call(q) ==
    /\ request[q].stage = "new"
    /\ \E k \in Kinds :
        request' = [request EXCEPT ![q].kind = k, ![q].stage = "waiting"]
    /\ UNCHANGED <<lent, open, pending, committed>>

Connect(q) ==
    /\ request[q].stage = "waiting"
    /\ \E c \in Connections :
        /\ lent[c] = Nobody
        /\ lent' = [lent EXCEPT ![c] = q]
    /\ request' = [request EXCEPT ![q].stage = "running", ![q].at = 1]
    /\ UNCHANGED <<open, pending, committed>>

(* No connection comes back within CONNECTION_TIMEOUT_MS.                  *)
ConnectTimeout(q) ==
    /\ request[q].stage = "waiting"
    /\ \A c \in Connections : lent[c] # Nobody
    /\ request' = [request EXCEPT ![q].stage = "answered", ![q].ok = FALSE]
    /\ UNCHANGED <<lent, open, pending, committed>>

Continue(q) == request' = [request EXCEPT ![q].at = @ + 1]

(* START TRANSACTION inside a transaction goes on with it.                 *)
StartTransaction(q) ==
    /\ At(q, "begin")
    /\ open' = [open EXCEPT ![ConnectionOf(q)] = TRUE]
    /\ Continue(q)
    /\ UNCHANGED <<lent, pending, committed>>

WriteRow(q) ==
    /\ At(q, "write") /\ ~Blocked(q)
    /\ pending' = [pending EXCEPT ![ConnectionOf(q)] = @ \cup {[by |-> q, row |-> Row(q)]}]
    /\ Continue(q)
    /\ UNCHANGED <<lent, open, committed>>

(* COMMIT writes what an earlier request has left open, too.               *)
CommitTransaction(q) ==
    /\ At(q, "commit")
    /\ committed' = committed \cup pending[ConnectionOf(q)]
    /\ pending' = [pending EXCEPT ![ConnectionOf(q)] = {}]
    /\ open' = [open EXCEPT ![ConnectionOf(q)] = FALSE]
    /\ Continue(q)
    /\ UNCHANGED lent

(* The account is created when neither the database nor the transaction    *)
(* this connection was left in has it.                                     *)
FindAccount(q) ==
    LET visible == \E w \in committed \cup pending[ConnectionOf(q)] : w.row = "account" IN
    /\ At(q, "find") /\ Row(q) = "account"
    /\ request' = [request EXCEPT ![q].at = IF visible THEN 5 ELSE 2]
    /\ UNCHANGED <<lent, open, pending, committed>>

FindSession(q) ==
    /\ At(q, "find") /\ Row(q) = "session"
    /\ \E w \in committed \cup pending[ConnectionOf(q)] : w.row = "session"
    /\ Continue(q)
    /\ UNCHANGED <<lent, open, pending, committed>>

(* No such session, or it is expired: refresh fails before its try block   *)
(* and does not give the connection back.                                  *)
RefuseToken(q) ==
    /\ At(q, "find") /\ Row(q) = "session"
    /\ request' = [request EXCEPT ![q].stage = "answered", ![q].ok = FALSE]
    /\ UNCHANGED <<lent, open, pending, committed>>

(* (slip: a refusal keeps the connection)                                  *)
RefuseKeepingConnection(q) ==
    /\ Running(q) /\ request[q].kind \notin {"refresh", "verifySignature"}
    /\ request[q].at = 1
    /\ request' = [request EXCEPT ![q].stage = "answered", ![q].ok = FALSE]
    /\ UNCHANGED <<lent, open, pending, committed>>

(* A guard of the request fails before its transaction.                    *)
Refuse(q) ==
    /\ Running(q) /\ request[q].kind \notin {"refresh", "verifySignature"}
    /\ request[q].at = 1
    /\ request' = [request EXCEPT ![q].at = Last(q), ![q].ok = FALSE]
    /\ UNCHANGED <<lent, open, pending, committed>>

(* (slip: the error is answered without a rollback)                        *)
FailStatementOnly(q) ==
    /\ At(q, "write") \/ At(q, "commit")
    /\ request' = [request EXCEPT ![q].at = Last(q), ![q].ok = FALSE]
    /\ UNCHANGED <<lent, open, pending, committed>>

(* A statement of the transaction fails, in a deadlock for one, and all of *)
(* it is rolled back, what an earlier request has left open included.      *)
FailStatement(q) ==
    /\ At(q, "write") \/ At(q, "commit")
    /\ request' = [request EXCEPT ![q].at = Last(q), ![q].ok = FALSE]
    /\ pending' = [pending EXCEPT ![ConnectionOf(q)] = {}]
    /\ open' = [open EXCEPT ![ConnectionOf(q)] = FALSE]
    /\ UNCHANGED <<lent, committed>>

ReleaseConnection(q) ==
    /\ At(q, "release")
    /\ lent' = [lent EXCEPT ![ConnectionOf(q)] = Nobody]
    /\ request' = [request EXCEPT ![q].stage = "answered"]
    /\ UNCHANGED <<open, pending, committed>>

(* A connection that nobody takes for a while is closed; the server rolls  *)
(* its transaction back.                                                   *)
CloseIdle(c) ==
    /\ lent[c] = Nobody /\ open[c]
    /\ open' = [open EXCEPT ![c] = FALSE]
    /\ pending' = [pending EXCEPT ![c] = {}]
    /\ UNCHANGED <<request, lent, committed>>

----------------------------------------------------------------------------
RunStatement(q) ==
    \/ StartTransaction(q)
    \/ WriteRow(q)
    \/ CommitTransaction(q)
    \/ FindAccount(q)
    \/ FindSession(q)
    \/ RefuseToken(q)
    \/ ReleaseConnection(q)

Next ==
    \/ \E q \in Requests :
        \/ Call(q)
        \/ Connect(q)
        \/ ConnectTimeout(q)
        \/ RunStatement(q)
        \/ Refuse(q)
        \/ FailStatement(q)
    \/ \E c \in Connections : CloseIdle(c)

Spec == Init /\ [][Next]_vars

----------------------------------------------------------------------------
(* Each variable holds a value the code can give it; writes wait only in   *)
(* open transactions.                                                      *)
Writes == [by : Requests, row : {"item", "following", "user", "account", "session"}]
TypeOK ==
    /\ request \in [Requests -> [kind : Kinds \cup {"none"},
                                 stage : {"new", "waiting", "running", "answered"},
                                 at : 0 .. 8, ok : BOOLEAN]]
    /\ \A q \in Requests : request[q].stage # "new" => request[q].kind \in Kinds
    /\ \A q \in Requests : Running(q) => request[q].at \in DOMAIN Program[request[q].kind]
    /\ lent \in [Connections -> Requests \cup {Nobody}]
    /\ open \in [Connections -> BOOLEAN]
    /\ pending \in [Connections -> SUBSET Writes]
    /\ committed \subseteq Writes
    /\ \A c \in Connections : pending[c] # {} => open[c]

(* A request that answered an error has written nothing and nothing of it  *)
(* can be written any more, whoever uses its connection next (but for the  *)
(* account of a login whose session failed); one that answered success and *)
(* does not forget its transaction is in the database.                     *)
Waiting == UNION {pending[c] : c \in Connections}
WritesOf(q) == {[by |-> q, row |-> Program[request[q].kind][i].row] :
                   i \in {j \in DOMAIN Program[request[q].kind] :
                            Program[request[q].kind][j].do = "write"}}
AnswersTrue ==
    \A q \in Requests : Answered(q) =>
        /\ ~request[q].ok =>
              \A w \in committed \cup Waiting : w.by = q => w.row = "account"
        /\ request[q].ok /\ request[q].kind \notin Forgetful =>
              {w \in WritesOf(q) : w.row # "account"} \subseteq committed

(* The connections out of the pool are those of the requests at work and   *)
(* one for each token refused; a transaction nobody works on is one that a *)
(* forgetful request has left, and it alone holds writes.                  *)
PoolExact ==
    \A c \in Connections :
        /\ lent[c] # Nobody =>
              /\ \A d \in Connections \ {c} : lent[d] # lent[c]
              /\ \/ Running(lent[c])
                 \/ request[lent[c]].kind = "refresh" /\ ~request[lent[c]].ok
        /\ lent[c] = Nobody => \A w \in pending[c] : request[w.by].kind \in Forgetful
=============================================================================
