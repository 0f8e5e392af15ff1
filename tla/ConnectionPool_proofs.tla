----------------------- MODULE ConnectionPool_proofs -----------------------
(***************************************************************************)
(* Theorems about ConnectionPool, for every number of requests and every   *)
(* pool.                                                                   *)
(***************************************************************************)
EXTENDS ConnectionPool, TLAPS

(* A request at work has one connection of its own; one that has its       *)
(* answer keeps none but for a token refused.                              *)
Lending ==
    /\ \A q \in Requests : Running(q) => \E c \in Connections : lent[c] = q
    /\ \A c \in Connections : lent[c] # Nobody =>
          /\ \A d \in Connections \ {c} : lent[d] # lent[c]
          /\ \/ Running(lent[c])
             \/ Answered(lent[c]) /\ request[lent[c]].kind = "refresh" /\ ~request[lent[c]].ok

(* What fails goes to its release at once.                                 *)
Failing ==
    \A q \in Requests :
        /\ Running(q) /\ ~request[q].ok => request[q].at = Last(q)
        /\ request[q].stage \in {"new", "waiting"} => request[q].ok

(* A write that waits on a connection is one of the request at work there, *)
(* not yet failed and not yet past its commit, or was forgotten there.     *)
AtWork(w, c) ==
    LET r == request[w.by] IN
    /\ lent[c] = w.by /\ Running(w.by) /\ r.ok
    /\ r.kind \in Forgetful \/ r.at < Last(w.by)
    /\ \E i \in 1 .. r.at - 1 : Program[r.kind][i] = Update(w.row)
Forgotten(w) ==
    Answered(w.by) /\ request[w.by].ok /\ request[w.by].kind \in Forgetful
PendingKnown == \A c \in Connections : \A w \in pending[c] : AtWork(w, c) \/ Forgotten(w)

(* Accounts apart, nothing of a request is committed before its last       *)
(* commit, after which it cannot fail.                                     *)
CommittedKnown ==
    \A w \in committed :
        LET r == request[w.by] IN
        /\ Running(w.by) \/ Answered(w.by)
        /\ w.row # "account" => r.ok /\ (Answered(w.by) \/ r.at = Last(w.by))

(* What a request has written waits on its connection until it is          *)
(* committed.                                                              *)
WrittenKept ==
    \A q \in Requests :
        LET r == request[q] IN
        r.ok /\ r.kind \in Kinds \ Forgetful =>
        /\ Running(q) => \A i \in 1 .. r.at - 1 : \A row \in {"item", "following", "user", "session"} :
              Program[r.kind][i] = Update(row) =>
                \/ [by |-> q, row |-> row] \in committed
                \/ /\ r.at < Last(q)
                   /\ \E c \in Connections : lent[c] = q /\ [by |-> q, row |-> row] \in pending[c]
        /\ Answered(q) => {w \in WritesOf(q) : w.row # "account"} \subseteq committed

(* A request writes only in a transaction.                                 *)
Opened == \A c \in Connections : lent[c] # Nobody /\ At(lent[c], "write") => open[c]

PoolInv ==
    /\ TypeOK
    /\ Lending
    /\ Opened
    /\ Failing
    /\ PendingKnown
    /\ CommittedKnown
    /\ WrittenKept

----------------------------------------------------------------------------
(* The statements of the requests.                                         *)
Rows == {"item", "following", "user", "account", "session"}

LEMMA KindsAre ==
    Kinds = {"move", "unfollow", "follow", "buyAnimal", "verifySignature", "refresh"}
BY DEF Kinds, Program

LEMMA ProgramShape ==
    ASSUME NEW k \in Kinds
    PROVE  /\ Len(Program[k]) \in 3 .. 8
           /\ DOMAIN Program[k] = 1 .. Len(Program[k])
           /\ \A i \in 1 .. Len(Program[k]) :
                /\ Program[k][i].do \in {"find", "begin", "write", "commit", "release"}
                /\ Program[k][i].do = "release" <=> i = Len(Program[k])
                /\ Program[k][i].do = "write" =>
                     Program[k][i].row \in Rows /\ Program[k][i] = Update(Program[k][i].row)
                /\ Program[k][i].do = "begin" => i + 1 < Len(Program[k])
                /\ Program[k][i].do = "write" /\ k \notin {"move", "unfollow"} =>
                     i + 1 < Len(Program[k])
                /\ Program[k][i].do = "find" => i = 1
                /\ Program[k][i].do = "find" /\ Program[k][i].row = "account" =>
                     k = "verifySignature"
                /\ Program[k][i].do = "find" /\ Program[k][i].row = "session" => k = "refresh"
                /\ Program[k][i].do = "commit" =>
                     /\ k \notin {"move", "unfollow"}
                     /\ i + 1 = Len(Program[k]) \/ (k = "verifySignature" /\ i = 4)
           /\ Program[k][1].do # "write"
           /\ k \in {"move", "unfollow"} => \A i \in 1 .. Len(Program[k]) : Program[k][i] # Commit
<1>1. CASE k = "move"
  BY <1>1 DEF Program, Move, Begin, Update, Find, Commit, Release, Rows
<1>2. CASE k = "unfollow"
  BY <1>2 DEF Program, Unfollow, Begin, Update, Find, Commit, Release, Rows
<1>3. CASE k = "follow"
  BY <1>3 DEF Program, Follow, Begin, Update, Find, Commit, Release, Rows
<1>4. CASE k = "buyAnimal"
  BY <1>4 DEF Program, BuyAnimal, Begin, Update, Find, Commit, Release, Rows
<1>5. CASE k = "verifySignature"
  BY <1>5 DEF Program, VerifySignature, Begin, Update, Find, Commit, Release, Rows
<1>6. CASE k = "refresh"
  BY <1>6 DEF Program, Refresh, Begin, Update, Find, Commit, Release, Rows
<1> QED BY <1>1, <1>2, <1>3, <1>4, <1>5, <1>6, KindsAre

(* Only a login writes before its last transaction, and only the account.  *)
LEMMA LoginShape ==
    /\ Len(Program["verifySignature"]) = 8
    /\ \A i \in 1 .. 4, row \in Rows \ {"account"} :
          Program["verifySignature"][i] # Update(row)
BY DEF Program, VerifySignature, Begin, Update, Find, Commit, Rows

LEMMA WritesAfterBegin ==
    ASSUME NEW k \in Kinds, NEW i \in 1 .. Len(Program[k]) - 1, Program[k][i + 1].do = "write"
    PROVE  Program[k][i].do \in {"begin", "write"}
<1>1. CASE k = "move"
  BY <1>1 DEF Program, Move, Begin, Update, Find, Commit, Release
<1>2. CASE k = "unfollow"
  BY <1>2 DEF Program, Unfollow, Begin, Update, Find, Commit, Release
<1>3. CASE k = "follow"
  BY <1>3 DEF Program, Follow, Begin, Update, Find, Commit, Release
<1>4. CASE k = "buyAnimal"
  BY <1>4 DEF Program, BuyAnimal, Begin, Update, Find, Commit, Release
<1>5. CASE k = "verifySignature"
  BY <1>5 DEF Program, VerifySignature, Begin, Update, Find, Commit, Release
<1>6. CASE k = "refresh"
  BY <1>6 DEF Program, Refresh, Begin, Update, Find, Commit, Release
<1> QED BY <1>1, <1>2, <1>3, <1>4, <1>5, <1>6, KindsAre

LEMMA ForgetfulAre == Forgetful = {"move", "unfollow"}
<1>1. \A k \in {"move", "unfollow"} : k \in Forgetful
  BY ProgramShape, KindsAre DEF Forgetful
<1>2. \A k \in Kinds \ {"move", "unfollow"} : k \notin Forgetful
  <2>1. \E i \in DOMAIN Program["follow"] : Program["follow"][i] = Commit
    <3>1. 3 \in DOMAIN Program["follow"] /\ Program["follow"][3] = Commit
      BY DEF Program, Follow, Begin, Update, Commit, Release
    <3> QED BY <3>1
  <2>2. \E i \in DOMAIN Program["buyAnimal"] : Program["buyAnimal"][i] = Commit
    <3>1. 4 \in DOMAIN Program["buyAnimal"] /\ Program["buyAnimal"][4] = Commit
      BY DEF Program, BuyAnimal, Begin, Update, Commit, Release
    <3> QED BY <3>1
  <2>3. \E i \in DOMAIN Program["verifySignature"] : Program["verifySignature"][i] = Commit
    <3>1. 4 \in DOMAIN Program["verifySignature"] /\ Program["verifySignature"][4] = Commit
      BY DEF Program, VerifySignature, Begin, Update, Find, Commit, Release
    <3> QED BY <3>1
  <2>4. \E i \in DOMAIN Program["refresh"] : Program["refresh"][i] = Commit
    <3>1. 4 \in DOMAIN Program["refresh"] /\ Program["refresh"][4] = Commit
      BY DEF Program, Refresh, Begin, Update, Find, Commit, Release
    <3> QED BY <3>1
  <2> QED BY <2>1, <2>2, <2>3, <2>4, KindsAre DEF Forgetful
<1> QED BY <1>1, <1>2, KindsAre DEF Forgetful

----------------------------------------------------------------------------
RequestRow == [kind : Kinds \cup {"none"}, stage : {"new", "waiting", "running", "answered"},
               at : 0 .. 8, ok : BOOLEAN]

(* Where a request at work stands.                                         *)
LEMMA Here ==
    ASSUME PoolInv, NEW q \in Requests, Running(q)
    PROVE  /\ ConnectionOf(q) \in Connections /\ lent[ConnectionOf(q)] = q
           /\ request[q].kind \in Kinds /\ request[q] \in RequestRow
           /\ request[q].at \in 1 .. Last(q) /\ Last(q) \in 3 .. 8
<1>1. \E c \in Connections : lent[c] = q
  BY DEF PoolInv, Lending
<1>2. request[q] \in RequestRow
  BY DEF PoolInv, TypeOK, RequestRow
<1>3. request[q].kind \in Kinds /\ request[q].at \in DOMAIN Program[request[q].kind]
  BY DEF PoolInv, TypeOK, Running
<1> QED BY <1>1, <1>2, <1>3, ProgramShape DEF ConnectionOf, Last

LEMMA Alone ==
    ASSUME PoolInv, NEW c \in Connections, NEW d \in Connections, lent[c] # Nobody,
           lent[d] = lent[c]
    PROVE  d = c
BY DEF PoolInv, Lending

(* One of its writes, not of an account, is committed or waits there.      *)
Safe(q, row) ==
    \/ [by |-> q, row |-> row] \in committed
    \/ /\ request[q].at < Last(q)
       /\ \E c \in Connections : lent[c] = q /\ [by |-> q, row |-> row] \in pending[c]

LEMMA WrittenSoFar ==
    ASSUME PoolInv, NEW q \in Requests, Running(q),
           request[q].ok, request[q].kind \in Kinds \ Forgetful,
           NEW i \in 1 .. request[q].at - 1, NEW row \in {"item", "following", "user", "session"},
           Program[request[q].kind][i] = Update(row)
    PROVE  Safe(q, row)
<1>1. WrittenKept
  BY DEF PoolInv
<1>2. request[q].at \in Nat
  BY Here
<1>3. \A j \in 1 .. request[q].at - 1 : \A s \in {"item", "following", "user", "session"} :
          Program[request[q].kind][j] = Update(s) => Safe(q, s)
  BY <1>1 DEF WrittenKept, Safe
<1> QED BY <1>2, <1>3

(* A request at work on a connection becomes r, leaving waits there: what  *)
(* that has to do with the rest of the pool.                               *)
Becomes(q, r) ==
    /\ r \in RequestRow /\ r.kind = request[q].kind
    /\ \/ r.stage = "running" /\ r.at \in 1 .. Last(q) /\ (r.ok \/ r.at = Last(q))
       \/ r.stage = "answered" /\ r.kind = "refresh" /\ ~r.ok
    /\ request' = [request EXCEPT ![q] = r]

Leaves(c, waits) ==
    /\ lent' = lent
    /\ waits \in SUBSET Writes
    /\ pending' = [pending EXCEPT ![c] = waits]
    /\ open' \in [Connections -> BOOLEAN]
    /\ waits # {} => open'[c]
    /\ \A d \in Connections \ {c} : open'[d] = open[d]
    /\ committed \subseteq committed' /\ committed' \subseteq Writes

Opens(r, c) == r.stage = "running" /\ Program[r.kind][r.at].do = "write" => open'[c]

WaitsFit(q, r, waits) ==
    \A w \in waits :
        \/ /\ w.by = q /\ r.stage = "running" /\ r.ok
           /\ r.kind \in Forgetful \/ r.at < Last(q)
           /\ \E i \in 1 .. r.at - 1 : Program[r.kind][i] = Update(w.row)
        \/ w.by # q /\ Forgotten(w)

CommittedFits(q, r) ==
    \A w \in committed' :
        /\ w.by # q => w \in committed \/ Forgotten(w)
        /\ w.by = q /\ w.row # "account" => r.ok /\ r.stage = "running" /\ r.at = Last(q)

WrittenFits(q, r, waits) ==
    r.ok /\ r.kind \notin Forgetful =>
        \A i \in 1 .. r.at - 1 : \A row \in {"item", "following", "user", "session"} :
            Program[r.kind][i] = Update(row) =>
                \/ [by |-> q, row |-> row] \in committed'
                \/ r.at < Last(q) /\ [by |-> q, row |-> row] \in waits

LEMMA WorkStep ==
    ASSUME PoolInv, NEW q \in Requests, Running(q), NEW c \in Connections, lent[c] = q,
           NEW r, Becomes(q, r), NEW waits, Leaves(c, waits),
           Opens(r, c), WaitsFit(q, r, waits), CommittedFits(q, r), WrittenFits(q, r, waits)
    PROVE  PoolInv'
<1> USE DEF Becomes, Leaves, Opens, WaitsFit, CommittedFits, WrittenFits
<1>1. /\ request'[q] = r
      /\ \A p \in Requests : p # q => request'[p] = request[p]
  BY DEF PoolInv, TypeOK
<1>2. /\ pending'[c] = waits
      /\ \A d \in Connections : d # c => pending'[d] = pending[d]
  BY DEF PoolInv, TypeOK
<1>3. q # Nobody /\ request[q].kind \in Kinds
  BY PoolAssumption, Here
<1>4. \A w \in committed' : w.by \in Requests
  BY DEF Writes
<1>5. TypeOK'
  <2>1. request' \in [Requests -> RequestRow]
    BY DEF PoolInv, TypeOK, RequestRow
  <2>2. \A p \in Requests : request'[p].stage # "new" => request'[p].kind \in Kinds
    BY <1>1, <1>3 DEF PoolInv, TypeOK
  <2>3. \A p \in Requests :
            Running(p)' => request'[p].at \in DOMAIN Program[request'[p].kind]
    BY <1>1, <1>3, ProgramShape DEF PoolInv, TypeOK, Running, Last
  <2>4. pending' \in [Connections -> SUBSET Writes]
    BY DEF PoolInv, TypeOK
  <2>5. \A d \in Connections : pending'[d] # {} => open'[d]
    BY <1>2 DEF PoolInv, TypeOK
  <2>6. lent' \in [Connections -> Requests \cup {Nobody}]
    BY DEF PoolInv, TypeOK
  <2> QED BY <2>1, <2>2, <2>3, <2>4, <2>5, <2>6 DEF TypeOK, RequestRow
<1>6. Lending'
  <2>1. \A p \in Requests : Running(p)' => \E d \in Connections : lent'[d] = p
    BY <1>1 DEF PoolInv, Lending, Running
  <2>2. ASSUME NEW d \in Connections, lent[d] # Nobody
        PROVE  /\ \A e \in Connections \ {d} : lent[e] # lent[d]
               /\ \/ request'[lent[d]].stage = "running"
                  \/ /\ request'[lent[d]].stage = "answered"
                     /\ request'[lent[d]].kind = "refresh" /\ ~request'[lent[d]].ok
    <3>1. lent[d] \in Requests
      BY <2>2 DEF PoolInv, TypeOK
    <3>2. /\ \A e \in Connections \ {d} : lent[e] # lent[d]
          /\ \/ request[lent[d]].stage = "running"
             \/ /\ request[lent[d]].stage = "answered"
                /\ request[lent[d]].kind = "refresh" /\ ~request[lent[d]].ok
      BY <2>2 DEF PoolInv, Lending, Running, Answered
    <3>3. CASE lent[d] = q
      BY <1>1, <3>2, <3>3
    <3>4. CASE lent[d] # q
      BY <1>1, <3>1, <3>2, <3>4
    <3> QED BY <3>3, <3>4
  <2> QED BY <2>1, <2>2 DEF Lending, Running, Answered
<1>7. Failing'
  BY <1>1 DEF PoolInv, Failing, Running, Last
<1>8. PendingKnown'
  <2> SUFFICES ASSUME NEW d \in Connections, NEW w \in pending'[d]
               PROVE  AtWork(w, d)' \/ Forgotten(w)'
    BY DEF PendingKnown
  <2>1. w.by \in Requests
    BY <1>5 DEF TypeOK, Writes
  <2>2. CASE d = c
    <3>1. w \in waits
      BY <1>2, <2>2
    <3>2. CASE w.by = q
      BY <1>1, <2>2, <3>1, <3>2 DEF AtWork, Running, Last
    <3>3. CASE w.by # q
      <4>1. Forgotten(w) /\ request'[w.by] = request[w.by]
        BY <1>1, <2>1, <3>1, <3>3
      <4> QED BY <4>1 DEF Forgotten, Running, Answered, Last
    <3> QED BY <3>2, <3>3
  <2>3. CASE d # c
    <3>1. AtWork(w, d) \/ Forgotten(w)
      BY <1>2, <2>3 DEF PoolInv, PendingKnown
    <3>2. w.by # q
      BY <1>3, <2>3, <3>1, Alone DEF AtWork, Forgotten, Running, Answered
    <3>3. request'[w.by] = request[w.by]
      BY <1>1, <2>1, <3>2
    <3> QED BY <3>1, <3>3 DEF AtWork, Forgotten, Running, Answered, Last
  <2> QED BY <2>2, <2>3
<1>9. CommittedKnown'
  <2> SUFFICES ASSUME NEW w \in committed'
               PROVE  /\ Running(w.by)' \/ Answered(w.by)'
                      /\ w.row # "account" =>
                            request'[w.by].ok /\ (Answered(w.by)' \/ request'[w.by].at = Last(w.by)')
    BY DEF CommittedKnown
  <2>1. CASE w.by = q
    <3>1. request'[w.by] = r /\ Len(Program[r.kind]) = Last(q)
      BY <1>1, <2>1 DEF Last
    <3>2. r.stage \in {"running", "answered"}
      OBVIOUS
    <3>3. w.row # "account" => r.ok /\ r.stage = "running" /\ r.at = Last(q)
      BY <2>1
    <3> QED BY <3>1, <3>2, <3>3 DEF Running, Answered, Last
  <2>2. CASE w.by # q
    <3>1. request'[w.by] = request[w.by]
      BY <1>1, <1>4, <2>2
    <3>2. CASE w \in committed
      BY <3>1, <3>2 DEF PoolInv, CommittedKnown, Running, Answered, Last
    <3>3. CASE Forgotten(w)
      BY <3>1, <3>3 DEF Forgotten, Running, Answered, Last
    <3>4. w \in committed \/ Forgotten(w)
      BY <2>2
    <3> QED BY <3>2, <3>3, <3>4
  <2> QED BY <2>1, <2>2
<1>10. WrittenKept'
  <2>0. lent' = lent /\ committed \subseteq committed'
    OBVIOUS
  <2> HIDE DEF Becomes, Leaves, Opens, WaitsFit, CommittedFits, WrittenFits
  <2> SUFFICES ASSUME NEW p \in Requests,
                      request'[p].ok, request'[p].kind \in Kinds \ Forgetful
               PROVE  /\ Running(p)' => \A i \in 1 .. request'[p].at - 1 :
                           \A row \in {"item", "following", "user", "session"} :
                             Program[request'[p].kind][i] = Update(row) =>
                              \/ [by |-> p, row |-> row] \in committed'
                              \/ /\ request'[p].at < Last(p)'
                                 /\ \E d \in Connections :
                                      lent'[d] = p /\ [by |-> p, row |-> row] \in pending'[d]
                      /\ Answered(p)' => {w \in WritesOf(p)' : w.row # "account"} \subseteq committed'
    BY DEF WrittenKept
  <2>1. CASE p = q
    <3>1. request'[p] = r /\ Last(p)' = Last(q)
      BY <1>1, <2>1 DEF Last, Becomes
    <3>2. r.ok /\ r.kind \notin Forgetful /\ r.stage = "running"
      BY <3>1 DEF Becomes
    <3>3. ASSUME NEW i \in 1 .. r.at - 1,
                 NEW row \in {"item", "following", "user", "session"},
                 Program[r.kind][i] = Update(row)
          PROVE  \/ [by |-> p, row |-> row] \in committed'
                 \/ /\ r.at < Last(q)
                    /\ \E d \in Connections :
                         lent'[d] = p /\ [by |-> p, row |-> row] \in pending'[d]
      BY <1>2, <2>0, <2>1, <3>2, <3>3 DEF WrittenFits
    <3>4. ~Answered(p)'
      BY <3>1, <3>2, Zenon DEF Answered
    <3> QED BY <3>1, <3>3, <3>4, Zenon
  <2>2. CASE p # q
    <3>1. request'[p] = request[p]
      BY <1>1, <2>2
    <3>2. \A d \in Connections : lent[d] = p => pending'[d] = pending[d]
      BY <1>2, <2>2
    <3>3. WritesOf(p)' = WritesOf(p)
      BY <3>1, Zenon DEF WritesOf
    <3>4. Answered(p) => {w \in WritesOf(p) : w.row # "account"} \subseteq committed
      BY <3>1 DEF PoolInv, WrittenKept
    <3>5. Answered(p)' => {w \in WritesOf(p)' : w.row # "account"} \subseteq committed'
      BY <2>0, <3>1, <3>3, <3>4 DEF Answered
    <3>6. ASSUME Running(p), NEW i \in 1 .. request[p].at - 1,
                 NEW row \in {"item", "following", "user", "session"},
                 Program[request[p].kind][i] = Update(row)
          PROVE  \/ [by |-> p, row |-> row] \in committed'
                 \/ /\ request[p].at < Last(p)
                    /\ \E d \in Connections :
                         lent'[d] = p /\ [by |-> p, row |-> row] \in pending'[d]
      <4>0. /\ request[p].ok /\ request[p].kind \in Kinds \ Forgetful
            /\ request[p].at \in Nat
        BY <3>1, <3>6, Here
      <4>1. Safe(p, row)
        BY <3>6, <4>0, WrittenSoFar
      <4> QED BY <2>0, <3>2, <4>1 DEF Safe
    <3>7. (Running(p)' <=> Running(p)) /\ Last(p)' = Last(p)
      BY <3>1 DEF Running, Last
    <3> QED BY <3>1, <3>5, <3>6, <3>7, Zenon
  <2> QED BY <2>1, <2>2
<1>11. ASSUME NEW d \in Connections, lent[d] # Nobody, request'[lent[d]].stage = "running",
              Program[request'[lent[d]].kind][request'[lent[d]].at].do = "write"
       PROVE  open'[d]
  <2>1. lent[d] \in Requests
    BY <1>11 DEF PoolInv, TypeOK
  <2>2. CASE d = c
    BY <1>1, <1>11, <2>2
  <2>3. CASE d # c
    <3>1. lent[d] # q
      BY <1>3, <2>3, Alone
    <3>2. request'[lent[d]] = request[lent[d]]
      BY <1>1, <2>1, <3>1
    <3>3. open[d]
      BY <1>11, <3>2 DEF PoolInv, Opened, At, Running, Statement
    <3> QED BY <2>3, <3>3
  <2> QED BY <2>2, <2>3
<1>12. Opened'
  BY <1>11 DEF Opened, At, Running, Statement
<1> QED BY <1>5, <1>6, <1>7, <1>8, <1>9, <1>10, <1>12 DEF PoolInv

----------------------------------------------------------------------------
(* What waits on the connection of a request at work, and what of the      *)
(* request is committed.                                                   *)
LEMMA PendingHere ==
    ASSUME PoolInv, NEW q \in Requests, Running(q), NEW c \in Connections, lent[c] = q,
           NEW w \in pending[c]
    PROVE  /\ w \in Writes
           /\ \/ /\ w.by = q /\ request[q].ok
                 /\ request[q].kind \in Forgetful \/ request[q].at < Last(q)
                 /\ \E i \in 1 .. request[q].at - 1 : Program[request[q].kind][i] = Update(w.row)
              \/ w.by # q /\ Forgotten(w)
<1>1. w \in Writes
  BY DEF PoolInv, TypeOK
<1>2. AtWork(w, c) \/ Forgotten(w)
  BY DEF PoolInv, PendingKnown
<1> QED BY <1>1, <1>2 DEF AtWork, Forgotten, Running, Answered

LEMMA CommittedHere ==
    ASSUME PoolInv, NEW q \in Requests, Running(q), NEW w \in committed
    PROVE  /\ w \in Writes
           /\ w.by = q /\ w.row # "account" => request[q].ok /\ request[q].at = Last(q)
BY DEF PoolInv, TypeOK, CommittedKnown, Running, Answered

LEMMA NotFailed ==
    ASSUME PoolInv, NEW q \in Requests, Running(q), request[q].at # Last(q)
    PROVE  request[q].ok
BY DEF PoolInv, Failing

(* The statement a request is at.                                          *)
LEMMA StatementHere ==
    ASSUME PoolInv, NEW q \in Requests, Running(q)
    PROVE  /\ Statement(q).do \in {"find", "begin", "write", "commit", "release"}
           /\ Statement(q).do = "release" <=> request[q].at = Last(q)
           /\ Statement(q).do = "write" => Row(q) \in Rows /\ Statement(q) = Update(Row(q))
           /\ Statement(q).do = "begin" => request[q].at + 1 < Last(q)
           /\ Statement(q).do = "write" /\ request[q].kind \notin Forgetful =>
                 request[q].at + 1 < Last(q)
           /\ Statement(q).do = "find" => request[q].at = 1
           /\ Statement(q).do = "find" /\ Row(q) = "account" =>
                 request[q].kind = "verifySignature"
           /\ Statement(q).do = "find" /\ Row(q) = "session" => request[q].kind = "refresh"
           /\ Statement(q).do = "commit" =>
                 /\ request[q].kind \notin Forgetful
                 /\ \/ request[q].at + 1 = Last(q)
                    \/ request[q].kind = "verifySignature" /\ request[q].at = 4
<1> DEFINE k == request[q].kind
           i == request[q].at
<1>1. k \in Kinds /\ i \in 1 .. Len(Program[k]) /\ Last(q) = Len(Program[k])
  BY Here DEF Last
<1>2. Statement(q) = Program[k][i] /\ Row(q) = Program[k][i].row
  BY DEF Statement, Row
<1> DEFINE s == Program[k][i]
<1> HIDE DEF k, i, s
<1>3. /\ s.do \in {"find", "begin", "write", "commit", "release"}
      /\ s.do = "release" <=> i = Len(Program[k])
      /\ s.do = "write" => s.row \in Rows /\ s = Update(s.row)
      /\ s.do = "begin" => i + 1 < Len(Program[k])
      /\ s.do = "write" /\ k \notin {"move", "unfollow"} => i + 1 < Len(Program[k])
  BY <1>1, ProgramShape DEF s
<1>4. /\ s.do = "find" => i = 1
      /\ s.do = "find" /\ s.row = "account" => k = "verifySignature"
      /\ s.do = "find" /\ s.row = "session" => k = "refresh"
      /\ s.do = "commit" =>
            /\ k \notin {"move", "unfollow"}
            /\ i + 1 = Len(Program[k]) \/ (k = "verifySignature" /\ i = 4)
  BY <1>1, ProgramShape DEF s
<1>5. Statement(q) = s /\ Row(q) = s.row
  BY <1>2 DEF s
<1>6. request[q].kind = k /\ request[q].at = i
  BY DEF k, i
<1> QED BY <1>1, <1>3, <1>4, <1>5, <1>6, ForgetfulAre

(* A request that goes on with its connection as it is.                    *)
LEMMA GoesOn ==
    ASSUME PoolInv, NEW q \in Requests, Running(q), NEW at \in 1 .. Last(q),
           request[q].at < Last(q), at > request[q].at,
           request[q].kind \in Forgetful \/ at < Last(q),
           request' = [request EXCEPT ![q].at = at], UNCHANGED <<lent, pending, committed>>,
           \/ open' = open /\ Program[request[q].kind][at].do # "write"
           \/ open' = [open EXCEPT ![ConnectionOf(q)] = TRUE],
           \A i \in request[q].at .. at - 1, s \in Rows \ {"account"} :
               Program[request[q].kind][i] # Update(s)
    PROVE  PoolInv'
<1> DEFINE c == ConnectionOf(q)
           r == [request[q] EXCEPT !.at = at]
<1>1. /\ c \in Connections /\ lent[c] = q /\ request[q] \in RequestRow
      /\ request[q].at \in Nat /\ Last(q) \in 3 .. 8
  BY Here
<1>2. /\ r \in RequestRow /\ r.kind = request[q].kind /\ r.stage = "running"
      /\ r.at = at /\ r.ok = request[q].ok
  BY <1>1 DEF RequestRow, Running
<1>3. request' = [request EXCEPT ![q] = r] /\ request[q].ok
  BY <1>1, NotFailed
<1>4. Becomes(q, r)
  BY <1>2, <1>3 DEF Becomes
<1>5. Leaves(c, pending[c])
  BY <1>1 DEF PoolInv, TypeOK, Leaves
<1>o. Opens(r, c)
  BY <1>1, <1>2 DEF PoolInv, TypeOK, Opens
<1> HIDE DEF c, r
<1>6. WaitsFit(q, r, pending[c])
  <2> SUFFICES ASSUME NEW w \in pending[c]
               PROVE  \/ /\ w.by = q /\ r.stage = "running" /\ r.ok
                         /\ r.kind \in Forgetful \/ r.at < Last(q)
                         /\ \E i \in 1 .. r.at - 1 : Program[r.kind][i] = Update(w.row)
                      \/ w.by # q /\ Forgotten(w)
    BY DEF WaitsFit
  <2>1. CASE w.by = q
    <3>1. PICK i \in 1 .. request[q].at - 1 : Program[request[q].kind][i] = Update(w.row)
      BY <1>1, <2>1, PendingHere
    <3>2. i \in 1 .. at - 1
      BY <1>1, <1>2
    <3> QED BY <1>2, <1>3, <2>1, <3>1, <3>2
  <2> QED BY <1>1, <2>1, PendingHere
<1>7. CommittedFits(q, r)
  BY <1>1, CommittedHere DEF CommittedFits
<1>8. WrittenFits(q, r, pending[c])
  <2> SUFFICES ASSUME r.ok, r.kind \notin Forgetful, NEW i \in 1 .. r.at - 1,
                      NEW s \in {"item", "following", "user", "session"},
                      Program[r.kind][i] = Update(s)
               PROVE  \/ [by |-> q, row |-> s] \in committed
                      \/ r.at < Last(q) /\ [by |-> q, row |-> s] \in pending[c]
    BY DEF WrittenFits
  <2>1. i \in 1 .. request[q].at - 1
    BY <1>1, <1>2 DEF Rows
  <2>2. /\ request[q].kind \in Kinds \ Forgetful /\ request[q].ok
        /\ Program[request[q].kind][i] = Update(s)
    BY <1>2, <1>3, Here
  <2>3. Safe(q, s)
    BY <2>1, <2>2, WrittenSoFar
  <2>4. \A d \in Connections : lent[d] = q => d = c
    <3>1. q # Nobody
      BY PoolAssumption
    <3> QED BY <1>1, <3>1, Alone
  <2> QED BY <1>2, <2>3, <2>4 DEF Safe
<1> QED BY <1>1, <1>o, <1>4, <1>5, <1>6, <1>7, <1>8, WorkStep

----------------------------------------------------------------------------
(* The statements of a request at work.                                    *)
LEMMA StartKeeps ==
    ASSUME PoolInv, NEW q \in Requests, StartTransaction(q)
    PROVE  PoolInv'
<1> DEFINE at == request[q].at + 1
<1>1. Running(q) /\ Statement(q).do = "begin"
  BY DEF StartTransaction, At
<1>2. at \in 1 .. Last(q) /\ request[q].at < Last(q) /\ at > request[q].at /\ at < Last(q)
  BY <1>1, Here, StatementHere
<1>3. request' = [request EXCEPT ![q].at = at]
  BY DEF StartTransaction, Continue
<1>4. \A i \in request[q].at .. at - 1, s \in Rows \ {"account"} :
          Program[request[q].kind][i] # Update(s)
  <2>1. \A i \in request[q].at .. at - 1 : i = request[q].at
    BY <1>1, Here
  <2>2. Program[request[q].kind][request[q].at].do = "begin"
    BY <1>1 DEF Statement
  <2> QED BY <2>1, <2>2 DEF Update
<1> HIDE DEF at
<1> QED BY <1>1, <1>2, <1>3, <1>4, GoesOn DEF StartTransaction

LEMMA NoWriteAfterFind ==
    /\ Program["refresh"][2] = Begin
    /\ Program["verifySignature"][2] = Begin
    /\ Program["verifySignature"][5] = Begin
    /\ Begin.do # "write"
BY DEF Program, Refresh, VerifySignature, Begin

LEMMA FindKeeps ==
    ASSUME PoolInv, NEW q \in Requests, FindAccount(q) \/ FindSession(q)
    PROVE  PoolInv'
<1>1. Running(q) /\ Statement(q).do = "find" /\ request[q].at = 1
  BY StatementHere DEF FindAccount, FindSession, At
<1>2. UNCHANGED <<lent, open, pending, committed>>
  BY DEF FindAccount, FindSession
<1>3. Last(q) \in 3 .. 8
  BY <1>1, Here
<1>4. CASE FindSession(q)
  <2>1. request' = [request EXCEPT ![q].at = 2]
    BY <1>1, <1>4 DEF FindSession, Continue
  <2>2. \A i \in request[q].at .. 2 - 1, s \in Rows \ {"account"} : Program[request[q].kind][i] # Update(s)
    <3>1. Program[request[q].kind][1].do = "find"
      BY <1>1 DEF Statement
    <3> QED BY <1>1, <3>1 DEF Update
  <2>3. 2 \in 1 .. Last(q) /\ request[q].at < Last(q) /\ 2 > request[q].at /\ 2 < Last(q)
    BY <1>1, <1>3
  <2>4. Program[request[q].kind][2].do # "write"
    BY <1>1, <1>4, StatementHere, NoWriteAfterFind DEF FindSession
  <2> QED BY <1>1, <1>2, <2>1, <2>2, <2>3, <2>4, GoesOn
<1>5. CASE FindAccount(q)
  <2>1. request[q].kind = "verifySignature" /\ Last(q) = 8
    BY <1>1, <1>5, StatementHere, LoginShape DEF FindAccount, Last
  <2>2. PICK at \in {2, 5} : request' = [request EXCEPT ![q].at = at]
    BY <1>5 DEF FindAccount
  <2>3. /\ at \in 1 .. Last(q) /\ request[q].at < Last(q) /\ at > request[q].at
        /\ at < Last(q)
    BY <1>1, <2>1
  <2>4. \A i \in request[q].at .. at - 1, s \in Rows \ {"account"} : Program[request[q].kind][i] # Update(s)
    <3>1. \A i \in request[q].at .. at - 1 : i \in 1 .. 4
      BY <1>1
    <3> QED BY <2>1, <3>1, LoginShape
  <2>5. Program[request[q].kind][at].do # "write"
    BY <2>1, <2>2, NoWriteAfterFind
  <2> QED BY <1>1, <1>2, <2>2, <2>3, <2>4, <2>5, GoesOn
<1> QED BY <1>4, <1>5

(* The last statement gives the connection back.                           *)
LEMMA AtRelease ==
    ASSUME PoolInv, NEW q \in Requests, Running(q)
    PROVE  Program[request[q].kind][Last(q)].do = "release"
<1>1. /\ request[q].kind \in Kinds /\ Last(q) = Len(Program[request[q].kind])
      /\ Last(q) \in 1 .. Last(q)
  BY Here DEF Last
<1> QED BY <1>1, ProgramShape

(* A request refused before its first statement has written nothing.       *)
LEMMA RefusedBefore ==
    ASSUME PoolInv, NEW q \in Requests, Running(q), request[q].at = 1,
           NEW r, Becomes(q, r), ~r.ok, UNCHANGED <<lent, open, pending, committed>>
    PROVE  PoolInv'
<1> DEFINE c == ConnectionOf(q)
<1>1. c \in Connections /\ lent[c] = q /\ Last(q) \in 3 .. 8
  BY Here
<1>2. Leaves(c, pending[c])
  BY <1>1 DEF PoolInv, TypeOK, Leaves
<1> HIDE DEF c
<1>3. WaitsFit(q, r, pending[c])
  <2>1. ASSUME NEW w \in pending[c] PROVE w.by # q /\ Forgotten(w)
    <3>1. \A i \in 1 .. request[q].at - 1 : FALSE
      OBVIOUS
    <3> QED BY <1>1, <3>1, PendingHere
  <2> QED BY <2>1 DEF WaitsFit
<1>4. CommittedFits(q, r)
  BY <1>1, CommittedHere DEF CommittedFits
<1>5. WrittenFits(q, r, pending[c])
  BY DEF WrittenFits
<1>6. Opens(r, c)
  BY AtRelease DEF Opens, Becomes
<1> QED BY <1>1, <1>2, <1>3, <1>4, <1>5, <1>6, WorkStep

LEMMA FailedRow ==
    ASSUME PoolInv, NEW q \in Requests, Running(q), NEW r,
           r = [request[q] EXCEPT !.at = Last(q), !.ok = FALSE]
    PROVE  /\ r \in RequestRow /\ r.kind = request[q].kind
           /\ r.stage = "running" /\ r.at = Last(q) /\ ~r.ok /\ r.at \in 1 .. Last(q)
<1>1. PICK last \in 3 .. 8 : last = Last(q)
  BY Here
<1>2. request[q] \in RequestRow /\ request[q].stage = "running"
  BY Here DEF Running
<1>3. r = [request[q] EXCEPT !.at = last, !.ok = FALSE]
  BY <1>1
<1>4. last \in 0 .. 8 /\ last \in 1 .. last
  BY <1>1
<1>5. r \in RequestRow
  BY <1>2, <1>3, <1>4 DEF RequestRow
<1>6. /\ r.kind = request[q].kind /\ r.stage = "running"
      /\ r.at = last /\ r.ok = FALSE
  BY <1>2, <1>3 DEF RequestRow
<1> QED BY <1>1, <1>4, <1>5, <1>6

LEMMA RefuseKeeps ==
    ASSUME PoolInv, NEW q \in Requests, RefuseToken(q) \/ Refuse(q)
    PROVE  PoolInv'
<1>1. Running(q) /\ UNCHANGED <<lent, open, pending, committed>>
  BY DEF RefuseToken, Refuse, At
<1>2. request[q] \in RequestRow /\ request[q].kind \in Kinds /\ Last(q) \in 3 .. 8
  BY <1>1, Here
<1>3. CASE RefuseToken(q)
  <2> DEFINE r == [request[q] EXCEPT !.stage = "answered", !.ok = FALSE]
  <2>1. request[q].at = 1 /\ request[q].kind = "refresh"
    BY <1>1, <1>3, StatementHere DEF RefuseToken, At
  <2>2. request' = [request EXCEPT ![q] = r]
    BY <1>3 DEF RefuseToken
  <2>3. /\ r \in RequestRow /\ r.kind = request[q].kind
        /\ r.stage = "answered" /\ ~r.ok
    BY <1>2 DEF RequestRow
  <2> HIDE DEF r
  <2>4. Becomes(q, r)
    BY <2>1, <2>2, <2>3 DEF Becomes
  <2> QED BY <1>1, <2>1, <2>3, <2>4, RefusedBefore
<1>4. CASE Refuse(q)
  <2> DEFINE r == [request[q] EXCEPT !.at = Last(q), !.ok = FALSE]
  <2>1. request[q].at = 1 /\ request' = [request EXCEPT ![q] = r]
    BY <1>4 DEF Refuse
  <2>2. /\ r \in RequestRow /\ r.kind = request[q].kind
        /\ r.stage = "running" /\ r.at = Last(q) /\ ~r.ok /\ r.at \in 1 .. Last(q)
    BY <1>1, FailedRow
  <2> HIDE DEF r
  <2>3. Becomes(q, r)
    BY <2>1, <2>2 DEF Becomes
  <2> QED BY <1>1, <2>1, <2>2, <2>3, RefusedBefore
<1> QED BY <1>3, <1>4

LEMMA FailKeeps ==
    ASSUME PoolInv, NEW q \in Requests, FailStatement(q)
    PROVE  PoolInv'
<1> DEFINE c == ConnectionOf(q)
           r == [request[q] EXCEPT !.at = Last(q), !.ok = FALSE]
<1>1. Running(q) /\ Statement(q).do \in {"write", "commit"}
  BY DEF FailStatement, At
<1>2. /\ c \in Connections /\ lent[c] = q /\ request[q] \in RequestRow
      /\ Last(q) \in 3 .. 8 /\ request[q].at # Last(q)
  BY <1>1, Here, StatementHere
<1>3. request' = [request EXCEPT ![q] = r]
  BY DEF FailStatement
<1>4. /\ r \in RequestRow /\ r.kind = request[q].kind
      /\ r.stage = "running" /\ r.at = Last(q) /\ ~r.ok /\ r.at \in 1 .. Last(q)
  BY <1>1, FailedRow
<1>5. Leaves(c, {})
  BY <1>2 DEF FailStatement, PoolInv, TypeOK, Leaves
<1> HIDE DEF c, r
<1>6. Becomes(q, r)
  BY <1>3, <1>4 DEF Becomes
<1>7. WaitsFit(q, r, {}) /\ WrittenFits(q, r, {})
  BY <1>4 DEF WaitsFit, WrittenFits
<1>8. CommittedFits(q, r)
  BY <1>1, <1>2, CommittedHere DEF CommittedFits, FailStatement
<1>9. Opens(r, c)
  BY <1>1, <1>4, AtRelease DEF Opens
<1> QED BY <1>1, <1>2, <1>5, <1>6, <1>7, <1>8, <1>9, WorkStep

LEMMA WriteKeeps ==
    ASSUME PoolInv, NEW q \in Requests, WriteRow(q)
    PROVE  PoolInv'
<1> DEFINE c == ConnectionOf(q)
           k == request[q].kind
           at == request[q].at
           r == [request[q] EXCEPT !.at = at + 1]
           write == [by |-> q, row |-> Row(q)]
           waits == pending[c] \cup {write}
<1>1. Running(q) /\ Statement(q).do = "write" /\ lent' = lent /\ committed' = committed
  BY DEF WriteRow, At
<1>2. /\ c \in Connections /\ lent[c] = q /\ request[q] \in RequestRow /\ k \in Kinds
      /\ Last(q) \in 3 .. 8 /\ at \in 1 .. Last(q) /\ at # Last(q) /\ request[q].ok
      /\ Row(q) \in Rows /\ Statement(q) = Update(Row(q))
      /\ k \notin Forgetful => at + 1 < Last(q)
  BY <1>1, Here, StatementHere, NotFailed
<1>3. at + 1 \in 0 .. 8 /\ at + 1 \in 1 .. Last(q) /\ at \in 1 .. (at + 1) - 1
  BY <1>2
<1>4. /\ r \in RequestRow /\ r.kind = k /\ r.stage = "running"
      /\ r.at = at + 1 /\ r.ok
  BY <1>1, <1>2, <1>3 DEF RequestRow, Running
<1>5. write \in Writes /\ write.by = q /\ write.row = Row(q)
  BY <1>2 DEF Writes, Rows
<1>6. open[c]
  BY <1>1, <1>2, PoolAssumption DEF PoolInv, Opened, At
<1>7. /\ request' = [request EXCEPT ![q] = r] /\ open' = open
      /\ pending' = [pending EXCEPT ![c] = waits]
  BY DEF WriteRow, Continue
<1>8. Program[k][at] = Update(Row(q))
  BY <1>2 DEF Statement
<1>9. \A d \in Connections : lent[d] = q => d = c
  <2>1. q # Nobody
    BY PoolAssumption
  <2> QED BY <1>2, <2>1, Alone
<1>10. Leaves(c, waits)
  BY <1>1, <1>2, <1>5, <1>6, <1>7 DEF Leaves, PoolInv, TypeOK
<1> HIDE DEF c, r, write
<1>11. Becomes(q, r) /\ Opens(r, c)
  BY <1>3, <1>4, <1>6, <1>7 DEF Becomes, Opens
<1>12. WaitsFit(q, r, waits)
  <2> SUFFICES ASSUME NEW w \in waits
               PROVE  \/ /\ w.by = q /\ r.stage = "running" /\ r.ok
                         /\ r.kind \in Forgetful \/ r.at < Last(q)
                         /\ \E i \in 1 .. r.at - 1 : Program[r.kind][i] = Update(w.row)
                      \/ w.by # q /\ Forgotten(w)
    BY DEF WaitsFit
  <2>1. r.kind \in Forgetful \/ r.at < Last(q)
    BY <1>2, <1>4
  <2>2. CASE w = write
    <3>1. Program[r.kind][at] = Update(w.row) /\ at \in 1 .. r.at - 1
      BY <1>3, <1>4, <1>5, <1>8, <2>2
    <3> QED BY <1>4, <1>5, <2>1, <2>2, <3>1
  <2>3. CASE w \in pending[c] /\ w.by = q
    <3>1. PICK i \in 1 .. at - 1 : Program[k][i] = Update(w.row)
      BY <1>1, <1>2, <2>3, PendingHere
    <3>2. i \in 1 .. r.at - 1
      BY <1>2, <1>4
    <3> QED BY <1>4, <2>1, <2>3, <3>1, <3>2
  <2> QED BY <1>1, <1>2, <2>2, <2>3, PendingHere
<1>13. CommittedFits(q, r)
  BY <1>1, <1>2, CommittedHere DEF CommittedFits
<1>14. WrittenFits(q, r, waits)
  <2> SUFFICES ASSUME r.ok, r.kind \notin Forgetful, NEW i \in 1 .. r.at - 1,
                      NEW s \in {"item", "following", "user", "session"},
                      Program[r.kind][i] = Update(s)
               PROVE  \/ [by |-> q, row |-> s] \in committed'
                      \/ r.at < Last(q) /\ [by |-> q, row |-> s] \in waits
    BY DEF WrittenFits
  <2>1. CASE i = at
    <3>1. Row(q) = s
      BY <1>4, <1>8, <2>1 DEF Update
    <3> QED BY <1>2, <1>4, <3>1 DEF write
  <2>2. CASE i # at
    <3>1. i \in 1 .. at - 1
      BY <1>2, <1>4, <2>2
    <3>2. Safe(q, s)
      BY <1>1, <1>2, <1>4, <3>1, WrittenSoFar
    <3> QED BY <1>1, <1>2, <1>4, <1>9, <3>2 DEF Safe
  <2> QED BY <2>1, <2>2
<1> QED BY <1>1, <1>2, <1>10, <1>11, <1>12, <1>13, <1>14, WorkStep

LEMMA CommitKeeps ==
    ASSUME PoolInv, NEW q \in Requests, CommitTransaction(q)
    PROVE  PoolInv'
<1> DEFINE c == ConnectionOf(q)
           k == request[q].kind
           at == request[q].at
           r == [request[q] EXCEPT !.at = at + 1]
<1>1. /\ Running(q) /\ Statement(q).do = "commit" /\ lent' = lent
      /\ committed' = committed \cup pending[c]
  BY DEF CommitTransaction, At
<1>2. /\ c \in Connections /\ lent[c] = q /\ request[q] \in RequestRow /\ k \in Kinds
      /\ Last(q) \in 3 .. 8 /\ at \in 1 .. Last(q) /\ at # Last(q) /\ request[q].ok
      /\ k \notin Forgetful /\ (at + 1 = Last(q) \/ (k = "verifySignature" /\ at = 4))
  BY <1>1, Here, StatementHere, NotFailed
<1>3. at + 1 \in 0 .. 8 /\ at + 1 \in 1 .. Last(q) /\ at + 1 = (at - 1) + 2
  BY <1>2
<1>4. /\ r \in RequestRow /\ r.kind = k /\ r.stage = "running"
      /\ r.at = at + 1 /\ r.ok
  BY <1>1, <1>2, <1>3 DEF RequestRow, Running
<1>5. /\ request' = [request EXCEPT ![q] = r] /\ open' = [open EXCEPT ![c] = FALSE]
      /\ pending' = [pending EXCEPT ![c] = {}]
  BY DEF CommitTransaction, Continue
<1>6. \A d \in Connections : lent[d] = q => d = c
  <2>1. q # Nobody
    BY PoolAssumption
  <2> QED BY <1>2, <2>1, Alone
<1>7. Leaves(c, {})
  BY <1>1, <1>2, <1>5 DEF Leaves, PoolInv, TypeOK
<1> HIDE DEF c, r
<1>8. \A i \in 1 .. at : \A s \in Rows \ {"account"} :
          k = "verifySignature" /\ at = 4 => Program[k][i] # Update(s)
  BY LoginShape
<1>9. Becomes(q, r)
  BY <1>3, <1>4, <1>5 DEF Becomes
<1>10. Opens(r, c)
  <2>1. CASE at + 1 = Last(q)
    BY <1>1, <1>4, <2>1, AtRelease DEF Opens
  <2>2. CASE k = "verifySignature" /\ at = 4
    BY <1>4, <2>2, NoWriteAfterFind DEF Opens
  <2> QED BY <1>2, <2>1, <2>2
<1>11. WaitsFit(q, r, {})
  BY DEF WaitsFit
<1>12. CommittedFits(q, r)
  <2> SUFFICES ASSUME NEW w \in committed'
               PROVE  /\ w.by # q => w \in committed \/ Forgotten(w)
                      /\ w.by = q /\ w.row # "account" =>
                            r.ok /\ r.stage = "running" /\ r.at = Last(q)
    BY DEF CommittedFits
  <2>1. CASE w \in committed
    BY <1>1, <1>2, <2>1, CommittedHere
  <2>2. CASE w \in pending[c] /\ w.by = q
    <3>1. PICK i \in 1 .. at - 1 : Program[k][i] = Update(w.row)
      BY <1>1, <1>2, <2>2, PendingHere
    <3>2. i \in 1 .. at /\ w.row \in Rows
      BY <1>1, <1>2, <2>2, PendingHere DEF Writes, Rows
    <3>3. w.row # "account" => at + 1 = Last(q)
      BY <1>2, <1>8, <3>1, <3>2
    <3> QED BY <1>4, <2>2, <3>3
  <2>3. CASE w \in pending[c] /\ w.by # q
    BY <1>1, <1>2, <2>3, PendingHere
  <2> QED BY <1>1, <2>1, <2>2, <2>3
<1>13. WrittenFits(q, r, {})
  <2> SUFFICES ASSUME r.ok, r.kind \notin Forgetful, NEW i \in 1 .. r.at - 1,
                      NEW s \in {"item", "following", "user", "session"},
                      Program[r.kind][i] = Update(s)
               PROVE  [by |-> q, row |-> s] \in committed'
    BY DEF WrittenFits
  <2>1. i \in 1 .. at
    BY <1>2, <1>4
  <2>2. i # at
    <3>1. Program[k][at].do = "commit"
      BY <1>1 DEF Statement
    <3> QED BY <1>4, <3>1 DEF Update
  <2>3. i \in 1 .. at - 1
    BY <1>2, <2>1, <2>2
  <2>4. Safe(q, s)
    BY <1>1, <1>2, <1>4, <2>3, WrittenSoFar
  <2> QED BY <1>1, <1>6, <2>4 DEF Safe
<1> QED BY <1>1, <1>2, <1>7, <1>9, <1>10, <1>11, <1>12, <1>13, WorkStep

----------------------------------------------------------------------------
(* A request that waits for its connection has written nothing.            *)
LEMMA NothingWritten ==
    ASSUME PoolInv, NEW q \in Requests, request[q].stage \in {"new", "waiting"}
    PROVE  /\ \A c \in Connections : lent[c] # q
           /\ \A c \in Connections : \A w \in pending[c] : w.by # q
           /\ \A w \in committed : w.by # q
           /\ request[q].ok /\ request[q] \in RequestRow
<1>1. q # Nobody
  BY PoolAssumption
<1>2. \A c \in Connections : lent[c] # q
  BY <1>1 DEF PoolInv, Lending, Running, Answered
<1>3. \A c \in Connections : \A w \in pending[c] : w.by # q
  BY DEF PoolInv, PendingKnown, AtWork, Forgotten, Running, Answered
<1>4. \A w \in committed : w.by # q
  BY DEF PoolInv, CommittedKnown, Running, Answered
<1> QED BY <1>2, <1>3, <1>4 DEF PoolInv, TypeOK, Failing, RequestRow

(* A step of a request that is not at work before it or not after it.      *)
LEMMA OutsideStep ==
    ASSUME PoolInv, NEW q \in Requests, request[q].stage \in {"new", "waiting"},
           NEW r \in RequestRow, request' = [request EXCEPT ![q] = r],
           UNCHANGED <<open, pending, committed>>, r.kind \in Kinds,
           \/ /\ r.stage = "waiting" /\ r.ok
              /\ UNCHANGED lent
           \/ /\ r.stage = "answered" /\ ~r.ok
              /\ UNCHANGED lent
           \/ /\ r.stage = "running" /\ r.ok /\ r.at = 1
              /\ \E c \in Connections : lent[c] = Nobody /\ lent' = [lent EXCEPT ![c] = q]
    PROVE  PoolInv'
<1>1. /\ request'[q] = r
      /\ \A p \in Requests : p # q => request'[p] = request[p]
  BY DEF PoolInv, TypeOK
<1>2. /\ \A c \in Connections : lent[c] # q
      /\ \A c \in Connections : \A w \in pending[c] : w.by # q
      /\ \A w \in committed : w.by # q
  BY NothingWritten
<1>3. \A c \in Connections : lent'[c] = lent[c] \/ (lent[c] = Nobody /\ lent'[c] = q)
  BY DEF PoolInv, TypeOK
<1>4. /\ Len(Program[r.kind]) \in 3 .. 8
      /\ DOMAIN Program[r.kind] = 1 .. Len(Program[r.kind])
      /\ Program[r.kind][1].do # "write"
  BY ProgramShape
<1>5. q # Nobody
  BY PoolAssumption
<1>6. TypeOK'
  <2>1. request' \in [Requests -> RequestRow]
    BY DEF PoolInv, TypeOK, RequestRow
  <2>2. lent' \in [Connections -> Requests \cup {Nobody}]
    BY DEF PoolInv, TypeOK
  <2>3. \A p \in Requests : request'[p].stage # "new" => request'[p].kind \in Kinds
    BY <1>1 DEF PoolInv, TypeOK
  <2>4. \A p \in Requests :
            Running(p)' => request'[p].at \in DOMAIN Program[request'[p].kind]
    BY <1>1, <1>4 DEF PoolInv, TypeOK, Running
  <2> QED BY <2>1, <2>2, <2>3, <2>4 DEF PoolInv, TypeOK, RequestRow
<1>7. Lending'
  <2>1. ASSUME NEW p \in Requests, request'[p].stage = "running"
        PROVE  \E c \in Connections : lent'[c] = p
    <3>1. CASE p = q
      BY <1>1, <1>3, <2>1, <3>1 DEF PoolInv, TypeOK
    <3>2. CASE p # q
      <4>1. PICK c \in Connections : lent[c] = p
        BY <1>1, <2>1, <3>2 DEF PoolInv, Lending, Running
      <4>2. p # Nobody
        BY PoolAssumption
      <4> QED BY <1>3, <4>1, <4>2
    <3> QED BY <3>1, <3>2
  <2>2. ASSUME NEW c \in Connections, lent'[c] # Nobody
        PROVE  /\ \A d \in Connections \ {c} : lent'[d] # lent'[c]
               /\ \/ request'[lent'[c]].stage = "running"
                  \/ /\ request'[lent'[c]].stage = "answered"
                     /\ request'[lent'[c]].kind = "refresh" /\ ~request'[lent'[c]].ok
    <3>1. CASE lent'[c] = q
      <4>1. lent[c] = Nobody /\ r.stage = "running"
        BY <1>2, <1>3, <3>1 DEF PoolInv, TypeOK
      <4>2. \A d \in Connections \ {c} : lent'[d] # q
        BY <1>2, <3>1, <4>1 DEF PoolInv, TypeOK
      <4> QED BY <1>1, <3>1, <4>1, <4>2
    <3>2. CASE lent'[c] # q
      <4>1. lent'[c] = lent[c] /\ lent[c] \in Requests
        BY <1>3, <2>2, <3>2 DEF PoolInv, TypeOK
      <4>2. /\ \A d \in Connections \ {c} : lent[d] # lent[c]
            /\ \/ request[lent[c]].stage = "running"
               \/ /\ request[lent[c]].stage = "answered"
                  /\ request[lent[c]].kind = "refresh" /\ ~request[lent[c]].ok
        BY <2>2, <4>1 DEF PoolInv, Lending, Running, Answered
      <4>3. \A d \in Connections \ {c} : lent'[d] # lent'[c]
        BY <1>3, <3>2, <4>1, <4>2
      <4> QED BY <1>1, <3>2, <4>1, <4>2, <4>3
    <3> QED BY <3>1, <3>2
  <2> QED BY <2>1, <2>2 DEF Lending, Running, Answered
<1>8. Opened'
  <2>1. ASSUME NEW c \in Connections, lent'[c] # Nobody, request'[lent'[c]].stage = "running",
               Program[request'[lent'[c]].kind][request'[lent'[c]].at].do = "write"
        PROVE  open[c]
    <3>1. lent'[c] # q
      BY <1>1, <1>4, <2>1
    <3>2. lent'[c] = lent[c] /\ lent[c] \in Requests
      BY <1>3, <2>1, <3>1 DEF PoolInv, TypeOK
    <3> QED BY <1>1, <2>1, <3>1, <3>2 DEF PoolInv, Opened, At, Running, Statement
  <2> QED BY <2>1 DEF Opened, At, Running, Statement
<1>9. Failing'
  BY <1>1 DEF PoolInv, Failing, Running, Last
<1>10. PendingKnown'
  <2> SUFFICES ASSUME NEW c \in Connections, NEW w \in pending[c]
               PROVE  AtWork(w, c)' \/ Forgotten(w)'
    BY DEF PendingKnown
  <2>1. w.by \in Requests /\ w.by # q /\ w.by # Nobody
    BY <1>2, PoolAssumption DEF PoolInv, TypeOK, Writes
  <2>2. request'[w.by] = request[w.by]
    BY <1>1, <2>1
  <2>3. AtWork(w, c) \/ Forgotten(w)
    BY DEF PoolInv, PendingKnown
  <2>4. lent[c] = w.by => lent'[c] = w.by
    BY <1>3, <2>1
  <2> QED BY <2>2, <2>3, <2>4 DEF AtWork, Forgotten, Running, Answered, Last
<1>11. CommittedKnown'
  <2>1. \A w \in committed : w.by \in Requests
    BY DEF PoolInv, TypeOK, Writes
  <2> QED BY <1>1, <1>2, <2>1 DEF PoolInv, CommittedKnown, Running, Answered, Last
<1>12. WrittenKept'
  <2> SUFFICES ASSUME NEW p \in Requests, request'[p].ok, request'[p].kind \in Kinds \ Forgetful
               PROVE  /\ request'[p].stage = "running" => \A i \in 1 .. request'[p].at - 1 :
                           \A row \in {"item", "following", "user", "session"} :
                             Program[request'[p].kind][i] = Update(row) => Safe(p, row)'
                      /\ request'[p].stage = "answered" =>
                           {w \in WritesOf(p)' : w.row # "account"} \subseteq committed
    BY DEF WrittenKept, Safe, Running, Answered
  <2>1. CASE p = q
    <3>1. request'[p] = r /\ \A i \in 1 .. 1 - 1 : FALSE
      BY <1>1, <2>1
    <3> QED BY <3>1
  <2>2. CASE p # q
    <3>1. request'[p] = request[p] /\ WritesOf(p)' = WritesOf(p)
      BY <1>1, <2>2 DEF WritesOf
    <3>2. ASSUME NEW row, Safe(p, row) PROVE Safe(p, row)'
      <4>1. p # Nobody
        BY PoolAssumption
      <4>2. \A c \in Connections : lent[c] = p => lent'[c] = p
        BY <1>3, <4>1
      <4> QED BY <3>1, <3>2, <4>2 DEF Safe, Last
    <3>3. ASSUME request[p].stage = "running", NEW i \in 1 .. request[p].at - 1,
                 NEW row \in {"item", "following", "user", "session"},
                 Program[request[p].kind][i] = Update(row)
          PROVE  Safe(p, row)'
      <4>1. Running(p) /\ request[p].ok /\ request[p].kind \in Kinds \ Forgetful
        BY <3>1, <3>3 DEF Running
      <4>2. Safe(p, row)
        BY <3>3, <4>1, WrittenSoFar
      <4> QED BY <3>2, <4>2
    <3>4. request[p].stage = "answered" => {w \in WritesOf(p) : w.row # "account"} \subseteq committed
      BY <3>1 DEF PoolInv, WrittenKept, Answered
    <3> QED BY <3>1, <3>3, <3>4
  <2> QED BY <2>1, <2>2
<1> QED BY <1>6, <1>7, <1>8, <1>9, <1>10, <1>11, <1>12 DEF PoolInv

LEMMA OutsideKeeps ==
    ASSUME PoolInv, NEW q \in Requests, Call(q) \/ Connect(q) \/ ConnectTimeout(q)
    PROVE  PoolInv'
<1>1. request[q].stage \in {"new", "waiting"} /\ UNCHANGED <<open, pending, committed>>
  BY DEF Call, Connect, ConnectTimeout
<1>2. request[q] \in RequestRow /\ request[q].ok
  BY <1>1, NothingWritten
<1>3. CASE Call(q)
  <2>1. PICK k \in Kinds :
            request' = [request EXCEPT ![q] = [request[q] EXCEPT !.kind = k, !.stage = "waiting"]]
    BY <1>3 DEF Call
  <2> DEFINE r == [request[q] EXCEPT !.kind = k, !.stage = "waiting"]
  <2>2. r \in RequestRow /\ r.kind \in Kinds /\ r.stage = "waiting" /\ r.ok
    BY <1>2 DEF RequestRow
  <2>3. UNCHANGED lent
    BY <1>3 DEF Call
  <2> HIDE DEF r
  <2> QED BY <1>1, <2>1, <2>2, <2>3, OutsideStep DEF r
<1>4. CASE Connect(q)
  <2> DEFINE r == [request[q] EXCEPT !.stage = "running", !.at = 1]
  <2>1. request' = [request EXCEPT ![q] = r]
    BY <1>4 DEF Connect
  <2>2. request[q].kind \in Kinds
    BY <1>4 DEF Connect, PoolInv, TypeOK
  <2>3. /\ r \in RequestRow /\ r.kind = request[q].kind
        /\ r.stage = "running" /\ r.ok /\ r.at = 1
    <3>1. 1 \in 0 .. 8
      OBVIOUS
    <3>2. r \in RequestRow
      BY <1>2, <3>1 DEF RequestRow
    <3>3. r.kind = request[q].kind /\ r.stage = "running" /\ r.ok = request[q].ok /\ r.at = 1
      BY <1>2 DEF RequestRow
    <3> QED BY <1>2, <3>2, <3>3
  <2>4. \E c \in Connections : lent[c] = Nobody /\ lent' = [lent EXCEPT ![c] = q]
    BY <1>4 DEF Connect
  <2> HIDE DEF r
  <2> QED BY <1>1, <2>1, <2>2, <2>3, <2>4, OutsideStep
<1>5. CASE ConnectTimeout(q)
  <2> DEFINE r == [request[q] EXCEPT !.stage = "answered", !.ok = FALSE]
  <2>1. request' = [request EXCEPT ![q] = r] /\ UNCHANGED lent
    BY <1>5 DEF ConnectTimeout
  <2>2. request[q].kind \in Kinds
    BY <1>5 DEF ConnectTimeout, PoolInv, TypeOK
  <2>3. r \in RequestRow /\ r.kind \in Kinds /\ r.stage = "answered" /\ ~r.ok
    BY <1>2, <2>2 DEF RequestRow
  <2> HIDE DEF r
  <2> QED BY <1>1, <2>1, <2>3, OutsideStep
<1> QED BY <1>1, <1>3, <1>4, <1>5

(* A request that gives its connection back leaves there only what it      *)
(* forgot.                                                                 *)
LEMMA ReleaseKeeps ==
    ASSUME PoolInv, NEW q \in Requests, ReleaseConnection(q)
    PROVE  PoolInv'
<1> DEFINE c == ConnectionOf(q)
           r == [request[q] EXCEPT !.stage = "answered"]
<1>1. /\ Running(q) /\ Statement(q).do = "release"
      /\ UNCHANGED <<open, pending, committed>>
      /\ lent' = [lent EXCEPT ![c] = Nobody] /\ request' = [request EXCEPT ![q] = r]
  BY DEF ReleaseConnection, At
<1>2. /\ c \in Connections /\ lent[c] = q /\ request[q] \in RequestRow
      /\ request[q].kind \in Kinds /\ request[q].at = Last(q) /\ Last(q) \in 3 .. 8
  BY <1>1, Here, StatementHere
<1>3. /\ r \in RequestRow /\ r.stage = "answered" /\ r.kind = request[q].kind
      /\ r.at = request[q].at /\ r.ok = request[q].ok
  BY <1>2 DEF RequestRow
<1> HIDE DEF c, r
<1>4. /\ request'[q] = r
      /\ \A p \in Requests : p # q => request'[p] = request[p]
  BY <1>1 DEF PoolInv, TypeOK
<1>5. lent'[c] = Nobody /\ \A d \in Connections : d # c => lent'[d] = lent[d] /\ lent[d] # q
  <2>1. q # Nobody
    BY PoolAssumption
  <2> QED BY <1>1, <1>2, <2>1, Alone DEF PoolInv, TypeOK
<1>6. TypeOK'
  <2>1. request' \in [Requests -> RequestRow]
    BY <1>1, <1>3 DEF PoolInv, TypeOK, RequestRow
  <2>2. lent' \in [Connections -> Requests \cup {Nobody}]
    BY <1>1 DEF PoolInv, TypeOK
  <2>3. \A p \in Requests : request'[p].stage # "new" => request'[p].kind \in Kinds
    BY <1>2, <1>3, <1>4 DEF PoolInv, TypeOK
  <2>4. \A p \in Requests :
            Running(p)' => request'[p].at \in DOMAIN Program[request'[p].kind]
    BY <1>3, <1>4 DEF PoolInv, TypeOK, Running
  <2> QED BY <1>1, <2>1, <2>2, <2>3, <2>4 DEF PoolInv, TypeOK, RequestRow
<1>7. Lending'
  <2>1. ASSUME NEW p \in Requests, request'[p].stage = "running"
        PROVE  \E d \in Connections : lent'[d] = p
    <3>1. p # q /\ request[p].stage = "running"
      BY <1>3, <1>4, <2>1
    <3>2. PICK d \in Connections : lent[d] = p
      BY <3>1 DEF PoolInv, Lending, Running
    <3> QED BY <1>2, <1>5, <3>1, <3>2
  <2>2. ASSUME NEW d \in Connections, lent'[d] # Nobody
        PROVE  /\ \A e \in Connections \ {d} : lent'[e] # lent'[d]
               /\ \/ request'[lent'[d]].stage = "running"
                  \/ /\ request'[lent'[d]].stage = "answered"
                     /\ request'[lent'[d]].kind = "refresh" /\ ~request'[lent'[d]].ok
    <3>1. lent'[d] = lent[d] /\ lent[d] # q /\ lent[d] \in Requests
      BY <1>5, <2>2 DEF PoolInv, TypeOK
    <3>2. /\ \A e \in Connections \ {d} : lent[e] # lent[d]
          /\ \/ request[lent[d]].stage = "running"
             \/ /\ request[lent[d]].stage = "answered"
                /\ request[lent[d]].kind = "refresh" /\ ~request[lent[d]].ok
      BY <2>2, <3>1 DEF PoolInv, Lending, Running, Answered
    <3>3. \A e \in Connections \ {d} : lent'[e] # lent'[d]
      BY <1>5, <2>2, <3>1, <3>2
    <3> QED BY <1>4, <3>1, <3>2, <3>3
  <2> QED BY <2>1, <2>2 DEF Lending, Running, Answered
<1>8. Opened'
  <2>1. ASSUME NEW d \in Connections, lent'[d] # Nobody, request'[lent'[d]].stage = "running",
               Program[request'[lent'[d]].kind][request'[lent'[d]].at].do = "write"
        PROVE  open[d]
    <3>1. lent'[d] = lent[d] /\ lent[d] # q /\ lent[d] \in Requests
      BY <1>5, <2>1 DEF PoolInv, TypeOK
    <3> QED BY <1>4, <2>1, <3>1 DEF PoolInv, Opened, At, Running, Statement
  <2> QED BY <1>1, <2>1 DEF Opened, At, Running, Statement
<1>9. Failing'
  BY <1>3, <1>4 DEF PoolInv, Failing, Running, Last
<1>10. PendingKnown'
  <2> SUFFICES ASSUME NEW d \in Connections, NEW w \in pending[d]
               PROVE  AtWork(w, d)' \/ Forgotten(w)'
    BY <1>1 DEF PendingKnown
  <2>1. w.by \in Requests
    BY DEF PoolInv, TypeOK, Writes
  <2>2. AtWork(w, d) \/ Forgotten(w)
    BY DEF PoolInv, PendingKnown
  <2>3. CASE w.by = q
    <3>1. AtWork(w, d)
      BY <1>1, <2>2, <2>3 DEF Forgotten, Running, Answered
    <3>2. request[q].ok /\ request[q].kind \in Forgetful
      BY <1>2, <2>3, <3>1 DEF AtWork
    <3> QED BY <1>3, <1>4, <2>3, <3>2 DEF Forgotten, Answered
  <2>4. CASE w.by # q
    <3>1. request'[w.by] = request[w.by]
      BY <1>4, <2>1, <2>4
    <3>2. lent[d] = w.by => lent'[d] = w.by
      BY <1>2, <1>5, <2>4
    <3> QED BY <2>2, <3>1, <3>2 DEF AtWork, Forgotten, Running, Answered, Last
  <2> QED BY <2>3, <2>4
<1>11. CommittedKnown'
  <2> SUFFICES ASSUME NEW w \in committed
               PROVE  /\ request'[w.by].stage \in {"running", "answered"}
                      /\ w.row # "account" => /\ request'[w.by].ok
                                              /\ \/ request'[w.by].stage = "answered"
                                                 \/ request'[w.by].at = Last(w.by)'
    BY <1>1 DEF CommittedKnown, Running, Answered
  <2>1. w.by \in Requests
    BY DEF PoolInv, TypeOK, Writes
  <2>2. CASE w.by = q
    BY <1>1, <1>3, <1>4, <2>2, CommittedHere
  <2>3. CASE w.by # q
    BY <1>4, <2>1, <2>3 DEF PoolInv, CommittedKnown, Running, Answered, Last
  <2> QED BY <2>2, <2>3
<1>12. WrittenKept'
  <2> SUFFICES ASSUME NEW p \in Requests, request'[p].ok, request'[p].kind \in Kinds \ Forgetful
               PROVE  /\ request'[p].stage = "running" => \A i \in 1 .. request'[p].at - 1 :
                           \A row \in {"item", "following", "user", "session"} :
                             Program[request'[p].kind][i] = Update(row) => Safe(p, row)'
                      /\ request'[p].stage = "answered" =>
                           {w \in WritesOf(p)' : w.row # "account"} \subseteq committed
    BY <1>1 DEF WrittenKept, Safe, Running, Answered
  <2>1. CASE p = q
    <3>1. request'[p] = r /\ request[q].ok /\ request[q].kind \in Kinds \ Forgetful
      BY <1>3, <1>4, <2>1
    <3>2. WritesOf(p)' = WritesOf(q)
      BY <1>3, <2>1, <3>1 DEF WritesOf
    <3>3. ASSUME NEW w \in WritesOf(q), w.row # "account" PROVE w \in committed
      <4> DEFINE k == request[q].kind
      <4>1. PICK i \in DOMAIN Program[k] : Program[k][i].do = "write"
                                          /\ w = [by |-> q, row |-> Program[k][i].row]
        BY DEF WritesOf
      <4>2. i \in 1 .. Last(q) /\ i # Last(q)
        BY <1>2, <4>1, ProgramShape DEF Last
      <4>3. i \in 1 .. request[q].at - 1
        BY <1>2, <4>2
      <4>4. /\ Program[k][i].row \in Rows \ {"account"}
            /\ Program[k][i] = Update(Program[k][i].row)
        BY <1>2, <3>3, <4>1, <4>2, ProgramShape DEF Last
      <4> DEFINE row == Program[k][i].row
      <4>5. row \in {"item", "following", "user", "session"} /\ Program[k][i] = Update(row)
        BY <4>4 DEF Rows
      <4> HIDE DEF row
      <4>6. Safe(q, row)
        BY <1>1, <3>1, <4>3, <4>5, WrittenSoFar
      <4> QED BY <1>2, <4>1, <4>6 DEF Safe, row
    <3> QED BY <1>3, <3>1, <3>2, <3>3
  <2>2. CASE p # q
    <3>1. request'[p] = request[p] /\ WritesOf(p)' = WritesOf(p)
      BY <1>4, <2>2 DEF WritesOf
    <3>2. ASSUME NEW row, Safe(p, row) PROVE Safe(p, row)'
      <4>1. \A d \in Connections : lent[d] = p => lent'[d] = p
        BY <1>2, <1>5, <2>2
      <4> QED BY <1>1, <3>1, <3>2, <4>1 DEF Safe, Last
    <3>3. ASSUME request[p].stage = "running", NEW i \in 1 .. request[p].at - 1,
                 NEW row \in {"item", "following", "user", "session"},
                 Program[request[p].kind][i] = Update(row)
          PROVE  Safe(p, row)'
      <4>1. Running(p) /\ request[p].ok /\ request[p].kind \in Kinds \ Forgetful
        BY <3>1, <3>3 DEF Running
      <4>2. Safe(p, row)
        BY <3>3, <4>1, WrittenSoFar
      <4> QED BY <3>2, <4>2
    <3>4. request[p].stage = "answered" => {w \in WritesOf(p) : w.row # "account"} \subseteq committed
      BY <3>1 DEF PoolInv, WrittenKept, Answered
    <3> QED BY <3>1, <3>3, <3>4
  <2> QED BY <2>1, <2>2
<1> QED BY <1>6, <1>7, <1>8, <1>9, <1>10, <1>11, <1>12 DEF PoolInv

(* What the server rolls back on an idle connection was forgotten there.   *)
LEMMA CloseKeeps ==
    ASSUME PoolInv, NEW c \in Connections, CloseIdle(c)
    PROVE  PoolInv'
<1>1. /\ lent[c] = Nobody /\ UNCHANGED <<request, lent, committed>>
      /\ open' = [open EXCEPT ![c] = FALSE] /\ pending' = [pending EXCEPT ![c] = {}]
  BY DEF CloseIdle
<1>2. /\ pending'[c] = {}
      /\ \A d \in Connections : d # c => pending'[d] = pending[d] /\ open'[d] = open[d]
  BY <1>1 DEF PoolInv, TypeOK
<1>3. TypeOK'
  BY <1>1, <1>2 DEF PoolInv, TypeOK, Running
<1>4. Lending' /\ Failing' /\ CommittedKnown'
  BY <1>1 DEF PoolInv, Lending, Failing, CommittedKnown, Running, Answered, Last
<1>5. Opened'
  BY <1>1, <1>2 DEF PoolInv, Opened, At, Running, Statement
<1>6. PendingKnown'
  BY <1>1, <1>2 DEF PoolInv, PendingKnown, AtWork, Forgotten, Running, Answered, Last
<1>7. WrittenKept'
  <2> SUFFICES ASSUME NEW p \in Requests, request'[p].ok, request'[p].kind \in Kinds \ Forgetful
               PROVE  /\ Running(p)' => \A i \in 1 .. request'[p].at - 1 :
                           \A row \in {"item", "following", "user", "session"} :
                             Program[request'[p].kind][i] = Update(row) => Safe(p, row)'
                      /\ Answered(p)' => {w \in WritesOf(p)' : w.row # "account"} \subseteq committed'
    BY DEF WrittenKept, Safe
  <2>k. /\ request[p].ok /\ request[p].kind \in Kinds \ Forgetful
        /\ Running(p)' = Running(p) /\ Answered(p)' = Answered(p) /\ WritesOf(p)' = WritesOf(p)
    BY <1>1 DEF Running, Answered, WritesOf
  <2>1. ASSUME NEW row, Safe(p, row) PROVE Safe(p, row)'
    <3>1. p # Nobody
      BY PoolAssumption
    <3> QED BY <1>1, <1>2, <2>1, <3>1 DEF Safe, Last
  <2>2. ASSUME Running(p), NEW i \in 1 .. request[p].at - 1,
               NEW row \in {"item", "following", "user", "session"},
               Program[request[p].kind][i] = Update(row)
        PROVE  Safe(p, row)'
    <3>1. Safe(p, row)
      BY <2>2, <2>k, WrittenSoFar
    <3> QED BY <2>1, <3>1
  <2>3. Answered(p) => {w \in WritesOf(p) : w.row # "account"} \subseteq committed
    BY <2>k DEF PoolInv, WrittenKept
  <2> QED BY <1>1, <2>k, <2>2, <2>3
<1> QED BY <1>3, <1>4, <1>5, <1>6, <1>7 DEF PoolInv

----------------------------------------------------------------------------
LEMMA PoolInit == Init => PoolInv
<1> SUFFICES ASSUME Init PROVE PoolInv
  OBVIOUS
<1>1. \A q \in Requests : request[q].stage = "new" /\ request[q].ok
  BY DEF Init, New
<1>2. TypeOK
  BY <1>1 DEF Init, TypeOK, New, Running
<1>3. Lending /\ Opened /\ Failing /\ PendingKnown /\ CommittedKnown /\ WrittenKept
  BY <1>1 DEF Init, Lending, Opened, Failing, PendingKnown, CommittedKnown, WrittenKept,
              Running, Answered
<1> QED BY <1>2, <1>3 DEF PoolInv

LEMMA PoolNext == PoolInv /\ [Next]_vars => PoolInv'
<1> SUFFICES ASSUME PoolInv, [Next]_vars PROVE PoolInv'
  OBVIOUS
<1>1. ASSUME NEW q \in Requests, Call(q) \/ Connect(q) \/ ConnectTimeout(q) PROVE PoolInv'
  BY <1>1, OutsideKeeps
<1>2. ASSUME NEW q \in Requests, RunStatement(q) PROVE PoolInv'
  BY <1>2, StartKeeps, WriteKeeps, CommitKeeps, FindKeeps, RefuseKeeps, ReleaseKeeps
     DEF RunStatement
<1>3. ASSUME NEW q \in Requests, Refuse(q) \/ FailStatement(q) PROVE PoolInv'
  BY <1>3, RefuseKeeps, FailKeeps
<1>4. ASSUME NEW c \in Connections, CloseIdle(c) PROVE PoolInv'
  BY <1>4, CloseKeeps
<1>5. CASE UNCHANGED vars
  <2>1. TypeOK' /\ Lending' /\ Opened' /\ Failing'
    BY <1>5 DEF vars, PoolInv, TypeOK, Lending, Opened, Failing, Running, Answered, Last, At,
                Statement
  <2>2. PendingKnown' /\ CommittedKnown'
    BY <1>5 DEF vars, PoolInv, PendingKnown, AtWork, Forgotten, CommittedKnown,
                Running, Answered, Last
  <2>3. WrittenKept' = WrittenKept
    BY <1>5 DEF vars, WrittenKept, Running, Answered, Last, WritesOf
  <2> QED BY <2>1, <2>2, <2>3 DEF PoolInv
<1> QED BY <1>1, <1>2, <1>3, <1>4, <1>5 DEF Next

LEMMA PoolInvariant == Spec => []PoolInv
BY PoolInit, PoolNext, PTL DEF Spec

(* Each variable holds a value the code can give it, and writes wait only  *)
(* in open transactions.                                                   *)
THEOREM TypeCorrect == Spec => []TypeOK
<1>1. PoolInv => TypeOK
  BY DEF PoolInv
<1> QED BY PoolInvariant, <1>1, PTL

(* An answer is true whoever uses the connection next: of an error nothing *)
(* is or will be written, of a success everything is, a forgotten          *)
(* transaction apart.                                                      *)
THEOREM AnswersKept == Spec => []AnswersTrue
<1>1. PoolInv => AnswersTrue
  <2> SUFFICES ASSUME PoolInv, NEW q \in Requests, Answered(q)
               PROVE  /\ ~request[q].ok =>
                            \A w \in committed \cup Waiting : w.by = q => w.row = "account"
                      /\ request[q].ok /\ request[q].kind \notin Forgetful =>
                            {w \in WritesOf(q) : w.row # "account"} \subseteq committed
    BY DEF AnswersTrue
  <2>1. request[q].kind \in Kinds
    BY DEF PoolInv, TypeOK, Answered
  <2>2. ASSUME ~request[q].ok, NEW w \in committed, w.by = q PROVE w.row = "account"
    BY <2>2 DEF PoolInv, CommittedKnown
  <2>3. ASSUME ~request[q].ok, NEW c \in Connections, NEW w \in pending[c], w.by = q PROVE FALSE
    BY <2>3 DEF PoolInv, PendingKnown, AtWork, Forgotten
  <2>4. request[q].ok /\ request[q].kind \notin Forgetful =>
            {w \in WritesOf(q) : w.row # "account"} \subseteq committed
    BY <2>1 DEF PoolInv, WrittenKept
  <2> QED BY <2>2, <2>3, <2>4 DEF Waiting
<1> QED BY PoolInvariant, <1>1, PTL

(* No connection leaks but for refused tokens, none is shared, and what    *)
(* waits on an idle one was forgotten by a move or an unfollow.            *)
THEOREM PoolKept == Spec => []PoolExact
<1>1. PoolInv => PoolExact
  <2> SUFFICES ASSUME PoolInv, NEW c \in Connections
               PROVE  /\ lent[c] # Nobody =>
                            /\ \A d \in Connections \ {c} : lent[d] # lent[c]
                            /\ \/ Running(lent[c])
                               \/ request[lent[c]].kind = "refresh" /\ ~request[lent[c]].ok
                      /\ lent[c] = Nobody => \A w \in pending[c] : request[w.by].kind \in Forgetful
    BY DEF PoolExact
  <2>1. lent[c] # Nobody =>
            /\ \A d \in Connections \ {c} : lent[d] # lent[c]
            /\ \/ Running(lent[c])
               \/ request[lent[c]].kind = "refresh" /\ ~request[lent[c]].ok
    BY DEF PoolInv, Lending
  <2>2. ASSUME lent[c] = Nobody, NEW w \in pending[c] PROVE request[w.by].kind \in Forgetful
    <3>1. w.by # Nobody
      BY PoolAssumption DEF PoolInv, TypeOK, Writes
    <3> QED BY <2>2, <3>1 DEF PoolInv, PendingKnown, AtWork, Forgotten
  <2> QED BY <2>1, <2>2
<1> QED BY PoolInvariant, <1>1, PTL
=============================================================================
