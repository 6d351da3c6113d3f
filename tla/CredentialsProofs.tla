------------------------- MODULE CredentialsProofs -------------------------
(***************************************************************************)
(* OneGrantPerIntent, AuthorityReplacedAll and NoFalseRevocation for any    *)
(* intents, sessions and number of crashes, by the inductive invariant      *)
(* IInv: the row locks exclude, each token is in one place, and the         *)
(* provider honours it unless it was spoiled or is being rotated.           *)
(***************************************************************************)
EXTENDS Credentials, WellFoundedInduction, TLAPS

(* An intent on its way, or in a row, is consumed.                          *)
GrantsAreConsumed ==
  /\ \A s \in Sessions : task[s].at \in {"accepted", "granted", "activating"} =>
       task[s].intent \in consumed
  /\ \A r \in DOMAIN rows : rows[r].intent \in consumed

(* A session that holds a row holds it alone; the row is active and has the *)
(* token the session read.                                                  *)
LocksHold ==
  /\ \A s, t \in Sessions : HoldsRow(s) /\ HoldsRow(t) /\ s # t => task[s].row # task[t].row
  /\ \A s \in Sessions : HoldsRow(s) =>
       /\ task[s].row \in Active
       /\ rows[task[s].row].token = task[s].token

(* The token an exchange or a rotation brought and has not stored yet.      *)
InHand(s) ==
  IF task[s].at \in {"granted", "activating"} THEN task[s].token
  ELSE IF task[s].at = "rotating" THEN task[s].fresh ELSE Blank

(* No token is in two places.                                               *)
TokensDiffer ==
  /\ \A i, j \in Active : i # j /\ rows[i].token # Blank => rows[i].token # rows[j].token
  /\ \A s \in Sessions, i \in Active : InHand(s) # Blank => InHand(s) # rows[i].token
  /\ \A s, t \in Sessions : s # t /\ InHand(s) # Blank => InHand(s) # InHand(t)

(* The provider honours a token that is stored or in hand, unless it was    *)
(* spoiled or its row is being rotated.                                     *)
Honoured(t) == t \in live \cup spoiled \cup {Blank}
TokensHonoured ==
  /\ \A i \in Active : \/ Honoured(rows[i].token)
                       \/ \E s \in Sessions : task[s].at = "rotating" /\ task[s].row = i
  /\ \A s \in Sessions : Honoured(InHand(s))
  /\ \A s \in Sessions : task[s].at = "closing" /\ task[s].cause = "unhonoured" =>
       task[s].token \in spoiled \cup {Blank}

TokensMinted ==
  /\ \A i \in DOMAIN rows : rows[i].token \in 0..minted
  /\ \A s \in Sessions : InHand(s) \in 0..minted

IInv ==
  /\ TypeOK /\ GrantsAreConsumed /\ OneGrantPerIntent /\ AuthorityReplacedAll
  /\ LocksHold /\ TokensDiffer /\ TokensHonoured /\ TokensMinted

-----------------------------------------------------------------------------
(* The rows of the account are numbered from 1.                             *)
LEMMA RowsShape ==
  ASSUME NEW rs \in Seq(Credential)
  PROVE  /\ Len(rs) \in Nat /\ DOMAIN rs = 1..Len(rs)
         /\ \A i \in DOMAIN rs : rs[i] \in Credential
<1> HIDE DEF Credential
<1> QED
  OBVIOUS

(* A task's place in its flow says what it carries.                         *)
LEMMA TaskShape ==
  ASSUME TypeOK, NEW s \in Sessions
  PROVE  /\ task[s].at \in {"found", "accepted"} => task[s] \in Answering
         /\ task[s].at = "granted" => task[s] \in Granted
         /\ task[s].at = "activating" => task[s] \in Activating
         /\ task[s].at = "locking" => task[s] \in Locking
         /\ task[s].at = "holding" => task[s] \in Holding
         /\ task[s].at = "rotating" => task[s] \in Rotating
         /\ task[s].at = "closing" => task[s] \in Closing
<1>1. task[s] \in Tasks
  BY DEF TypeOK
<1>2. /\ Idle.at = "idle" /\ [at |-> "connecting"].at = "connecting"
      /\ \A x \in Answering : x.at \in {"found", "accepted"}
      /\ \A x \in Granted : x.at = "granted"
      /\ \A x \in Activating : x.at = "activating"
      /\ \A x \in Locking : x.at = "locking"
      /\ \A x \in Holding : x.at = "holding"
      /\ \A x \in Rotating : x.at = "rotating"
      /\ \A x \in Closing : x.at = "closing"
  BY Zenon DEF Idle, Answering, Granted, Activating, Locking, Holding, Rotating, Closing
<1> QED
  BY <1>1, <1>2 DEF Tasks

(* The newest row of a set of rows is one of them.                          *)
LEMMA NewestIsThere ==
  ASSUME NEW S, S # {}, \A i \in S : rows[i].born \in 0..MaxInserts
  PROVE  Newest(S) \in S
<1> DEFINE T == {MaxInserts - rows[i].born : i \in S}
<1>0. MaxInserts \in Nat
  BY IntentAssumption
<1>1. T \subseteq Nat /\ T # {}
  <2>1. \A i \in S : MaxInserts - rows[i].born \in Nat
    BY <1>0
  <2>2. PICK i \in S : TRUE
    BY Zenon
  <2>3. MaxInserts - rows[i].born \in T
    BY <2>2
  <2> QED
    BY <2>1, <2>3
<1>2. PICK d \in T : \A e \in T : ~(<<e, d>> \in OpToRel(<, Nat))
  BY <1>1, NatLessThanWellFounded, WFMin, Zenon
<1>3. \A e \in T : ~(e < d)
  BY <1>1, <1>2, Zenon DEF OpToRel
<1>4. PICK m \in S : d = MaxInserts - rows[m].born
  OBVIOUS
<1>5. ASSUME NEW i \in S PROVE rows[m].born >= rows[i].born
  <2>1. MaxInserts - rows[i].born \in T
    OBVIOUS
  <2>2. ~(MaxInserts - rows[i].born < MaxInserts - rows[m].born)
    BY <2>1, <1>3, <1>4, Zenon
  <2>3. rows[i].born \in Int /\ rows[m].born \in Int
    BY <1>0
  <2> HIDE DEF T
  <2> QED
    BY <1>0, <2>2, <2>3
<1> QED
  BY <1>5, Zenon DEF Newest

(* Inserting a row leaves the earlier ones alone.                           *)
LEMMA AppendedRow ==
  ASSUME NEW rs \in Seq(Credential), NEW c \in Credential
  PROVE  /\ Append(rs, c) \in Seq(Credential)
         /\ DOMAIN rs = 1..Len(rs) /\ Len(rs) \in Nat
         /\ DOMAIN Append(rs, c) = 1..(Len(rs) + 1) /\ Len(Append(rs, c)) = Len(rs) + 1
         /\ \A i \in DOMAIN rs : Append(rs, c)[i] = rs[i]
         /\ Append(rs, c)[Len(rs) + 1] = c
<1> HIDE DEF Credential
<1> QED
  OBVIOUS

(* Expiring the active rows touches nothing but their status.               *)
LEMMA ExpiredRows ==
  ASSUME NEW rs \in Seq(Credential)
  PROVE  /\ ExpireActive(rs) \in Seq(Credential)
         /\ Len(ExpireActive(rs)) = Len(rs) /\ DOMAIN ExpireActive(rs) = DOMAIN rs
         /\ \A i \in DOMAIN rs : /\ ExpireActive(rs)[i].status # "active"
                                 /\ ExpireActive(rs)[i].token = rs[i].token
                                 /\ ExpireActive(rs)[i].intent = rs[i].intent
<1>1. Len(rs) \in Nat /\ DOMAIN rs = 1..Len(rs) /\ \A i \in DOMAIN rs : rs[i] \in Credential
  OBVIOUS
<1>2. \A i \in DOMAIN rs :
        /\ ExpireActive(rs)[i] \in Credential
        /\ ExpireActive(rs)[i].status # "active"
        /\ ExpireActive(rs)[i].token = rs[i].token
        /\ ExpireActive(rs)[i].intent = rs[i].intent
  BY <1>1 DEF ExpireActive, Credential
<1>3. DOMAIN ExpireActive(rs) = 1..Len(rs) /\ ExpireActive(rs) = [i \in 1..Len(rs) |-> ExpireActive(rs)[i]]
  BY <1>1 DEF ExpireActive
<1>4. ExpireActive(rs) \in Seq(Credential) /\ Len(ExpireActive(rs)) = Len(rs)
  <2> DEFINE e == ExpireActive(rs)
  <2> HIDE DEF e, Credential
  <2> QED
    BY <1>1, <1>2, <1>3
<1> QED
  BY <1>1, <1>2, <1>3, <1>4

-----------------------------------------------------------------------------
(* A session's step leaves the others' tasks alone.                         *)
LEMMA OwnTaskOnly ==
  ASSUME TypeOK, NEW s \in Sessions, NEW x \in Tasks, Become(s, x)
  PROVE  /\ task' \in [Sessions -> Tasks]
         /\ task'[s] = x /\ \A t \in Sessions \ {s} : task'[t] = task[t]
  BY DEF TypeOK, Become

(* The empty tables are typed.                                              *)
LEMMA InitTyped == Init => TypeOK
  BY IntentAssumption DEF Init, TypeOK, Tasks

(* What a token answer leaves at the provider.                              *)
LEMMA MintTyped ==
  ASSUME TypeOK, NEW fresh \in 0..MaxTokens, Mint(fresh)
  PROVE  /\ minted' \in 0..MaxTokens /\ minted <= minted' /\ fresh \in 0..minted'
         /\ fresh # Blank => fresh = minted + 1
  BY IntentAssumption DEF TypeOK, Mint, Blank

(* The next task of every step is a task.                                   *)
LEMMA NextTasks ==
  ASSUME TypeOK, NEW s \in Sessions
  PROVE  /\ Idle \in Tasks /\ [at |-> "connecting"] \in Tasks
         /\ \A i \in Intents, a \in {"found", "accepted"} : [at |-> a, intent |-> i] \in Tasks
         /\ \A i \in Intents, f \in 0..MaxTokens, c \in BOOLEAN, b \in 0..MaxInserts :
              [at |-> "granted", intent |-> i, token |-> f, complete |-> c, born |-> b] \in Tasks
         /\ \A op \in {"refresh", "revoke"}, p \in 0..MaxTokens :
              [at |-> "locking", op |-> op, presented |-> p, snapshot |-> Active] \in Tasks
         /\ \A op \in {"refresh", "revoke"}, p \in 0..MaxTokens, r \in Nat, f \in 0..MaxTokens :
              [at |-> "holding", op |-> op, row |-> r, token |-> f, presented |-> p] \in Tasks
         /\ \A r \in Nat, f, g \in 0..MaxTokens :
              [at |-> "rotating", row |-> r, token |-> f, fresh |-> g] \in Tasks
         /\ \A r \in Nat, f \in 0..MaxTokens, c \in {"replay", "unhonoured", "refused", "request"} :
              [at |-> "closing", row |-> r, token |-> f, cause |-> c] \in Tasks
<1>1. Active \subseteq Nat
  <2>1. DOMAIN rows \subseteq Nat
    BY RowsShape DEF TypeOK
  <2> QED
    BY <2>1 DEF Active
<1> QED
  BY <1>1, ZenonT(30) DEF Tasks, Answering, Granted, Activating, Locking, Holding, Rotating, Closing

(* Each active row is a row, with a token.                                  *)
LEMMA ActiveTyped ==
  ASSUME TypeOK, NEW S, S \subseteq Active, S # {}
  PROVE  /\ Newest(S) \in S /\ Newest(S) \in Nat /\ Newest(S) \in DOMAIN rows
         /\ rows[Newest(S)] \in Credential /\ rows[Newest(S)].token \in 0..MaxTokens
<1>1. Len(rows) \in Nat /\ DOMAIN rows = 1..Len(rows)
        /\ \A i \in DOMAIN rows : rows[i] \in Credential
  BY RowsShape DEF TypeOK
<1>2. S \in SUBSET (1..Len(rows))
  BY <1>1 DEF Active
<1>3. Newest(S) \in S
  <2>1. \A i \in S : rows[i].born \in 0..MaxInserts
    BY <1>1, <1>2 DEF Credential
  <2> QED
    BY <2>1, NewestIsThere, Zenon
<1>4. rows[Newest(S)] \in Credential
  BY <1>1, <1>2, <1>3, Zenon
<1>5. rows[Newest(S)].token \in 0..MaxTokens
  BY <1>4 DEF Credential
<1>6. Newest(S) \in 1..Len(rows)
  BY <1>2, <1>3, Zenon
<1>7. Newest(S) \in Nat
  BY <1>1, <1>6
<1> QED
  BY <1>1, <1>3, <1>4, <1>5, <1>6, <1>7

(* Callback steps keep the types.                                           *)
LEMMA CallbackTyped ==
  ASSUME TypeOK, NEW s \in Sessions, Callback(s)
  PROVE  TypeOK'
<1> USE DEF stored, provider, clock
<1>1. CASE ConsumeIntent(s)
  <2>1. task[s].intent \in Intents
    BY <1>1, TaskShape DEF ConsumeIntent, Answering
  <2>2. task' \in [Sessions -> Tasks]
    BY <1>1, <2>1, NextTasks, OwnTaskOnly, Zenon DEF ConsumeIntent
  <2> QED
    BY <1>1, <2>1, <2>2 DEF ConsumeIntent, TypeOK
<1>2. ASSUME NEW fresh \in 0..MaxTokens, NEW complete \in BOOLEAN,
             ExchangeCode(s, fresh, complete)
      PROVE  TypeOK'
  <2>1. task[s].intent \in Intents
    BY <1>2, TaskShape DEF ExchangeCode, Answering
  <2>8. Unborn \in 0..MaxInserts
    BY IntentAssumption DEF Unborn
  <2>2. task' \in [Sessions -> Tasks]
    BY <1>2, <2>1, <2>8, NextTasks, OwnTaskOnly DEF ExchangeCode
  <2>3. minted' \in 0..MaxTokens /\ minted <= minted' /\ fresh \in 0..minted'
    BY <1>2, MintTyped DEF ExchangeCode
  <2>4. minted \in Nat /\ minted' \in Nat /\ live \subseteq 1..minted
    BY <2>3, IntentAssumption DEF TypeOK
  <2>5. live \subseteq 1..minted'
    BY <2>3, <2>4
  <2>6. fresh # Blank => fresh \in 1..minted'
    BY <2>3, <2>4 DEF Blank
  <2>7. live' \subseteq 1..minted' /\ spoiled' = spoiled
    BY <1>2, <2>5, <2>6, Zenon DEF ExchangeCode
  <2> QED
    BY <1>2, <2>2, <2>3, <2>7 DEF ExchangeCode, TypeOK
<1>3. CASE RecordRefusedGrant(s) \/ InsertCredential(s)
  <2>1. /\ task[s].intent \in Intents /\ task[s].token \in 0..MaxTokens
        /\ task[s].born \in 0..MaxInserts /\ Unborn \in 0..MaxInserts
    BY <1>3, TaskShape, IntentAssumption DEF RecordRefusedGrant, InsertCredential, Granted, Unborn
  <2>2. task' \in [Sessions -> Tasks]
    BY <1>3, NextTasks, OwnTaskOnly DEF RecordRefusedGrant, InsertCredential
  <2>3. \A st \in {"active", "expired"}, f \in 0..MaxTokens, b \in 0..MaxInserts :
          Row(st, f, task[s].intent, b) \in Credential
    BY <2>1, IntentAssumption DEF Row, Credential, Blank
  <2>4. rows \in Seq(Credential) /\ Blank \in 0..MaxTokens
    BY IntentAssumption DEF TypeOK, Blank
  <2>6. PICK c \in Credential : rows' = Append(rows, c)
    BY <1>3, <2>1, <2>3, <2>4 DEF RecordRefusedGrant, InsertCredential
  <2>5. rows' \in Seq(Credential)
    BY <2>4, <2>6, AppendedRow
  <2> QED
    BY <1>3, <2>2, <2>5, Zenon DEF RecordRefusedGrant, InsertCredential, TypeOK
<1>4. CASE SetConnected(s)
  BY <1>4, NextTasks, OwnTaskOnly DEF SetConnected, TypeOK
<1>5. ASSUME NEW matches \in BOOLEAN, LockAccount(s, matches) PROVE TypeOK'
  <2>1. task[s] \in Granted
    BY <1>5, TaskShape DEF LockAccount
  <2>2. task' \in [Sessions -> Tasks]
    BY <1>5, <2>1, Zenon DEF LockAccount, TypeOK, Granted, Activating, Tasks, Intents
  <2> QED
    BY <1>5, <2>2 DEF LockAccount, TypeOK
<1>6. CASE Activate(s)
  <2>1. /\ task[s].intent \in Intents /\ task[s].token \in 0..MaxTokens
        /\ task[s].born \in 0..MaxInserts
    BY <1>6, TaskShape, Zenon DEF Activate, Activating, Intents
  <2>2. task' \in [Sessions -> Tasks]
    BY <1>6, NextTasks, OwnTaskOnly DEF Activate
  <2>3. Row("active", task[s].token, task[s].intent, task[s].born) \in Credential
    BY <2>1, IntentAssumption DEF Row, Credential, Blank
  <2>4. rows' \in Seq(Credential)
    BY <1>6, <2>3, ExpiredRows, AppendedRow DEF Activate, TypeOK
  <2>5. authority' \in WriteIntents \cup {None}
    BY <1>6, TaskShape, Zenon DEF Activate, Activating
  <2> QED
    BY <1>6, <2>2, <2>4, <2>5 DEF Activate, TypeOK
<1>7. CASE BeginInsert(s)
  <2>1. task[s] \in Granted
    BY <1>7, TaskShape DEF BeginInsert
  <2>2. begun' \in 0..MaxInserts /\ begun' = begun + 1
    BY <1>7, IntentAssumption DEF BeginInsert, TypeOK
  <2>3. task' = [task EXCEPT ![s] = [@ EXCEPT !.born = begun']]
    BY <1>7, <2>2 DEF BeginInsert
  <2>4. [task[s] EXCEPT !.born = begun'] \in Granted
    BY <2>1, <2>2 DEF Granted
  <2>5. task' \in [Sessions -> Tasks]
    BY <2>3, <2>4, Zenon DEF TypeOK, Tasks
  <2> QED
    BY <1>7, <2>2, <2>5 DEF BeginInsert, TypeOK
<1> QED
  BY <1>1, <1>2, <1>3, <1>4, <1>5, <1>6, <1>7 DEF Callback

-----------------------------------------------------------------------------
(* Writing one row leaves the others alone.                                 *)
LEMMA ChangedRow ==
  ASSUME NEW rs \in Seq(Credential), NEW r \in DOMAIN rs, NEW c \in Credential
  PROVE  /\ [rs EXCEPT ![r] = c] \in Seq(Credential)
         /\ DOMAIN [rs EXCEPT ![r] = c] = DOMAIN rs
         /\ [rs EXCEPT ![r] = c][r] = c
         /\ \A i \in DOMAIN rs \ {r} : [rs EXCEPT ![r] = c][i] = rs[i]
<1>1. r \in 1..Len(rs) /\ DOMAIN rs = 1..Len(rs)
  BY RowsShape
<1> QED
  BY <1>1

(* What a holder of a row knows of it.                                      *)
LEMMA HeldRow ==
  ASSUME TypeOK, LocksHold, NEW s \in Sessions, HoldsRow(s)
  PROVE  /\ task[s].row \in DOMAIN rows /\ task[s].row \in Nat
         /\ rows[task[s].row] \in Credential
         /\ rows[task[s].row].status = "active" /\ task[s].row \in Active
         /\ rows[task[s].row].token = task[s].token /\ task[s].token \in 0..MaxTokens
<1>1. task[s].row \in Active /\ rows[task[s].row].token = task[s].token
  BY DEF LocksHold
<1>2. task[s].row \in DOMAIN rows /\ rows[task[s].row].status = "active"
  BY <1>1 DEF Active
<1>3. rows[task[s].row] \in Credential /\ task[s].row \in Nat
  BY <1>2, RowsShape DEF TypeOK
<1>4. rows[task[s].row].token \in 0..MaxTokens
  BY <1>3 DEF Credential
<1> QED
  BY <1>1, <1>2, <1>3, <1>4

(* The row a rotation writes, and the one a closing writes.                 *)
Rotated(c, fresh) == [c EXCEPT !.token = fresh, !.superseded = c.token]
Closed(c, cause) ==
  IF cause \in {"replay", "request"} THEN [c EXCEPT !.status = "revoked", !.token = Blank]
  ELSE [c EXCEPT !.status = "expired"]

(* A rotation changes the tokens of a row and nothing else.                 *)
LEMMA RotatedTyped ==
  ASSUME NEW c \in Credential, NEW fresh \in 0..MaxTokens
  PROVE  /\ Rotated(c, fresh) \in Credential
         /\ Rotated(c, fresh).token = fresh
         /\ Rotated(c, fresh).status = c.status /\ Rotated(c, fresh).intent = c.intent
  BY Zenon DEF Rotated, Credential

(* A closed row is not active and keeps its intent.                         *)
LEMMA ClosedTyped ==
  ASSUME NEW c \in Credential, NEW cause
  PROVE  /\ Closed(c, cause) \in Credential
         /\ Closed(c, cause).token \in {Blank, c.token}
         /\ Closed(c, cause).status # "active" /\ Closed(c, cause).intent = c.intent
<1>1. CASE cause \in {"replay", "request"}
  <2> DEFINE d == [c EXCEPT !.status = "revoked", !.token = 0]
  <2>1. 0 \in 0..MaxTokens
    BY IntentAssumption
  <2>2. d \in Credential /\ d.token = 0 /\ d.status = "revoked" /\ d.intent = c.intent
    BY <2>1, Zenon DEF Credential
  <2> QED
    BY <1>1, <2>2 DEF Closed, Blank
<1>2. CASE cause \notin {"replay", "request"}
  <2> DEFINE d == [c EXCEPT !.status = "expired"]
  <2>1. d \in Credential /\ d.token = c.token /\ d.status = "expired" /\ d.intent = c.intent
    BY DEF Credential
  <2> QED
    BY <1>2, <2>1 DEF Closed
<1> QED
  BY <1>1, <1>2

(* rotate_guarded_tx finds the row active, as the lock was kept.            *)
LEMMA RotateWrites ==
  ASSUME TypeOK, LocksHold, NEW s \in Sessions, Rotate(s)
  PROVE  rows' = [rows EXCEPT ![task[s].row] = Rotated(rows[task[s].row], task[s].fresh)]
<1>1. HoldsRow(s)
  BY DEF Rotate, HoldsRow
<1>2. /\ task[s].row \in DOMAIN rows /\ rows[task[s].row].status = "active"
      /\ rows[task[s].row].token = task[s].token
  BY <1>1, HeldRow
<1> QED
  BY <1>2, Zenon DEF Rotate, Rotated

(* The closing writes the row it holds.                                     *)
LEMMA CloseWrites ==
  ASSUME TypeOK, LocksHold, NEW s \in Sessions, CloseCredential(s)
  PROVE  rows' = [rows EXCEPT ![task[s].row] = Closed(rows[task[s].row], task[s].cause)]
  BY DEF CloseCredential, Closed

(* Refresh and revocation keep the types.                                   *)
LEMMA MaintenanceTyped ==
  ASSUME TypeOK, LocksHold, NEW s \in Sessions, Maintenance(s)
  PROVE  TypeOK'
<1> USE DEF stored, provider, clock
<1>0. /\ task[s].at = "holding" => HoldsRow(s) /\ task[s] \in Holding
      /\ task[s].at = "rotating" => HoldsRow(s)
      /\ task[s].at = "closing" => HoldsRow(s)
  BY TaskShape DEF HoldsRow
<1>1. HoldsRow(s) => /\ task[s].row \in DOMAIN rows /\ task[s].row \in Nat
                     /\ task[s].token \in 0..MaxTokens
  BY HeldRow
<1>7. rows \in Seq(Credential)
  BY DEF TypeOK
<1>2. CASE RefuseToken(s) \/ RefreshRejected(s) \/ RefreshRefused(s)
  <2>1. task' \in [Sessions -> Tasks]
    BY <1>0, <1>1, <1>2, NextTasks, OwnTaskOnly, Zenon
       DEF RefuseToken, RefreshRejected, RefreshRefused, Refreshes, Close
  <2> QED
    BY <1>2, <2>1, Zenon DEF RefuseToken, RefreshRejected, RefreshRefused, TypeOK
<1>3. ASSUME NEW fresh \in 0..MaxTokens, RefreshAnswered(s, fresh) PROVE TypeOK'
  <2>1. task' \in [Sessions -> Tasks]
    BY <1>0, <1>1, <1>3, NextTasks, OwnTaskOnly DEF RefreshAnswered, Refreshes
  <2>2. minted' \in 0..MaxTokens /\ minted <= minted' /\ fresh \in 0..minted'
    BY <1>3, MintTyped DEF RefreshAnswered
  <2>3. minted \in Nat /\ minted' \in Nat /\ live \subseteq 1..minted
    BY <2>2, IntentAssumption DEF TypeOK
  <2>4. live \subseteq 1..minted'
    BY <2>2, <2>3
  <2>5. fresh # Blank => fresh \in 1..minted'
    BY <2>2, <2>3 DEF Blank
  <2>6. live' \subseteq 1..minted'
    BY <1>3, <2>4, <2>5, Zenon DEF RefreshAnswered
  <2>7. spoiled' = spoiled
    BY <1>3 DEF RefreshAnswered
  <2> QED
    BY <1>3, <2>1, <2>2, <2>6, <2>7 DEF RefreshAnswered, TypeOK
<1>4. CASE Rotate(s)
  <2>1. task' \in [Sessions -> Tasks]
    BY <1>4, NextTasks, OwnTaskOnly DEF Rotate
  <2>2. HoldsRow(s) /\ task[s].fresh \in 0..MaxTokens
    BY <1>0, <1>4, TaskShape DEF Rotate, Rotating
  <2>3. Rotated(rows[task[s].row], task[s].fresh) \in Credential
    BY <2>2, HeldRow, RotatedTyped
  <2>4. rows' \in Seq(Credential)
    BY <1>1, <1>4, <1>7, <2>2, <2>3, RotateWrites, ChangedRow
  <2> QED
    BY <1>4, <2>1, <2>4 DEF Rotate, TypeOK
<1>5. CASE RevokeAnswered(s)
  <2>1. task' \in [Sessions -> Tasks]
    BY <1>0, <1>1, <1>5, NextTasks, OwnTaskOnly, Zenon DEF RevokeAnswered, Close
  <2>2. live' \subseteq 1..minted' /\ spoiled' \subseteq 0..MaxTokens
    BY <1>0, <1>1, <1>5, Zenon DEF RevokeAnswered, TypeOK
  <2> QED
    BY <1>5, <2>1, <2>2 DEF RevokeAnswered, TypeOK
<1>6. CASE CloseCredential(s)
  <2>1. task' \in [Sessions -> Tasks]
    BY <1>6, NextTasks, OwnTaskOnly DEF CloseCredential
  <2>2. HoldsRow(s)
    BY <1>0, <1>6 DEF CloseCredential
  <2>3. Closed(rows[task[s].row], task[s].cause) \in Credential
    BY <2>2, HeldRow, ClosedTyped
  <2>4. rows' \in Seq(Credential)
    BY <1>1, <1>6, <1>7, <2>2, <2>3, CloseWrites, ChangedRow
  <2> QED
    BY <1>6, <2>1, <2>4 DEF CloseCredential, TypeOK
<1> QED
  BY <1>2, <1>3, <1>4, <1>5, <1>6 DEF Maintenance

(* An abandoned flow leaves its tables as they were.                        *)
LEMMA AbandonTyped ==
  ASSUME TypeOK, LocksHold, NEW s \in Sessions, Abandon(s)
  PROVE  TypeOK'
<1>1. task' \in [Sessions -> Tasks]
  BY NextTasks, OwnTaskOnly DEF Abandon
<1>2. spoiled' \subseteq 0..MaxTokens
  BY HeldRow, Zenon DEF Abandon, HoldsRow, TypeOK
<1> QED
  BY <1>1, <1>2 DEF Abandon, TypeOK, stored, clock

(* A lock request keeps the types: the newest row it sees is a row.         *)
LEMMA LockingTyped ==
  ASSUME TypeOK, NEW s \in Sessions,
         \/ \E op \in {"refresh", "revoke"}, p \in 0..minted : LockActive(s, op, p)
         \/ EndWait(s)
  PROVE  TypeOK'
<1> SUFFICES task' \in [Sessions -> Tasks]
  BY Zenon DEF LockActive, EndWait, stored, provider, clock, TypeOK
<1>1. ASSUME NEW op \in {"refresh", "revoke"}, NEW p \in 0..MaxTokens, NEW S,
             S \subseteq Active, S # {}, Hold(s, op, p, Newest(S))
      PROVE  task' \in [Sessions -> Tasks]
  BY <1>1, ActiveTyped, NextTasks, OwnTaskOnly DEF Hold
<1>2. ASSUME NEW op \in {"refresh", "revoke"}, NEW p \in 0..minted, LockActive(s, op, p)
      PROVE  task' \in [Sessions -> Tasks]
  <2>1. p \in 0..MaxTokens
    BY IntentAssumption DEF TypeOK
  <2>2. CASE Hold(s, op, p, Newest(Active))
    BY <1>1, <1>2, <2>1, <2>2 DEF LockActive
  <2>3. CASE Become(s, [at |-> "locking", op |-> op, presented |-> p, snapshot |-> Active])
    BY <2>1, <2>3, NextTasks, OwnTaskOnly
  <2> QED
    BY <1>2, <2>2, <2>3 DEF LockActive
<1>3. CASE EndWait(s)
  <2> DEFINE seen == task[s].snapshot \cap Active
  <2>1. task[s].op \in {"refresh", "revoke"} /\ task[s].presented \in 0..MaxTokens
    BY <1>3, TaskShape DEF EndWait, Locking
  <2>2. CASE seen = {}
    BY <1>3, <2>2, NextTasks, OwnTaskOnly DEF EndWait
  <2>3. CASE seen # {}
    BY <1>1, <1>3, <2>1, <2>3 DEF EndWait
  <2> QED
    BY <2>2, <2>3
<1> QED
  BY <1>2, <1>3

(* Every step keeps the types.                                              *)
LEMMA NextTyped ==
  ASSUME TypeOK, LocksHold, [Next]_vars
  PROVE  TypeOK'
<1>1. CASE UNCHANGED vars
  BY <1>1 DEF vars, TypeOK
<1>2. ASSUME NEW i \in Intents, ExpireIntent(i) PROVE TypeOK'
  BY <1>2 DEF ExpireIntent, stored, provider, TypeOK
<1>3. ASSUME NEW s \in Sessions, NEW i \in Intents, FindIntent(s, i) PROVE TypeOK'
  <2>1. task' \in [Sessions -> Tasks]
    BY <1>3, NextTasks, OwnTaskOnly, Zenon DEF FindIntent
  <2> QED
    BY <1>3, <2>1 DEF FindIntent, stored, provider, clock, TypeOK
<1> QED
  BY <1>1, <1>2, <1>3, CallbackTyped, MaintenanceTyped, AbandonTyped, LockingTyped
     DEF Next, Fail, BreakDeadlock

-----------------------------------------------------------------------------
(* What the three inserts write.                                            *)
Inserts(s) == RecordRefusedGrant(s) \/ InsertCredential(s) \/ Activate(s)

(* They append one row; activate expires the others.                        *)
LEMMA InsertWrites ==
  ASSUME TypeOK, NEW s \in Sessions, Inserts(s)
  PROVE  /\ Len(rows) \in Nat /\ DOMAIN rows = 1..Len(rows)
         /\ DOMAIN rows' = 1..(Len(rows) + 1) /\ Len(rows') = Len(rows) + 1
         /\ \A r \in DOMAIN rows : /\ rows'[r].intent = rows[r].intent
                                   /\ rows'[r].token = rows[r].token
         /\ rows'[Len(rows) + 1].intent = task[s].intent
         /\ IF RecordRefusedGrant(s) THEN /\ rows'[Len(rows) + 1].status = "expired"
                                           /\ rows'[Len(rows) + 1].token = Blank
            ELSE /\ rows'[Len(rows) + 1].status = "active"
                 /\ rows'[Len(rows) + 1].token = task[s].token
         /\ IF Activate(s) THEN \A r \in DOMAIN rows : rows'[r].status # "active"
            ELSE \A r \in DOMAIN rows : rows'[r] = rows[r]
<1>1. /\ task[s].intent \in Intents /\ task[s].token \in 0..MaxTokens
      /\ task[s].born \in 0..MaxInserts
  BY TaskShape, Zenon DEF Inserts, RecordRefusedGrant, InsertCredential, Activate, Granted, Activating, Intents
<1>2. rows \in Seq(Credential) /\ Blank \in 0..MaxTokens /\ Unborn \in 0..MaxInserts
  BY IntentAssumption DEF TypeOK, Blank, Unborn
<1>3. \A st \in {"active", "expired"}, f \in 0..MaxTokens, b \in 0..MaxInserts :
        /\ Row(st, f, task[s].intent, b) \in Credential
        /\ Row(st, f, task[s].intent, b).status = st /\ Row(st, f, task[s].intent, b).token = f
        /\ Row(st, f, task[s].intent, b).intent = task[s].intent
  BY <1>1, <1>2 DEF Row, Credential
<1>4. CASE RecordRefusedGrant(s)
  <2> DEFINE c == Row("expired", Blank, task[s].intent, Unborn)
  <2>1. c \in Credential /\ c.status = "expired" /\ c.token = Blank /\ c.intent = task[s].intent
    BY <1>2, <1>3
  <2>2. rows' = Append(rows, c) /\ ~Activate(s)
    BY <1>4 DEF RecordRefusedGrant, Activate
  <2> HIDE DEF c
  <2> QED
    BY <1>2, <1>4, <2>1, <2>2, AppendedRow
<1>5. CASE InsertCredential(s)
  <2> DEFINE c == Row("active", task[s].token, task[s].intent, task[s].born)
  <2>1. c \in Credential /\ c.status = "active" /\ c.token = task[s].token /\ c.intent = task[s].intent
    BY <1>1, <1>3
  <2>2. rows' = Append(rows, c) /\ ~Activate(s) /\ ~RecordRefusedGrant(s)
    BY <1>5 DEF RecordRefusedGrant, InsertCredential, Activate
  <2> HIDE DEF c
  <2> QED
    BY <1>2, <1>5, <2>1, <2>2, AppendedRow
<1>6. CASE Activate(s)
  <2> DEFINE c == Row("active", task[s].token, task[s].intent, task[s].born)
             e == ExpireActive(rows)
  <2>1. c \in Credential /\ c.status = "active" /\ c.token = task[s].token /\ c.intent = task[s].intent
    BY <1>1, <1>3
  <2>2. rows' = Append(e, c) /\ ~RecordRefusedGrant(s)
    BY <1>6 DEF RecordRefusedGrant, Activate
  <2>3. /\ e \in Seq(Credential) /\ Len(e) = Len(rows) /\ DOMAIN e = DOMAIN rows
        /\ \A i \in DOMAIN rows : /\ e[i].status # "active" /\ e[i].token = rows[i].token
                                  /\ e[i].intent = rows[i].intent
    BY <1>2, ExpiredRows
  <2> HIDE DEF c, e
  <2> QED
    BY <1>6, <2>1, <2>2, <2>3, AppendedRow
<1> QED
  BY <1>4, <1>5, <1>6 DEF Inserts

(* What Rotate and CloseCredential write: one row, and never its intent.    *)
Rewrites(s) == Rotate(s) \/ CloseCredential(s)

(* The lock is held until the write.                                        *)
LEMMA RewriteWrites ==
  ASSUME TypeOK, LocksHold, NEW s \in Sessions, Rewrites(s)
  PROVE  /\ HoldsRow(s) /\ DOMAIN rows' = DOMAIN rows /\ Len(rows') = Len(rows)
         /\ \A r \in DOMAIN rows : rows'[r].intent = rows[r].intent
         /\ \A r \in DOMAIN rows \ {task[s].row} : rows'[r] = rows[r]
         /\ IF Rotate(s) THEN /\ rows'[task[s].row].status = "active"
                               /\ rows'[task[s].row].token = task[s].fresh
            ELSE /\ rows'[task[s].row].status # "active"
                 /\ rows'[task[s].row].token \in {Blank, task[s].token}
<1>1. HoldsRow(s)
  BY DEF Rewrites, Rotate, CloseCredential, HoldsRow
<1>2. /\ task[s].row \in DOMAIN rows /\ rows[task[s].row] \in Credential
      /\ rows[task[s].row].status = "active" /\ rows[task[s].row].token = task[s].token
  BY <1>1, HeldRow
<1>3. rows \in Seq(Credential)
  BY Zenon DEF TypeOK
<1>4. CASE Rotate(s)
  <2>1. task[s].fresh \in 0..MaxTokens
    BY <1>4, TaskShape DEF Rotate, Rotating
  <2> DEFINE c == Rotated(rows[task[s].row], task[s].fresh)
  <2>2. /\ c \in Credential /\ c.token = task[s].fresh /\ c.status = "active"
        /\ c.intent = rows[task[s].row].intent
    BY <1>2, <2>1, RotatedTyped
  <2>3. rows' = [rows EXCEPT ![task[s].row] = c]
    BY <1>4, RotateWrites
  <2> HIDE DEF c
  <2>4. rows' \in Seq(Credential) /\ DOMAIN rows' = DOMAIN rows /\ rows'[task[s].row] = c
          /\ \A r \in DOMAIN rows \ {task[s].row} : rows'[r] = rows[r]
    BY <1>2, <1>3, <2>2, <2>3, ChangedRow
  <2>5. Len(rows') = Len(rows)
    BY <1>3, <2>4, RowsShape, SMTT(30)
  <2> QED
    BY <1>1, <1>4, <2>2, <2>4, <2>5
<1>5. CASE CloseCredential(s)
  <2> DEFINE c == Closed(rows[task[s].row], task[s].cause)
  <2>1. /\ c \in Credential /\ c.token \in {Blank, task[s].token} /\ c.status # "active"
        /\ c.intent = rows[task[s].row].intent
    BY <1>2, ClosedTyped
  <2>2. rows' = [rows EXCEPT ![task[s].row] = c] /\ ~Rotate(s)
    BY <1>5, CloseWrites, Zenon DEF Rotate, CloseCredential
  <2> HIDE DEF c
  <2>3. rows' \in Seq(Credential) /\ DOMAIN rows' = DOMAIN rows /\ rows'[task[s].row] = c
          /\ \A r \in DOMAIN rows \ {task[s].row} : rows'[r] = rows[r]
    BY <1>2, <1>3, <2>1, <2>2, ChangedRow
  <2>4. Len(rows') = Len(rows)
    BY <1>3, <2>3, RowsShape
  <2> QED
    BY <1>1, <2>1, <2>2, <2>3, <2>4, Zenon
<1> QED
  BY <1>4, <1>5 DEF Rewrites

(* A session's step leaves the others' tasks alone, whatever it becomes.    *)
LEMMA OthersKept ==
  ASSUME TypeOK, NEW s \in Sessions, NEW x, Become(s, x)
  PROVE  task'[s] = x /\ \A t \in Sessions \ {s} : task'[t] = task[t]
  BY DEF TypeOK, Become

-----------------------------------------------------------------------------

Custody == LocksHold /\ TokensDiffer /\ TokensHonoured /\ TokensMinted

(* A session's step leaves what the others hold alone.                      *)
Others(s) == \A t \in Sessions \ {s} : task'[t] = task[t]

(* Their locks and tokens in hand follow from their tasks.                  *)
LEMMA OthersHold ==
  ASSUME NEW s \in Sessions, Others(s)
  PROVE  \A t \in Sessions \ {s} : HoldsRow(t)' = HoldsRow(t) /\ InHand(t)' = InHand(t)
  BY DEF Others, HoldsRow, InHand

(* A step in which the session takes nothing: it holds no row afterwards,   *)
(* and a rotation it gave up is spoiled.                                    *)
LEMMA TakesNothing ==
  ASSUME TypeOK, Custody, NEW s \in Sessions, Others(s), rows' = rows, minted' = minted, live' = live,
         spoiled \subseteq spoiled', task[s].at = "rotating" => task[s].token \in spoiled',
         ~HoldsRow(s)', InHand(s)' \in {InHand(s), Blank}
  PROVE  Custody'
<1>0. \A t \in Sessions \ {s} : HoldsRow(t)' = HoldsRow(t) /\ InHand(t)' = InHand(t)
                               /\ task'[t] = task[t]
  BY OthersHold DEF Others
<1>1. Active' = Active
  BY DEF Active
<1>2. LocksHold'
  BY <1>0, <1>1 DEF Custody, LocksHold
<1>3. TokensDiffer'
  BY <1>0, <1>1 DEF Custody, TokensDiffer
<1>4. TokensHonoured'
  <2>1. \A t : Honoured(t) => Honoured(t)'
    BY DEF Honoured
  <2>2. \A i \in Active : \/ Honoured(rows[i].token)'
                         \/ \E t \in Sessions : task'[t].at = "rotating" /\ task'[t].row = i
    <3> SUFFICES ASSUME NEW i \in Active, ~Honoured(rows[i].token)
                 PROVE  \/ Honoured(rows[i].token)'
                        \/ \E t \in Sessions : task'[t].at = "rotating" /\ task'[t].row = i
      BY <2>1
    <3>1. PICK t \in Sessions : task[t].at = "rotating" /\ task[t].row = i
      BY DEF Custody, TokensHonoured
    <3>2. CASE t = s
      BY <3>1, <3>2 DEF Custody, LocksHold, HoldsRow, Honoured
    <3>3. CASE t # s
      BY <1>0, <3>1, <3>3
    <3> QED
      BY <3>2, <3>3
  <2>3. \A t \in Sessions : Honoured(InHand(t))'
    BY <1>0, <2>1 DEF Custody, TokensHonoured, Honoured
  <2>4. \A t \in Sessions : task'[t].at = "closing" /\ task'[t].cause = "unhonoured" =>
          task'[t].token \in spoiled' \cup {Blank}
    BY <1>0 DEF Custody, TokensHonoured, HoldsRow
  <2> QED
    BY <1>1, <2>2, <2>3, <2>4 DEF TokensHonoured, Honoured
<1>5. TokensMinted'
  <2>1. Blank \in 0..minted
    BY IntentAssumption DEF TypeOK, Blank
  <2> QED
    BY <1>0, <2>1 DEF Custody, TokensMinted
<1> QED
  BY <1>2, <1>3, <1>4, <1>5 DEF Custody

(* A session that takes the row lock is the only one to hold it.            *)
LEMMA HoldKeeps ==
  ASSUME TypeOK, Custody, NEW s \in Sessions, ~HoldsRow(s), NEW op, NEW p, NEW i \in Active,
         RowFree(i), Hold(s, op, p, i), InHand(s) = Blank,
         rows' = rows, minted' = minted, live' = live, spoiled' = spoiled
  PROVE  Custody'
<1>0. /\ \A t \in Sessions \ {s} : HoldsRow(t)' = HoldsRow(t) /\ InHand(t)' = InHand(t)
                                  /\ task'[t] = task[t]
      /\ task'[s].at = "holding" /\ task'[s].row = i /\ task'[s].token = rows[i].token
  BY OthersKept, OthersHold, SMTT(30) DEF Others, Hold
<1>1. Active' = Active /\ InHand(s)' = Blank
  BY <1>0, Zenon DEF Active, InHand
<1>2. LocksHold'
  BY <1>0, <1>1, SMTT(30) DEF Custody, LocksHold, RowFree, HoldsRow
<1>3. TokensDiffer'
  BY <1>0, <1>1 DEF Custody, TokensDiffer
<1>4. TokensHonoured'
  BY <1>0, <1>1 DEF Custody, TokensHonoured, Honoured, HoldsRow
<1>5. TokensMinted'
  BY <1>0, <1>1, Zenon DEF Custody, TokensMinted
<1> QED
  BY <1>2, <1>3, <1>4, <1>5 DEF Custody

(* A session that turns to closing its row keeps the lock; what the         *)
(* provider no longer honours was spoiled.                                  *)
LEMMA CloseKeeps ==
  ASSUME TypeOK, Custody, NEW s \in Sessions, task[s].at = "holding", NEW cause, Close(s, cause),
         rows' = rows, minted' = minted, spoiled \subseteq spoiled', live \subseteq live' \cup spoiled',
         cause = "unhonoured" => task[s].token \notin live
  PROVE  Custody'
<1>0. /\ \A t \in Sessions \ {s} : HoldsRow(t)' = HoldsRow(t) /\ InHand(t)' = InHand(t)
                                  /\ task'[t] = task[t]
      /\ task'[s] = [at |-> "closing", row |-> task[s].row, token |-> task[s].token, cause |-> cause]
  BY OthersKept, OthersHold DEF Others, Close
<1>1. Active' = Active /\ InHand(s)' = Blank /\ InHand(s) = Blank /\ HoldsRow(s) /\ HoldsRow(s)'
  BY <1>0 DEF Active, InHand, HoldsRow
<1>2. LocksHold'
  BY <1>0, <1>1 DEF Custody, LocksHold
<1>3. TokensDiffer'
  BY <1>0, <1>1 DEF Custody, TokensDiffer
<1>4. TokensHonoured'
  <2>1. \A t : Honoured(t) => Honoured(t)'
    BY DEF Honoured
  <2>2. \A i \in Active : \/ Honoured(rows[i].token)'
                         \/ \E t \in Sessions : task'[t].at = "rotating" /\ task'[t].row = i
    BY <1>0, <2>1 DEF Custody, TokensHonoured
  <2>3. \A t \in Sessions : Honoured(InHand(t))'
    BY <1>0, <1>1, <2>1 DEF Custody, TokensHonoured, Honoured
  <2>4. cause = "unhonoured" => task[s].token \in spoiled' \cup {Blank}
    <3>1. /\ task[s].row \in Active /\ rows[task[s].row].token = task[s].token
          /\ \A t \in Sessions : task[t].at = "rotating" => task[t].row # task[s].row
      BY <1>1 DEF Custody, LocksHold, HoldsRow
    <3>2. Honoured(task[s].token)
      BY <3>1 DEF Custody, TokensHonoured
    <3> QED
      BY <3>2 DEF Honoured
  <2>5. \A t \in Sessions : task'[t].at = "closing" /\ task'[t].cause = "unhonoured" =>
          task'[t].token \in spoiled' \cup {Blank}
    BY <1>0, <2>4, SMTT(30) DEF Custody, TokensHonoured
  <2> QED
    BY <1>1, <2>2, <2>3, <2>5 DEF TokensHonoured, Honoured
<1>5. TokensMinted'
  BY <1>0, <1>1 DEF Custody, TokensMinted
<1> QED
  BY <1>2, <1>3, <1>4, <1>5, Zenon DEF Custody

(* A token no row stores and nobody holds keeps the tokens apart.           *)
LEMMA NewTokenDiffers ==
  ASSUME TokensDiffer, NEW s \in Sessions, NEW fresh,
         rows' = rows, Active' = Active, InHand(s)' = fresh,
         \A t \in Sessions \ {s} : InHand(t)' = InHand(t),
         fresh # Blank => /\ \A i \in Active : rows[i].token # fresh
                          /\ \A t \in Sessions : InHand(t) # fresh
  PROVE  TokensDiffer'
<1>1. \A i, j \in Active' : i # j /\ rows'[i].token # Blank => rows'[i].token # rows'[j].token
  BY Zenon DEF TokensDiffer
<1>2. ASSUME NEW t \in Sessions, NEW i \in Active', InHand(t)' # Blank
      PROVE  InHand(t)' # rows'[i].token
  <2>1. CASE t = s
    BY <1>2, <2>1, Zenon
  <2>2. CASE t # s
    <3>1. InHand(t)' = InHand(t)
      BY <2>2, Zenon
    <3> QED
      BY <1>2, <3>1, Zenon DEF TokensDiffer
  <2> QED
    BY <2>1, <2>2
<1>3. ASSUME NEW t \in Sessions, NEW u \in Sessions, t # u, InHand(t)' # Blank
      PROVE  InHand(t)' # InHand(u)'
  <2>1. CASE t = s
    <3>1. InHand(u)' = InHand(u)
      BY <1>3, <2>1, Zenon
    <3> QED
      BY <1>3, <2>1, <3>1, Zenon
  <2>2. CASE t # s /\ u = s
    <3>1. InHand(t)' = InHand(t) /\ (fresh # Blank => InHand(t) # fresh)
      BY <2>2, Zenon
    <3> QED
      BY <1>3, <2>2, <3>1, Zenon
  <2>3. CASE t # s /\ u # s
    <3>1. InHand(t)' = InHand(t) /\ InHand(u)' = InHand(u)
      BY <2>3, Zenon
    <3> QED
      BY <1>3, <3>1, Zenon DEF TokensDiffer
  <2> QED
    BY <2>1, <2>2, <2>3
<1> QED
  BY <1>1, <1>2, <1>3, Zenon DEF TokensDiffer

(* A token an exchange brings is nobody else's.                             *)
LEMMA ExchangeKeeps ==
  ASSUME TypeOK, Custody, NEW s \in Sessions, NEW fresh \in 0..MaxTokens, NEW complete,
         ExchangeCode(s, fresh, complete)
  PROVE  Custody'
<1>0. /\ \A t \in Sessions \ {s} : HoldsRow(t)' = HoldsRow(t) /\ InHand(t)' = InHand(t)
                                  /\ task'[t] = task[t]
      /\ task'[s].at = "granted" /\ task'[s].token = fresh
  BY OthersKept, OthersHold DEF Others, ExchangeCode
<1>1. rows' = rows /\ spoiled' = spoiled /\ live' = live \cup ({fresh} \ {Blank})
  BY DEF ExchangeCode, stored
<1>2. Active' = Active /\ InHand(s)' = fresh /\ ~HoldsRow(s)' /\ task[s].at = "accepted"
  BY <1>0, <1>1 DEF Active, InHand, HoldsRow, ExchangeCode
<1>3. /\ minted \in Nat /\ minted' \in Nat /\ minted <= minted' /\ fresh \in 0..minted'
      /\ fresh # Blank => fresh \notin 0..minted
  BY MintTyped, IntentAssumption DEF ExchangeCode, TypeOK
<1>4. LocksHold'
  BY <1>0, <1>1, <1>2, ZenonT(30) DEF Custody, LocksHold
<1>5. TokensDiffer'
  <2>1. /\ \A i \in Active : rows[i].token \in 0..minted
        /\ \A t \in Sessions : InHand(t) \in 0..minted
    BY Zenon DEF Custody, TokensMinted, Active
  <2>2. TokensDiffer
    BY Zenon DEF Custody
  <2>3. fresh # Blank => /\ \A i \in Active : rows[i].token # fresh
                         /\ \A t \in Sessions : InHand(t) # fresh
    BY <1>3, <2>1, Zenon
  <2> QED
    BY <1>0, <1>1, <1>2, <2>2, <2>3, NewTokenDiffers, Zenon
<1>6. TokensHonoured'
  <2>1. \A t : Honoured(t) => Honoured(t)'
    BY <1>1 DEF Honoured
  <2>2. \A i \in Active : \/ Honoured(rows[i].token)'
                         \/ \E t \in Sessions : task'[t].at = "rotating" /\ task'[t].row = i
    BY <1>0, <1>1, <1>2, <2>1 DEF Custody, TokensHonoured
  <2>3. Honoured(fresh)'
    BY <1>1 DEF Honoured
  <2>4. ASSUME NEW t \in Sessions PROVE Honoured(InHand(t))'
    <3>1. Honoured(InHand(t))
      BY Zenon DEF Custody, TokensHonoured
    <3>2. CASE t = s
      BY <1>2, <2>3, <3>2 DEF Honoured
    <3>3. CASE t # s
      <4>1. InHand(t)' = InHand(t)
        BY <1>0, <3>3, Zenon
      <4> QED
        BY <2>1, <3>1, <4>1 DEF Honoured
    <3> QED
      BY <3>2, <3>3
  <2>5. \A t \in Sessions : task'[t].at = "closing" /\ task'[t].cause = "unhonoured" =>
          task'[t].token \in spoiled' \cup {Blank}
    BY <1>0, <1>1 DEF Custody, TokensHonoured
  <2> QED
    BY <1>1, <1>2, <2>2, <2>4, <2>5 DEF TokensHonoured, Honoured
<1>7. TokensMinted'
  BY <1>0, <1>1, <1>2, <1>3 DEF Custody, TokensMinted
<1> QED
  BY <1>4, <1>5, <1>6, <1>7, Zenon DEF Custody

(* The token the provider rotates away is on no other row and in no hand.   *)
LEMMA AnswerKeeps ==
  ASSUME TypeOK, Custody, NEW s \in Sessions, NEW fresh \in 0..MaxTokens,
         RefreshAnswered(s, fresh)
  PROVE  Custody'
<1>0. /\ \A t \in Sessions \ {s} : HoldsRow(t)' = HoldsRow(t) /\ InHand(t)' = InHand(t)
                                  /\ task'[t] = task[t]
      /\ task'[s] = [at |-> "rotating", row |-> task[s].row, token |-> task[s].token, fresh |-> fresh]
  BY OthersKept, OthersHold, Zenon DEF Others, RefreshAnswered
<1>1. /\ rows' = rows /\ spoiled' = spoiled
      /\ live' = IF fresh = Blank THEN live ELSE (live \ {task[s].token}) \cup {fresh}
  BY Zenon DEF RefreshAnswered, stored
<1>2. /\ Active' = Active /\ InHand(s)' = fresh /\ HoldsRow(s)' /\ HoldsRow(s)
      /\ task[s].at = "holding"
  BY <1>0, <1>1 DEF Active, InHand, HoldsRow, RefreshAnswered, Refreshes
<1>3. /\ minted \in Nat /\ minted' \in Nat /\ minted <= minted' /\ fresh \in 0..minted'
      /\ fresh # Blank => fresh \notin 0..minted
  BY MintTyped, IntentAssumption, SMTT(30) DEF RefreshAnswered, TypeOK
<1>4. LocksHold'
  <2>1. LocksHold /\ task'[s].row = task[s].row /\ task'[s].token = task[s].token
    BY <1>0 DEF Custody
  <2>2. ASSUME NEW t \in Sessions, HoldsRow(t)'
        PROVE  HoldsRow(t) /\ task'[t].row = task[t].row /\ task'[t].token = task[t].token
    BY <1>0, <1>2, <2>1, <2>2, Zenon
  <2> QED
    BY <1>1, <1>2, <2>1, <2>2 DEF LocksHold
<1>5. TokensDiffer'
  <2>1. /\ \A i \in Active : rows[i].token \in 0..minted
        /\ \A t \in Sessions : InHand(t) \in 0..minted
    BY Zenon DEF Custody, TokensMinted, Active
  <2>2. TokensDiffer
    BY Zenon DEF Custody
  <2>3. fresh # Blank => /\ \A i \in Active : rows[i].token # fresh
                         /\ \A t \in Sessions : InHand(t) # fresh
    BY <1>3, <2>1, Zenon
  <2> QED
    BY <1>0, <1>1, <1>2, <2>2, <2>3, NewTokenDiffers, Zenon
<1>6. TokensHonoured'
  <2>1. /\ task[s].token \in live /\ task[s].token # Blank
        /\ task[s].row \in Active /\ rows[task[s].row].token = task[s].token
    <3>1. task[s].token \in live /\ HoldsRow(s)
      BY <1>2, Zenon DEF RefreshAnswered, Refreshes, HoldsRow
    <3>2. task[s].row \in Active /\ rows[task[s].row].token = task[s].token
      BY <3>1, Zenon DEF Custody, LocksHold
    <3>3. task[s].token # Blank
      BY <3>1 DEF TypeOK, Blank
    <3> QED
      BY <3>1, <3>2, <3>3, Zenon
  <2>2. \A t : Honoured(t) /\ t # task[s].token => Honoured(t)'
    BY <1>1 DEF Honoured
  <2>3. ASSUME NEW i \in Active
        PROVE  \/ Honoured(rows[i].token)'
               \/ \E t \in Sessions : task'[t].at = "rotating" /\ task'[t].row = i
    <3>1. CASE i = task[s].row
      <4>1. task'[s].at = "rotating" /\ task'[s].row = i
        BY <1>0, <3>1
      <4> QED
        BY <4>1, Zenon
    <3>2. CASE i # task[s].row
      <4>1. rows[i].token # task[s].token
        BY <2>1, <3>2, Zenon DEF Custody, TokensDiffer
      <4>2. CASE Honoured(rows[i].token)
        BY <1>1, <2>2, <4>1, <4>2
      <4>3. CASE ~Honoured(rows[i].token)
        BY <1>0, <1>2, <4>3 DEF Custody, TokensHonoured
      <4> QED
        BY <4>2, <4>3
    <3> QED
      BY <3>1, <3>2, ZenonT(30)
  <2>4. \A t \in Sessions : InHand(t) # task[s].token
    BY <2>1 DEF Custody, TokensDiffer
  <2>5. Honoured(fresh)'
    BY <1>1 DEF Honoured
  <2>6. \A t \in Sessions : Honoured(InHand(t))'
    BY <1>0, <1>2, <2>2, <2>4, <2>5, SMTT(30) DEF Custody, TokensHonoured, Honoured
  <2>7. \A t \in Sessions : task'[t].at = "closing" /\ task'[t].cause = "unhonoured" =>
          task'[t].token \in spoiled' \cup {Blank}
    BY <1>0, <1>1, SMTT(30) DEF Custody, TokensHonoured
  <2> QED
    BY <1>1, <1>2, <2>3, <2>6, <2>7, Zenon DEF TokensHonoured, Honoured
<1>7. TokensMinted'
  BY <1>0, <1>1, <1>2, <1>3 DEF Custody, TokensMinted
<1> QED
  BY <1>4, <1>5, <1>6, <1>7, Zenon DEF Custody

(* An insert moves the token in hand to the new row; activate finds no row  *)
(* locked.                                                                  *)
LEMMA InsertKeeps ==
  ASSUME TypeOK, Custody, NEW s \in Sessions, Inserts(s)
  PROVE  Custody'
<1> DEFINE n == Len(rows) + 1
<1>0. \/ Become(s, Idle) \/ Become(s, [at |-> "connecting"])
  BY DEF Inserts, RecordRefusedGrant, InsertCredential, Activate
<1>1. \A t \in Sessions \ {s} : HoldsRow(t)' = HoldsRow(t) /\ InHand(t)' = InHand(t)
                               /\ task'[t] = task[t]
  BY <1>0, OthersKept, OthersHold, Zenon DEF Others
<1>2. /\ InHand(s)' = Blank /\ ~HoldsRow(s)' /\ InHand(s) = task[s].token /\ ~HoldsRow(s)
      /\ task[s].at # "rotating" /\ task'[s].at # "closing"
  BY <1>0, OthersKept
     DEF Inserts, RecordRefusedGrant, InsertCredential, Activate, InHand, HoldsRow, Idle
<1>3. minted' = minted /\ live' = live /\ spoiled' = spoiled
  BY Zenon DEF Inserts, RecordRefusedGrant, InsertCredential, Activate, provider
<1>4. /\ n \notin DOMAIN rows /\ DOMAIN rows' = DOMAIN rows \cup {n}
      /\ \A r \in DOMAIN rows : rows'[r].token = rows[r].token
      /\ rows'[n].token \in {Blank, InHand(s)}
      /\ rows'[n].status = "active" => rows'[n].token = InHand(s)
  <2>1. n \notin DOMAIN rows /\ DOMAIN rows' = DOMAIN rows \cup {n}
    <3>1. Len(rows) \in Nat /\ DOMAIN rows = 1..Len(rows) /\ DOMAIN rows' = 1..n
      BY InsertWrites
    <3>2. n \notin 1..Len(rows) /\ 1..n = 1..Len(rows) \cup {n}
      BY <3>1, SMTT(30)
    <3> QED
      BY <3>1, <3>2, Zenon
  <2>2. \A r \in DOMAIN rows : rows'[r].token = rows[r].token
    BY InsertWrites
  <2> HIDE DEF n
  <2>3. \/ rows'[n].status = "expired" /\ rows'[n].token = Blank
        \/ rows'[n].status = "active" /\ rows'[n].token = task[s].token
    BY InsertWrites DEF n
  <2> QED
    BY <1>2, <2>1, <2>2, <2>3
<1>5. Active' \subseteq Active \cup {n} /\ \A t \in Sessions : HoldsRow(t) => task[t].row \in Active'
  <2>1. CASE Activate(s)
    <3>1. Active' = {n}
      BY <1>4, <2>1, InsertWrites, Zenon DEF Active, Activate, RecordRefusedGrant
    <3>2. \A t \in Sessions : ~HoldsRow(t)
      BY <2>1 DEF Activate, RowFree, Custody, LocksHold
    <3> QED
      BY <3>1, <3>2, Zenon
  <2>2. CASE ~Activate(s)
    <3>1. \A r \in DOMAIN rows : rows'[r] = rows[r]
      BY <2>2, InsertWrites
    <3>2. Active \subseteq Active' /\ Active' \subseteq Active \cup {n}
      BY <1>4, <3>1 DEF Active
    <3> QED
      BY <3>2 DEF Custody, LocksHold
  <2> QED
    BY <2>1, <2>2
<1>6. /\ \A i \in Active' \ {n} : i \in Active /\ rows'[i].token = rows[i].token
      /\ n \in Active' => rows'[n].token = InHand(s)
  BY <1>4, <1>5, ZenonT(30) DEF Active
<1> HIDE DEF n
<1>7. LocksHold'
  <2>1. \A t \in Sessions : HoldsRow(t)' => t # s /\ HoldsRow(t) /\ task'[t] = task[t]
    BY <1>1, <1>2
  <2>2. \A t \in Sessions : HoldsRow(t) => task[t].row \in DOMAIN rows
    BY DEF Custody, LocksHold, Active
  <2> QED
    BY <1>4, <1>5, <2>1, <2>2 DEF Custody, LocksHold
<1>8. TokensDiffer'
  <2>1. ASSUME NEW i \in Active', NEW j \in Active', i # j, rows'[i].token # Blank
        PROVE  rows'[i].token # rows'[j].token
    BY <1>6, <2>1, ZenonT(30) DEF Custody, TokensDiffer
  <2>2. ASSUME NEW t \in Sessions, NEW i \in Active', InHand(t)' # Blank
        PROVE  InHand(t)' # rows'[i].token
    BY <1>1, <1>2, <1>6, <2>2, SMTT(30) DEF Custody, TokensDiffer
  <2>3. ASSUME NEW t \in Sessions, NEW u \in Sessions, t # u, InHand(t)' # Blank
        PROVE  InHand(t)' # InHand(u)'
    BY <1>1, <1>2, <2>3, SMTT(30) DEF Custody, TokensDiffer
  <2> QED
    BY <2>1, <2>2, <2>3, Zenon DEF TokensDiffer
<1>9. TokensHonoured'
  <2>1. \A x : Honoured(x) => x \in live' \cup spoiled' \cup {Blank}
    BY <1>3 DEF Honoured
  <2>2. ASSUME NEW i \in Active'
        PROVE  \/ rows'[i].token \in live' \cup spoiled' \cup {Blank}
               \/ \E t \in Sessions : task'[t].at = "rotating" /\ task'[t].row = i
    <3>1. CASE i = n
      BY <1>6, <2>1, <3>1, Zenon DEF Custody, TokensHonoured
    <3>2. CASE i # n
      BY <1>1, <1>2, <1>6, <2>1, <3>2, SMTT(30) DEF Custody, TokensHonoured
    <3> QED
      BY <3>1, <3>2, Zenon
  <2>3. \A t \in Sessions : InHand(t)' \in live' \cup spoiled' \cup {Blank}
    BY <1>1, <1>2, <2>1, ZenonT(30) DEF Custody, TokensHonoured
  <2>4. \A t \in Sessions : task'[t].at = "closing" /\ task'[t].cause = "unhonoured" =>
          task'[t].token \in spoiled' \cup {Blank}
    BY <1>1, <1>2, <1>3, Zenon DEF Custody, TokensHonoured
  <2> QED
    BY <2>2, <2>3, <2>4 DEF TokensHonoured, Honoured
<1>10. TokensMinted'
  <2>1. Blank \in 0..minted
    BY IntentAssumption, SMTT(30) DEF TypeOK, Blank
  <2> QED
    BY <1>1, <1>2, <1>3, <1>4, <2>1 DEF Custody, TokensMinted
<1> QED
  BY <1>7, <1>8, <1>9, <1>10, Zenon DEF Custody

(* A rotation moves the token in hand to its row, a closing retires the     *)
(* row; both let the lock go.                                               *)
LEMMA RewriteKeeps ==
  ASSUME TypeOK, Custody, NEW s \in Sessions, Rewrites(s)
  PROVE  Custody'
<1> DEFINE n == task[s].row
<1>1. \A t \in Sessions \ {s} : HoldsRow(t)' = HoldsRow(t) /\ InHand(t)' = InHand(t)
                               /\ task'[t] = task[t]
  BY OthersKept, OthersHold, Zenon DEF Others, Rewrites, Rotate, CloseCredential
<1>2. /\ InHand(s)' = Blank /\ ~HoldsRow(s)' /\ task'[s].at # "closing"
      /\ IF Rotate(s) THEN InHand(s) = task[s].fresh ELSE InHand(s) = Blank
  BY OthersKept DEF Rewrites, Rotate, CloseCredential, InHand, HoldsRow, Idle
<1>3. minted' = minted /\ live' = live /\ spoiled' = spoiled
  BY ZenonT(30) DEF Rewrites, Rotate, CloseCredential, provider
<1>4. /\ HoldsRow(s) /\ n \in Active /\ DOMAIN rows' = DOMAIN rows
      /\ \A r \in DOMAIN rows \ {n} : rows'[r] = rows[r]
      /\ rows'[n].status = "active" => rows'[n].token = InHand(s)
      /\ rows'[n].token \in {Blank, InHand(s), rows[n].token}
  <2>1. LocksHold
    BY Zenon DEF Custody
  <2>2. HoldsRow(s)
    BY <2>1, RewriteWrites, Zenon
  <2>3. n \in Active /\ rows[n].token = task[s].token
    BY <2>1, <2>2, HeldRow, Zenon
  <2> HIDE DEF n
  <2> QED
    BY <1>2, <2>1, <2>2, <2>3, RewriteWrites DEF n
<1>6. /\ \A i \in Active' \ {n} : i \in Active /\ rows'[i].token = rows[i].token
      /\ n \in Active' => rows'[n].token = InHand(s)
      /\ Active \ {n} \subseteq Active'
  BY <1>4, ZenonT(30) DEF Active
<1>7. LocksHold'
  <2>1. \A t \in Sessions : HoldsRow(t)' =>
          t # s /\ HoldsRow(t) /\ task'[t] = task[t] /\ task[t].row \in Active \ {n}
    BY <1>1, <1>2, <1>4 DEF Custody, LocksHold
  <2>2. Active \subseteq DOMAIN rows
    BY Zenon DEF Active
  <2> QED
    <3>1. LocksHold
      BY Zenon DEF Custody
    <3>2. ASSUME NEW t \in Sessions, HoldsRow(t)'
          PROVE  /\ HoldsRow(t) /\ task'[t] = task[t] /\ task[t].row \in Active'
                 /\ rows'[task[t].row] = rows[task[t].row]
      BY <1>4, <1>6, <2>1, <2>2, <3>2, ZenonT(30)
    <3> QED
      BY <3>1, <3>2 DEF LocksHold
<1> HIDE DEF n
<1>8. TokensDiffer'
  <2>1. ASSUME NEW i \in Active', NEW j \in Active', i # j, rows'[i].token # Blank
        PROVE  rows'[i].token # rows'[j].token
    BY <1>6, <2>1, ZenonT(30) DEF Custody, TokensDiffer
  <2>2. ASSUME NEW t \in Sessions, NEW i \in Active', InHand(t)' # Blank
        PROVE  InHand(t)' # rows'[i].token
    <3>1. TokensDiffer
      BY Zenon DEF Custody
    <3>2. t # s /\ InHand(t)' = InHand(t)
      BY <1>1, <1>2, <2>2, Zenon
    <3>3. CASE i = n
      <4>1. rows'[i].token = InHand(s)
        BY <1>6, <3>3, Zenon
      <4> QED
        BY <2>2, <3>1, <3>2, <4>1, Zenon DEF TokensDiffer
    <3>4. CASE i # n
      <4>1. i \in Active /\ rows'[i].token = rows[i].token
        BY <1>6, <3>4, Zenon
      <4> QED
        BY <2>2, <3>1, <3>2, <4>1, Zenon DEF TokensDiffer
    <3> QED
      BY <3>3, <3>4, Zenon
  <2>3. ASSUME NEW t \in Sessions, NEW u \in Sessions, t # u, InHand(t)' # Blank
        PROVE  InHand(t)' # InHand(u)'
    BY <1>1, <1>2, <2>3, SMTT(30) DEF Custody, TokensDiffer
  <2> QED
    BY <2>1, <2>2, <2>3 DEF TokensDiffer
<1>9. TokensHonoured'
  <2>1. \A x : Honoured(x) => x \in live' \cup spoiled' \cup {Blank}
    BY <1>3 DEF Honoured
  <2>2. ASSUME NEW i \in Active'
        PROVE  \/ rows'[i].token \in live' \cup spoiled' \cup {Blank}
               \/ \E t \in Sessions : task'[t].at = "rotating" /\ task'[t].row = i
    <3>1. CASE i = n
      BY <1>6, <2>1, <3>1, Zenon DEF Custody, TokensHonoured
    <3>2. CASE i # n
      BY <1>1, <1>6, <2>1, <3>2, SMTT(30) DEF Custody, TokensHonoured, n
    <3> QED
      BY <3>1, <3>2
  <2>3. \A t \in Sessions : InHand(t)' \in live' \cup spoiled' \cup {Blank}
    BY <1>1, <1>2, <2>1, Zenon DEF Custody, TokensHonoured
  <2>4. \A t \in Sessions : task'[t].at = "closing" /\ task'[t].cause = "unhonoured" =>
          task'[t].token \in spoiled' \cup {Blank}
    BY <1>1, <1>2, <1>3, Zenon DEF Custody, TokensHonoured
  <2> QED
    BY <2>2, <2>3, <2>4 DEF TokensHonoured, Honoured
<1>10. TokensMinted'
  <2>1. Blank \in 0..minted /\ n \in DOMAIN rows
    BY <1>4, IntentAssumption DEF TypeOK, Blank, Active
  <2> QED
    BY <1>1, <1>2, <1>3, <1>4, <2>1, ZenonT(30) DEF Custody, TokensMinted
<1> QED
  BY <1>7, <1>8, <1>9, <1>10 DEF Custody

(* Every step keeps the custody of the tokens.                              *)
LEMMA CustodyKept ==
  ASSUME TypeOK, Custody, [Next]_vars
  PROVE  Custody'
<1> USE DEF stored, provider, clock
<1>0. ASSUME rows' = rows, task' = task, minted' = minted, live' = live, spoiled' = spoiled
      PROVE  Custody'
  <2>1. /\ Active' = Active
        /\ \A s \in Sessions : HoldsRow(s)' = HoldsRow(s) /\ InHand(s)' = InHand(s)
    BY <1>0, ZenonT(30) DEF Active, HoldsRow, InHand
  <2>2. LocksHold' /\ TokensDiffer'
    BY <1>0, <2>1, SMTT(30) DEF Custody, LocksHold, TokensDiffer
  <2>3. TokensHonoured' /\ TokensMinted'
    BY <1>0, <2>1 DEF Custody, TokensHonoured, TokensMinted, Honoured
  <2> QED
    BY <2>2, <2>3 DEF Custody
<1>1. CASE UNCHANGED vars
  BY <1>0, <1>1 DEF vars
<1>2. ASSUME NEW i \in Intents, ExpireIntent(i) PROVE Custody'
  BY <1>0, <1>2, ZenonT(30) DEF ExpireIntent
<1>3. ASSUME NEW s \in Sessions, NEW i \in Intents, FindIntent(s, i) PROVE Custody'
  <2>1. /\ Become(s, [at |-> "found", intent |-> i]) /\ rows' = rows /\ minted' = minted
        /\ live' = live /\ spoiled' = spoiled
    BY <1>3, Zenon DEF FindIntent
  <2>2. task[s].at = "idle"
    BY <1>3 DEF FindIntent, Idle
  <2>3. task'[s] = [at |-> "found", intent |-> i] /\ Others(s)
    BY <2>1, OthersKept, Zenon DEF Others
  <2>4. ~HoldsRow(s)' /\ InHand(s)' = Blank
    BY <2>3 DEF HoldsRow, InHand
  <2> QED
    BY <2>1, <2>2, <2>3, <2>4, TakesNothing
<1>4. ASSUME NEW s \in Sessions, NEW op, NEW p, LockActive(s, op, p) PROVE Custody'
  <2>1. ~HoldsRow(s) /\ InHand(s) = Blank /\ task[s].at # "rotating"
    <3>1. task[s].at = "idle"
      BY <1>4 DEF LockActive, Idle
    <3> QED
      BY <3>1, Zenon DEF HoldsRow, InHand
  <2>2. /\ rows' = rows /\ minted' = minted /\ live' = live /\ spoiled' = spoiled
        /\ Active # {}
    BY <1>4, Zenon DEF LockActive
  <2>3. CASE RowFree(Newest(Active)) /\ Hold(s, op, p, Newest(Active))
    BY <2>1, <2>2, <2>3, ActiveTyped, HoldKeeps, Zenon
  <2>4. CASE Become(s, [at |-> "locking", op |-> op, presented |-> p, snapshot |-> Active])
    <3>1. Others(s) /\ ~HoldsRow(s)' /\ InHand(s)' = Blank
      BY <2>4, OthersKept DEF Others, HoldsRow, InHand
    <3> QED
      BY <2>1, <2>2, <3>1, TakesNothing, Zenon
  <2> QED
    BY <1>4, <2>3, <2>4 DEF LockActive
<1>5. ASSUME NEW s \in Sessions, EndWait(s) PROVE Custody'
  <2> DEFINE seen == task[s].snapshot \cap Active
  <2>1. ~HoldsRow(s) /\ InHand(s) = Blank /\ task[s].at # "rotating"
    BY <1>5, Zenon DEF EndWait, HoldsRow, InHand
  <2>2. rows' = rows /\ minted' = minted /\ live' = live /\ spoiled' = spoiled
    BY <1>5 DEF EndWait
  <2>3. CASE seen # {}
    <3>1. RowFree(Newest(seen)) /\ Hold(s, task[s].op, task[s].presented, Newest(seen))
      BY <1>5, <2>3 DEF EndWait
    <3>2. Newest(seen) \in Active
      BY <2>3, ActiveTyped
    <3> QED
      BY <2>1, <2>2, <3>1, <3>2, HoldKeeps, Zenon
  <2>4. CASE seen = {}
    <3>1. Others(s) /\ ~HoldsRow(s)' /\ InHand(s)' = Blank
      BY <1>5, <2>4, OthersKept DEF EndWait, Others, HoldsRow, InHand, Idle
    <3> QED
      BY <2>1, <2>2, <3>1, TakesNothing, Zenon
  <2> QED
    BY <2>3, <2>4, Zenon
<1>6. ASSUME NEW s \in Sessions, Abandon(s) PROVE Custody'
  <2>1. Others(s) /\ ~HoldsRow(s)' /\ InHand(s)' = Blank
    BY <1>6, OthersKept DEF Abandon, Others, HoldsRow, InHand, Idle
  <2> QED
    BY <1>6, <2>1, TakesNothing DEF Abandon
<1>7. ASSUME NEW s \in Sessions, Maintenance(s) PROVE Custody'
  <2>1. CASE RefuseToken(s)
    <3>1. CASE Close(s, "replay")
      BY <2>1, <3>1, CloseKeeps, ZenonT(30) DEF RefuseToken
    <3>2. CASE Become(s, Idle)
      <4>1. Others(s) /\ ~HoldsRow(s)' /\ InHand(s)' = Blank
        BY <3>2, OthersKept DEF Others, HoldsRow, InHand, Idle
      <4> QED
        BY <2>1, <4>1, TakesNothing DEF RefuseToken
    <3> QED
      BY <2>1, <3>1, <3>2 DEF RefuseToken
  <2>2. ASSUME NEW fresh \in 0..MaxTokens, RefreshAnswered(s, fresh) PROVE Custody'
    BY <2>2, AnswerKeeps, Zenon
  <2>3. CASE RefreshRejected(s)
    BY <2>3, CloseKeeps DEF RefreshRejected, Refreshes
  <2>4. CASE RefreshRefused(s)
    BY <2>4, CloseKeeps DEF RefreshRefused, Refreshes
  <2>5. CASE RevokeAnswered(s)
    BY <2>5, CloseKeeps DEF RevokeAnswered
  <2>6. CASE Rewrites(s)
    BY <2>6, RewriteKeeps
  <2> QED
    BY <1>7, <2>1, <2>2, <2>3, <2>4, <2>5, <2>6, ZenonT(30) DEF Maintenance, Rewrites
<1>8. ASSUME NEW s \in Sessions, Callback(s) PROVE Custody'
  <2>1. CASE ConsumeIntent(s)
    <3>1. \E x : Become(s, x) /\ x.at \in {"idle", "accepted"}
      BY <2>1 DEF ConsumeIntent, Idle
    <3>2. Others(s) /\ ~HoldsRow(s)' /\ InHand(s)' = Blank
      BY <3>1, OthersKept DEF Others, HoldsRow, InHand
    <3> QED
      BY <2>1, <3>2, TakesNothing, Zenon DEF ConsumeIntent
  <2>2. ASSUME NEW fresh \in 0..MaxTokens, NEW complete, ExchangeCode(s, fresh, complete) PROVE Custody'
    BY <2>2, ExchangeKeeps, ZenonT(30)
  <2>3. CASE Inserts(s)
    BY <2>3, InsertKeeps
  <2>4. CASE SetConnected(s)
    <3>1. Others(s) /\ ~HoldsRow(s)' /\ InHand(s)' = Blank
      BY <2>4, OthersKept DEF SetConnected, Others, HoldsRow, InHand, Idle
    <3> QED
      BY <2>4, <3>1, TakesNothing DEF SetConnected
  <2>5. ASSUME NEW matches, LockAccount(s, matches) PROVE Custody'
    <3>1. task[s] \in Granted /\ task \in [Sessions -> Tasks] /\ task[s].at = "granted"
      BY <2>5, TaskShape DEF LockAccount, TypeOK
    <3>2. /\ task'[s].token = task[s].token /\ task'[s].at \in {"granted", "activating"}
          /\ \A t \in Sessions \ {s} : task'[t] = task[t]
      BY <2>5, <3>1 DEF LockAccount, Granted
    <3>3. Others(s) /\ ~HoldsRow(s)' /\ InHand(s)' = InHand(s)
      BY <3>1, <3>2 DEF Others, HoldsRow, InHand
    <3> QED
      BY <2>5, <3>1, <3>3, TakesNothing DEF LockAccount
  <2>6. CASE BeginInsert(s)
    <3>1. task[s] \in Granted /\ task \in [Sessions -> Tasks] /\ task[s].at = "granted"
      BY <2>6, TaskShape DEF BeginInsert, TypeOK
    <3>2. /\ task'[s].token = task[s].token /\ task'[s].at = "granted"
          /\ \A t \in Sessions \ {s} : task'[t] = task[t]
      BY <2>6, <3>1 DEF BeginInsert, Granted
    <3>3. Others(s) /\ ~HoldsRow(s)' /\ InHand(s)' = InHand(s)
      BY <3>1, <3>2 DEF Others, HoldsRow, InHand
    <3> QED
      BY <2>6, <3>1, <3>3, TakesNothing DEF BeginInsert
  <2> QED
    BY <1>8, <2>1, <2>2, <2>3, <2>4, <2>5, <2>6, Zenon DEF Callback, Inserts
<1> QED
  BY <1>1, <1>2, <1>3, <1>4, <1>5, <1>6, <1>7, <1>8 DEF Next, Fail, BreakDeadlock

-----------------------------------------------------------------------------

Grants == GrantsAreConsumed /\ OneGrantPerIntent
Past(s) == task[s].at \in {"accepted", "granted", "activating"}

(* A step that accepts no callback and inserts no row.                      *)
NoNewGrant ==
  /\ consumed \subseteq consumed'
  /\ DOMAIN rows' = DOMAIN rows /\ \A r \in DOMAIN rows : rows'[r].intent = rows[r].intent
  /\ \A t \in Sessions : Past(t)' => Past(t) /\ task'[t].intent = task[t].intent

(* Such a step adds no second grant.                                        *)
LEMMA NoNewGrantKeeps ==
  ASSUME Grants, NoNewGrant
  PROVE  Grants'
<1>1. GrantsAreConsumed'
  BY DEF Grants, NoNewGrant, GrantsAreConsumed, Past
<1>2. \A i \in Intents : PastAcceptance(i)' \subseteq PastAcceptance(i) /\ RowsOf(i)' = RowsOf(i)
  BY DEF NoNewGrant, Past, PastAcceptance, RowsOf
<1>3. OneGrantPerIntent'
  BY <1>2 DEF Grants, OneGrantPerIntent
<1> QED
  BY <1>1, <1>3 DEF Grants

(* The places of a task outside the flow of an accepted callback.           *)
Aside(x) == x.at \in {"idle", "connecting", "found", "locking", "holding", "rotating", "closing"}

(* An idle task is at one of them.                                          *)
LEMMA IdleIsAside == Aside(Idle)
  BY DEF Aside, Idle

(* A session that moves to one of them takes such a step.                   *)
LEMMA AsideGrantsNothing ==
  ASSUME TypeOK, NEW s \in Sessions, NEW x, Become(s, x), Aside(x),
         rows' = rows, consumed' = consumed
  PROVE  NoNewGrant
<1>1. task'[s] = x /\ \A t \in Sessions \ {s} : task'[t] = task[t]
  BY OthersKept, Zenon
<1>2. ~Past(s)'
  <2>1. x.at \notin {"accepted", "granted", "activating"}
    BY DEF Aside
  <2> QED
    BY <1>1, <2>1, Zenon DEF Past
<1>3. ASSUME NEW t \in Sessions, Past(t)' PROVE Past(t) /\ task'[t].intent = task[t].intent
  <2>1. t # s
    BY <1>2, <1>3, Zenon
  <2> QED
    BY <1>1, <1>3, <2>1, Zenon DEF Past
<1> QED
  BY <1>3, Zenon DEF NoNewGrant

(* A step that stores the grant of the session's intent as one row.         *)
LEMMA StoredGrantKeeps ==
  ASSUME Grants, NEW s \in Sessions, Past(s), ~Past(s)', consumed' = consumed,
         \A t \in Sessions \ {s} : task'[t] = task[t],
         NEW n \in Nat, DOMAIN rows = 1..n, DOMAIN rows' = 1..(n + 1),
         \A r \in 1..n : rows'[r].intent = rows[r].intent,
         rows'[n + 1].intent = task[s].intent
  PROVE  Grants'
<1>1. GrantsAreConsumed'
  BY DEF Grants, GrantsAreConsumed, Past
<1>2. ASSUME NEW i \in Intents
      PROVE  /\ PastAcceptance(i)' = PastAcceptance(i) \ {s}
             /\ RowsOf(i)' = RowsOf(i) \cup (IF task[s].intent = i THEN {n + 1} ELSE {})
             /\ task[s].intent = i => s \in PastAcceptance(i)
  <2>1. PastAcceptance(i)' = PastAcceptance(i) \ {s}
    BY Zenon DEF Past, PastAcceptance
  <2>2. ASSUME NEW r
        PROVE  r \in RowsOf(i)' <=> r \in RowsOf(i) \/ (r = n + 1 /\ task[s].intent = i)
    <3>1. CASE r \in 1..n
      <4>1. r # n + 1 /\ r \in 1..(n + 1)
        BY <3>1
      <4>2. rows'[r].intent = rows[r].intent
        BY <3>1
      <4> QED
        BY <3>1, <4>1, <4>2, Zenon DEF RowsOf
    <3>2. CASE r = n + 1
      <4>1. r \notin 1..n /\ r \in 1..(n + 1)
        BY <3>2
      <4> QED
        BY <3>2, <4>1, Zenon DEF RowsOf
    <3>3. CASE r \notin 1..n /\ r # n + 1
      <4>1. r \notin 1..(n + 1)
        BY <3>3
      <4> QED
        BY <3>3, <4>1, Zenon DEF RowsOf
    <3> QED
      BY <3>1, <3>2, <3>3, Zenon
  <2> QED
    BY <2>1, <2>2 DEF Past, PastAcceptance
<1>3. OneGrantPerIntent'
  BY <1>2 DEF Grants, OneGrantPerIntent
<1> QED
  BY <1>1, <1>3 DEF Grants

(* consume_intent lets one session past: nobody else has the intent.        *)
LEMMA ConsumeKeeps ==
  ASSUME TypeOK, Grants, NEW s \in Sessions, ConsumeIntent(s)
  PROVE  Grants'
<1>1. task[s].intent \in Intents
  BY TaskShape DEF ConsumeIntent, Answering
<1>2. CASE task[s].intent \in consumed
  <2>1. Become(s, Idle) /\ rows' = rows /\ consumed' = consumed
    BY <1>2, Zenon DEF ConsumeIntent
  <2> QED
    BY <2>1, IdleIsAside, AsideGrantsNothing, NoNewGrantKeeps, Zenon
<1>3. CASE task[s].intent \notin consumed
  <2>1. /\ task'[s] = [at |-> "accepted", intent |-> task[s].intent]
        /\ \A t \in Sessions \ {s} : task'[t] = task[t]
    BY <1>1, <1>3, NextTasks, OwnTaskOnly, ZenonT(30) DEF ConsumeIntent
  <2>2. /\ rows' = rows /\ consumed' = consumed \cup {task[s].intent}
        /\ task[s].at = "found"
    BY <1>3, Zenon DEF ConsumeIntent
  <2>3. GrantsAreConsumed'
    BY <2>1, <2>2 DEF Grants, GrantsAreConsumed
  <2>4. ASSUME NEW i \in Intents
        PROVE  /\ RowsOf(i)' = RowsOf(i)
               /\ task[s].intent # i => PastAcceptance(i)' = PastAcceptance(i)
               /\ task[s].intent = i => PastAcceptance(i)' = {s} /\ RowsOf(i) = {}
    <3>1. RowsOf(i)' = RowsOf(i)
      BY <2>2, Zenon DEF RowsOf
    <3>2. CASE task[s].intent # i
      <4>1. task'[s].intent # i /\ task[s].at = "found"
        BY <2>1, <2>2, <3>2
      <4>2. ASSUME NEW t \in Sessions
            PROVE  t \in PastAcceptance(i)' <=> t \in PastAcceptance(i)
        <5>1. CASE t = s
          BY <4>1, <5>1 DEF PastAcceptance
        <5>2. CASE t # s
          <6>1. task'[t] = task[t]
            BY <2>1, <5>2, Zenon
          <6> QED
            BY <6>1 DEF PastAcceptance
        <5> QED
          BY <5>1, <5>2
      <4>3. PastAcceptance(i)' \subseteq Sessions /\ PastAcceptance(i) \subseteq Sessions
        BY DEF PastAcceptance
      <4>4. PastAcceptance(i)' = PastAcceptance(i)
        BY <4>2, <4>3, ZenonT(30)
      <4> QED
        BY <3>1, <3>2, <4>4
    <3>3. CASE task[s].intent = i
      <4>1. i \notin consumed /\ GrantsAreConsumed
        BY <1>3, <3>3, Zenon DEF Grants
      <4>2. RowsOf(i) = {}
        BY <4>1, Zenon DEF RowsOf, GrantsAreConsumed
      <4>3. s \in PastAcceptance(i)'
        BY <2>1, <3>3 DEF PastAcceptance
      <4>4. ASSUME NEW t \in PastAcceptance(i)' PROVE t = s
        <5>1. t \in Sessions /\ Past(t)' /\ task'[t].intent = i
          BY <4>4, Zenon DEF PastAcceptance, Past
        <5>2. SUFFICES ASSUME t # s PROVE FALSE
          BY Zenon
        <5>3. task'[t] = task[t]
          BY <2>1, <5>1, <5>2, Zenon
        <5>4. Past(t) /\ task[t].intent = i
          BY <5>1, <5>3 DEF Past
        <5> QED
          BY <4>1, <5>1, <5>4, Zenon DEF GrantsAreConsumed, Past
      <4>5. PastAcceptance(i)' = {s}
        BY <4>3, <4>4, Zenon
      <4> QED
        BY <3>1, <3>3, <4>2, <4>5, Zenon
    <3> QED
      BY <3>2, <3>3
  <2>5. OneGrantPerIntent'
    BY <2>4 DEF Grants, OneGrantPerIntent
  <2> QED
    BY <2>3, <2>5 DEF Grants
<1> QED
  BY <1>2, <1>3, Zenon

(* Where the steps of refresh and revoke leave their session.               *)
LEMMA MaintenanceTask ==
  ASSUME TypeOK, NEW s \in Sessions, Maintenance(s)
  PROVE  /\ HoldsRow(s) /\ \A t \in Sessions \ {s} : task'[t] = task[t]
         /\ \/ task'[s] = Idle
            \/ /\ task'[s].at \in {"rotating", "closing"}
               /\ task'[s].row = task[s].row /\ task'[s].token = task[s].token
<1>1. CASE RefuseToken(s) \/ RefreshRejected(s) \/ RefreshRefused(s)
  <2>1. /\ HoldsRow(s)
        /\ Become(s, Idle) \/ \E cause : Close(s, cause)
    BY <1>1, Zenon DEF RefuseToken, RefreshRejected, RefreshRefused, Refreshes, HoldsRow
  <2>2. CASE Become(s, Idle)
    BY <2>1, <2>2, OthersKept, Zenon
  <2>3. CASE \E cause : Close(s, cause)
    <3>1. PICK cause : Close(s, cause)
      BY <2>3
    <3>2. /\ \A t \in Sessions \ {s} : task'[t] = task[t]
          /\ task'[s] = [at |-> "closing", row |-> task[s].row, token |-> task[s].token,
                         cause |-> cause]
      BY <3>1, OthersKept, Zenon DEF Close
    <3>3. /\ task'[s].at \in {"rotating", "closing"}
          /\ task'[s].row = task[s].row /\ task'[s].token = task[s].token
      BY <3>2
    <3> QED
      BY <2>1, <3>2, <3>3, Zenon
  <2> QED
    BY <2>1, <2>2, <2>3, Zenon
<1>2. ASSUME NEW fresh, RefreshAnswered(s, fresh)
      PROVE  /\ HoldsRow(s) /\ \A t \in Sessions \ {s} : task'[t] = task[t]
             /\ task'[s].at \in {"rotating", "closing"}
             /\ task'[s].row = task[s].row /\ task'[s].token = task[s].token
  <2>1. /\ HoldsRow(s)
        /\ Become(s, [at |-> "rotating", row |-> task[s].row, token |-> task[s].token,
                      fresh |-> fresh])
    BY <1>2, Zenon DEF RefreshAnswered, Refreshes, HoldsRow
  <2>2. /\ task'[s] = [at |-> "rotating", row |-> task[s].row, token |-> task[s].token,
                       fresh |-> fresh]
        /\ \A t \in Sessions \ {s} : task'[t] = task[t]
    BY <2>1, OthersKept, Zenon
  <2> QED
    BY <2>1, <2>2
<1>3. CASE Rotate(s)
  BY <1>3, OthersKept DEF Rotate, HoldsRow
<1>4. CASE RevokeAnswered(s)
  BY <1>4, OthersKept DEF RevokeAnswered, Close, HoldsRow
<1>5. CASE CloseCredential(s)
  BY <1>5, OthersKept DEF CloseCredential, HoldsRow
<1> QED
  BY <1>1, <1>2, <1>3, <1>4, <1>5, ZenonT(30) DEF Maintenance

(* No step lets a second presentation of an intent past.                    *)
LEMMA GrantsKept ==
  ASSUME TypeOK, LocksHold, Grants, [Next]_vars
  PROVE  Grants'
<1> USE DEF stored, provider, clock
<1>1. CASE UNCHANGED vars
  <2>1. NoNewGrant
    BY <1>1 DEF vars, NoNewGrant, Past
  <2> QED
    BY <2>1, NoNewGrantKeeps
<1>2. ASSUME NEW i \in Intents, ExpireIntent(i) PROVE Grants'
  <2>1. NoNewGrant
    BY <1>2 DEF ExpireIntent, NoNewGrant, Past
  <2> QED
    BY <2>1, NoNewGrantKeeps
<1>3. ASSUME NEW s \in Sessions, NEW i \in Intents, FindIntent(s, i) PROVE Grants'
  <2>1. PICK x : Become(s, x) /\ Aside(x) /\ rows' = rows /\ consumed' = consumed
    BY <1>3, Zenon DEF FindIntent, Aside
  <2> QED
    BY <2>1, AsideGrantsNothing, NoNewGrantKeeps, Zenon
<1>4. ASSUME NEW s \in Sessions, NEW op, NEW p, LockActive(s, op, p) PROVE Grants'
  <2>1. PICK x : Become(s, x) /\ Aside(x) /\ rows' = rows /\ consumed' = consumed
    BY <1>4, Zenon DEF LockActive, Hold, Aside
  <2> QED
    BY <2>1, AsideGrantsNothing, NoNewGrantKeeps, Zenon
<1>5. ASSUME NEW s \in Sessions, EndWait(s) PROVE Grants'
  <2>1. PICK x : Become(s, x) /\ Aside(x) /\ rows' = rows /\ consumed' = consumed
    BY <1>5, Zenon DEF EndWait, Hold, Idle, Aside
  <2> QED
    BY <2>1, AsideGrantsNothing, NoNewGrantKeeps, Zenon
<1>6. ASSUME NEW s \in Sessions, Abandon(s) PROVE Grants'
  <2>1. Become(s, Idle) /\ rows' = rows /\ consumed' = consumed
    BY <1>6, Zenon DEF Abandon
  <2> QED
    BY <2>1, IdleIsAside, AsideGrantsNothing, NoNewGrantKeeps, Zenon
<1>7. ASSUME NEW s \in Sessions, Maintenance(s) PROVE Grants'
  <2>1. \A t \in Sessions : Past(t)' => Past(t) /\ task'[t] = task[t]
    BY <1>7, MaintenanceTask DEF Past, Idle
  <2>2. DOMAIN rows' = DOMAIN rows /\ \A r \in DOMAIN rows : rows'[r].intent = rows[r].intent
    <3>1. CASE rows' = rows
      BY <3>1
    <3>2. CASE Rewrites(s)
      BY <3>2, RewriteWrites
    <3> QED
      BY <1>7, <3>1, <3>2, Zenon
         DEF Maintenance, RefuseToken, RefreshAnswered, RefreshRejected, RefreshRefused,
             RevokeAnswered, Rewrites
  <2>3. consumed' = consumed
    BY <1>7, ZenonT(30) DEF Maintenance, RefuseToken, RefreshAnswered, RefreshRejected, RefreshRefused,
                RevokeAnswered, Rotate, CloseCredential
  <2>4. NoNewGrant
    BY <2>1, <2>2, <2>3 DEF NoNewGrant
  <2> QED
    BY <2>4, NoNewGrantKeeps
<1>8. ASSUME NEW s \in Sessions, Callback(s) PROVE Grants'
  <2>1. CASE ConsumeIntent(s)
    BY <2>1, ConsumeKeeps, ZenonT(30)
  <2>2. ASSUME NEW fresh, NEW complete, ExchangeCode(s, fresh, complete) PROVE Grants'
    <3>1. NoNewGrant
      <4>1. /\ Past(s) /\ consumed' = consumed /\ rows' = rows
            /\ Become(s, [at |-> "granted", intent |-> task[s].intent, token |-> fresh,
                          complete |-> complete, born |-> Unborn])
        BY <2>2, Zenon DEF ExchangeCode, Past, stored
      <4>2. task'[s].intent = task[s].intent
        <5>1. task'[s] = [at |-> "granted", intent |-> task[s].intent, token |-> fresh,
                          complete |-> complete, born |-> Unborn]
          BY <4>1, OthersKept, Zenon
        <5> QED
          BY <5>1
      <4>3. \A t \in Sessions \ {s} : task'[t] = task[t]
        BY <4>1, OthersKept, Zenon
      <4> QED
        BY <4>1, <4>2, <4>3, Zenon DEF NoNewGrant, Past
    <3> QED
      BY <3>1, NoNewGrantKeeps
  <2>3. CASE Inserts(s)
    <3>1. \/ Become(s, Idle) \/ Become(s, [at |-> "connecting"])
      BY <2>3, ZenonT(30) DEF Inserts, RecordRefusedGrant, InsertCredential, Activate
    <3>2. Past(s) /\ consumed' = consumed
      BY <2>3, Zenon DEF Inserts, RecordRefusedGrant, InsertCredential, Activate, Past
    <3>3. task'[s] \in {Idle, [at |-> "connecting"]}
            /\ \A t \in Sessions \ {s} : task'[t] = task[t]
      BY <3>1, OthersKept, Zenon
    <3>4. ~Past(s)'
      BY <3>3 DEF Past, Idle
    <3>5. PICK n \in Nat :
            /\ DOMAIN rows = 1..n /\ DOMAIN rows' = 1..(n + 1)
            /\ \A r \in DOMAIN rows : rows'[r].intent = rows[r].intent
            /\ rows'[n + 1].intent = task[s].intent
      BY <2>3, InsertWrites, Zenon
    <3>6. \A r \in 1..n : rows'[r].intent = rows[r].intent
      BY <3>5, Zenon
    <3> QED
      BY <3>2, <3>3, <3>4, <3>5, <3>6, StoredGrantKeeps, Zenon
  <2>4. CASE SetConnected(s)
    <3>1. Become(s, Idle) /\ rows' = rows /\ consumed' = consumed
      BY <2>4, Zenon DEF SetConnected
    <3> QED
      BY <3>1, IdleIsAside, AsideGrantsNothing, NoNewGrantKeeps, Zenon
  <2>5. ASSUME NEW matches, LockAccount(s, matches) PROVE Grants'
    <3>1. task[s] \in Granted /\ task \in [Sessions -> Tasks]
      BY <2>5, TaskShape DEF LockAccount, TypeOK
    <3>2. /\ task'[s].intent = task[s].intent /\ \A t \in Sessions \ {s} : task'[t] = task[t]
      BY <2>5, <3>1 DEF LockAccount, Granted
    <3>3. NoNewGrant
      BY <2>5, <3>2, Zenon DEF LockAccount, NoNewGrant, Past
    <3> QED
      BY <3>3, NoNewGrantKeeps
  <2>6. CASE BeginInsert(s)
    <3>1. task[s] \in Granted /\ task \in [Sessions -> Tasks]
      BY <2>6, TaskShape DEF BeginInsert, TypeOK
    <3>2. /\ task'[s].intent = task[s].intent /\ \A t \in Sessions \ {s} : task'[t] = task[t]
      BY <2>6, <3>1 DEF BeginInsert, Granted
    <3>3. NoNewGrant
      BY <2>6, <3>2, Zenon DEF BeginInsert, NoNewGrant, Past
    <3> QED
      BY <3>3, NoNewGrantKeeps
  <2> QED
    BY <1>8, <2>1, <2>2, <2>3, <2>4, <2>5, <2>6 DEF Callback, Inserts
<1> QED
  BY <1>1, <1>2, <1>3, <1>4, <1>5, <1>6, <1>7, <1>8 DEF Next, Fail, BreakDeadlock

-----------------------------------------------------------------------------
(* The steps that leave every credential as it is.                          *)
LEMMA NextOnRows ==
  ASSUME [Next]_vars, \A s \in Sessions : ~Inserts(s) /\ ~Rewrites(s)
  PROVE  rows' = rows /\ authority' = authority
<1> USE DEF stored, provider, clock
<1>1. CASE UNCHANGED vars
  BY <1>1 DEF vars
<1>2. ASSUME NEW s \in Sessions, Callback(s) PROVE rows' = rows /\ authority' = authority
  BY <1>2, Zenon DEF Callback, Inserts, ConsumeIntent, ExchangeCode, BeginInsert, SetConnected,
                           LockAccount
<1>3. ASSUME NEW s \in Sessions, Maintenance(s) PROVE rows' = rows /\ authority' = authority
  BY <1>3, Zenon DEF Maintenance, Rewrites, RefuseToken, RefreshAnswered, RefreshRejected, RefreshRefused,
              RevokeAnswered
<1> QED
  BY <1>1, <1>2, <1>3, Zenon
     DEF Next, ExpireIntent, FindIntent, LockActive, EndWait, Fail, BreakDeadlock, Abandon

(* The authority outlives no credential it did not replace.                 *)
LEMMA AuthorityKept ==
  ASSUME TypeOK, LocksHold, AuthorityReplacedAll, [Next]_vars
  PROVE  AuthorityReplacedAll'
<1>1. Len(rows) \in Nat /\ DOMAIN rows = 1..Len(rows)
  BY RowsShape DEF TypeOK
<1>2. ASSUME NEW s \in Sessions, Inserts(s) PROVE AuthorityReplacedAll'
  <2> DEFINE n == Len(rows) + 1
  <2>1. CASE Activate(s)
    <3>1. n \in DOMAIN rows' /\ rows'[n].intent = authority' /\ Len(rows') = n
      <4>1. DOMAIN rows' = 1..n /\ Len(rows') = n /\ rows'[n].intent = task[s].intent
        BY <1>2, InsertWrites, Zenon
      <4>2. authority' = task[s].intent
        BY <2>1, Zenon DEF Activate
      <4>3. n \in 1..n
        BY <1>1
      <4> QED
        BY <4>1, <4>2, <4>3, Zenon
    <3>2. Active' \subseteq n..n
      BY <1>1, <1>2, <2>1, InsertWrites DEF Active
    <3> QED
      BY <3>1, <3>2 DEF AuthorityReplacedAll
  <2>2. CASE ~Activate(s)
    <3>1. authority' = authority
      BY <1>2, <2>2, Zenon DEF Inserts, RecordRefusedGrant, InsertCredential
    <3>2. SUFFICES ASSUME authority # None PROVE AuthorityReplacedAll'
      BY <3>1 DEF AuthorityReplacedAll
    <3>3. PICK r \in DOMAIN rows : rows[r].intent = authority /\ Active \subseteq r..Len(rows)
      BY <3>2, Zenon DEF AuthorityReplacedAll
    <3>4. /\ DOMAIN rows' = 1..n /\ Len(rows') = n
          /\ \A q \in DOMAIN rows : rows'[q] = rows[q]
      BY <1>2, <2>2, InsertWrites, Zenon
    <3>5. r \in DOMAIN rows' /\ rows'[r].intent = authority' /\ Len(rows') = n
      BY <1>1, <3>1, <3>3, <3>4
    <3>6. Active' \subseteq r..n
      <4>1. ASSUME NEW q \in Active' PROVE q \in r..n
        <5>1. q \in 1..n /\ (q # n => q \in DOMAIN rows)
          BY <1>1, <3>4, <4>1 DEF Active
        <5>2. CASE q = n
          BY <1>1, <3>3, <5>2
        <5>3. CASE q # n
          <6>1. q \in Active
            BY <3>4, <4>1, <5>1, <5>3 DEF Active
          <6> QED
            BY <1>1, <3>3, <6>1
        <5> QED
          BY <5>2, <5>3
      <4> QED
        BY <4>1, Zenon
    <3> QED
      BY <3>5, <3>6 DEF AuthorityReplacedAll
  <2> QED
    BY <2>1, <2>2
<1>3. ASSUME NEW s \in Sessions, Rewrites(s) PROVE AuthorityReplacedAll'
  <2>1. authority' = authority /\ DOMAIN rows' = DOMAIN rows /\ Len(rows') = Len(rows)
          /\ \A r \in DOMAIN rows : rows'[r].intent = rows[r].intent
    BY <1>3, RewriteWrites, ZenonT(30) DEF Rewrites, Rotate, CloseCredential
  <2>2. Active' \subseteq Active
    BY <1>3, <2>1, RewriteWrites, HeldRow, Zenon DEF Active
  <2> QED
    BY <2>1, <2>2 DEF AuthorityReplacedAll
<1>4. CASE rows' = rows /\ authority' = authority
  BY <1>4 DEF AuthorityReplacedAll, Active
<1> QED
  BY <1>2, <1>3, <1>4, NextOnRows

-----------------------------------------------------------------------------
(* Before the first callback nothing is consumed, held or stored.           *)
LEMMA InitEstablishes == Init => IInv
<1> SUFFICES ASSUME Init PROVE IInv
  OBVIOUS
<1>1. TypeOK
  BY InitTyped
<1>2. DOMAIN rows = {} /\ Active = {} /\ \A s \in Sessions : task[s].at = "idle"
  BY SMTT(30) DEF Init, Active, Idle
<1>3. GrantsAreConsumed /\ OneGrantPerIntent
  BY <1>2 DEF GrantsAreConsumed, OneGrantPerIntent, PastAcceptance, RowsOf
<1>4. AuthorityReplacedAll
  BY ZenonT(30) DEF Init, AuthorityReplacedAll
<1>5. LocksHold /\ TokensDiffer
  BY <1>2 DEF LocksHold, TokensDiffer, HoldsRow, InHand
<1>6. TokensHonoured /\ TokensMinted
  BY <1>2 DEF Init, TokensHonoured, TokensMinted, InHand, Honoured, Blank
<1> QED
  BY <1>1, <1>3, <1>4, <1>5, <1>6 DEF IInv

(* Every step keeps IInv.                                                   *)
LEMMA NextPreserves == IInv /\ [Next]_vars => IInv'
<1> SUFFICES ASSUME IInv, [Next]_vars PROVE IInv'
  OBVIOUS
<1>1. TypeOK /\ LocksHold /\ Grants /\ Custody /\ AuthorityReplacedAll
  BY DEF IInv, Grants, Custody
<1>2. TypeOK' /\ Grants' /\ AuthorityReplacedAll' /\ Custody'
  BY <1>1, NextTyped, GrantsKept, AuthorityKept, CustodyKept
<1> QED
  BY <1>2 DEF IInv, Grants, Custody

(* The connection is given up for a reason: whoever sets reauth_required    *)
(* closes a credential, and the provider's rejection was of a spoiled token.*)
LEMMA NoStepFalselyRevokes ==
  ASSUME IInv, [Next]_vars, account' = "reauth_required", account # "reauth_required"
  PROVE  \E s \in Sessions :
           /\ task[s].at = "closing" /\ task'[s] = Idle
           /\ \/ task[s].cause \in {"replay", "refused"}
              \/ task[s].token \in spoiled \cup {Blank}
<1>1. \E s \in Sessions : CloseCredential(s)
  <2>1. ASSUME NEW s \in Sessions, Callback(s) PROVE account' # "reauth_required"
    BY <2>1, Zenon DEF Callback, ConsumeIntent, ExchangeCode, BeginInsert, RecordRefusedGrant, InsertCredential,
                SetConnected, LockAccount, Activate, stored
  <2>2. ASSUME NEW s \in Sessions, Maintenance(s) PROVE CloseCredential(s)
    BY <2>2, Zenon DEF Maintenance, RefuseToken, RefreshAnswered, RefreshRejected, RefreshRefused, Rotate,
                RevokeAnswered, stored
  <2> QED
    BY <2>1, <2>2, Zenon DEF Next, vars, ExpireIntent, FindIntent, LockActive, EndWait, Fail, BreakDeadlock,
                      Abandon, stored
<1>2. PICK s \in Sessions : CloseCredential(s)
  BY <1>1
<1>3. TypeOK /\ TokensHonoured
  BY DEF IInv
<1>4. task[s] \in Closing /\ task'[s] = Idle
  BY <1>2, <1>3, TaskShape, OthersKept DEF CloseCredential
<1>5. task[s].cause \in {"replay", "unhonoured", "refused"}
  BY <1>2, <1>4 DEF CloseCredential, Closing
<1> QED
  BY <1>2, <1>3, <1>4, <1>5 DEF CloseCredential, TokensHonoured

(* IInv holds throughout.                                                   *)
THEOREM Invariance == Spec => []IInv
  BY InitEstablishes, NextPreserves, PTL DEF Spec

(* For any number of racing callbacks, an intent leads to at most one       *)
(* exchange and one credential (resolve_callback, consume_intent).          *)
THEOREM OneGrant == Spec => []OneGrantPerIntent
<1>1. IInv => OneGrantPerIntent
  BY DEF IInv
<1> QED
  BY <1>1, Invariance, PTL

(* The write authority names a grant that replaced every earlier active     *)
(* credential (activate).                                                   *)
THEOREM AuthorityReplaced == Spec => []AuthorityReplacedAll
<1>1. IInv => AuthorityReplacedAll
  BY DEF IInv
<1> QED
  BY <1>1, Invariance, PTL

(* However many refreshes and revocations race, the account comes to need   *)
(* reauthorization only for a cause, so never by a race of callers that     *)
(* present no token (refresh, lock_active_for_account).                     *)
THEOREM RefreshesAreSafe == Spec => NoFalseRevocation
<1>1. IInv /\ [Next]_vars =>
        [account' = "reauth_required" /\ account # "reauth_required" =>
           \E s \in Sessions :
             /\ task[s].at = "closing" /\ task'[s] = Idle
             /\ \/ task[s].cause \in {"replay", "refused"}
                \/ task[s].token \in spoiled \cup {Blank}]_vars
  BY NoStepFalselyRevokes
<1> QED
  BY <1>1, Invariance, PTL DEF Spec, NoFalseRevocation
=============================================================================
