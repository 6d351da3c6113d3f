---------------------------- MODULE Credentials ----------------------------
(***************************************************************************)
(* The OAuth connection of one account: callback resolution                 *)
(* (crates/x-oauth/src/callback.rs), the four flows of ConnectionService    *)
(* (crates/x-oauth/src/service.rs) and the tables they share                *)
(* (crates/x-persistence/src/{oauth_intents,credentials,                    *)
(* bookmark_write_authorizations}.rs).  Sessions run the flows at the same  *)
(* time; each statement or transaction is a step and each provider call     *)
(* lies between two steps.  Tokens are numbered as the provider mints them. *)
(* The provider and PostgreSQL's row locks are external.                    *)
(***************************************************************************)
EXTENDS Integers, Sequences, FiniteSets

CONSTANTS
  Sessions,      \* tasks that run a flow
  ReadIntents,   \* intents of purpose read_connection
  WriteIntents,  \* intents of purpose bookmark_write
  None,          \* no intent
  MaxTokens,     \* bound: refresh tokens the provider mints
  MaxInserts     \* bound: transactions begun to insert a credential

Intents == ReadIntents \cup WriteIntents

ASSUME IntentAssumption ==
  /\ ReadIntents \cap WriteIntents = {} /\ None \notin Intents
  /\ MaxTokens \in Nat /\ MaxInserts \in Nat

VARIABLES
  consumed,   \* intents whose consumed_at is set
  expired,    \* intents whose expires_at has passed
  rows,       \* credentials of the account, in the order of their commits
  account,    \* accounts.state
  authority,  \* oauth_intent_id of the active bookmark_write_authorizations row
  begun,      \* database clock: inserting transactions begun so far
  task,       \* what each session is doing
  minted,     \* provider: refresh tokens minted so far
  live,       \* provider: refresh tokens it still honours
  spoiled     \* history: tokens revoked or rotated in vain

vars == <<consumed, expired, begun, rows, account, authority, task, minted, live, spoiled>>
clock == <<expired, begun>>
stored == <<consumed, rows, account, authority>>
provider == <<minted, live, spoiled>>

Unborn == 0  \* no transaction begun
Blank == 0  \* an emptied payload, an absent superseded hash, no presented token
Idle == [at |-> "idle"]

(* born is created_at, that is now(), which stands still from the start of  *)
(* the transaction that inserts the row.  intent names the intent a row     *)
(* comes from; the code keeps it only for the write authorization.          *)
Credential == [status : {"active", "expired", "revoked"}, token : 0..MaxTokens,
               superseded : 0..MaxTokens, intent : Intents, born : 0..MaxInserts]
Answering == [at : {"found", "accepted"}, intent : Intents]
Granted == [at : {"granted"}, intent : Intents, token : 0..MaxTokens, complete : BOOLEAN,
            born : 0..MaxInserts]
Activating == [at : {"activating"}, intent : WriteIntents, token : 0..MaxTokens,
               complete : {TRUE}, born : 0..MaxInserts]
Locking == [at : {"locking"}, op : {"refresh", "revoke"}, presented : 0..MaxTokens,
            snapshot : SUBSET Nat]
Holding == [at : {"holding"}, op : {"refresh", "revoke"}, presented : 0..MaxTokens,
            row : Nat, token : 0..MaxTokens]
Rotating == [at : {"rotating"}, row : Nat, token : 0..MaxTokens,
             fresh : 0..MaxTokens]
Closing == [at : {"closing"}, row : Nat, token : 0..MaxTokens,
            cause : {"replay", "unhonoured", "refused", "request"}]
Tasks == {Idle, [at |-> "connecting"]} \cup Answering \cup Granted
           \cup Activating \cup Locking \cup Holding \cup Rotating \cup Closing

TypeOK ==
  /\ consumed \subseteq Intents /\ expired \subseteq Intents /\ begun \in 0..MaxInserts
  /\ rows \in Seq(Credential)
  /\ account \in {"connected", "reauth_required", "revoked"}
  /\ authority \in WriteIntents \cup {None}
  /\ task \in [Sessions -> Tasks]
  /\ minted \in 0..MaxTokens
  /\ live \subseteq 1..minted /\ spoiled \subseteq 0..MaxTokens

(* An account row starts connected, before it has any credential.           *)
Init ==
  /\ consumed = {} /\ expired = {} /\ begun = 0 /\ rows = <<>>
  /\ account = "connected" /\ authority = None
  /\ task = [s \in Sessions |-> Idle]
  /\ minted = 0 /\ live = {} /\ spoiled = {}

-----------------------------------------------------------------------------
(* Locks.  A transaction keeps the row it locked until it ends; activate    *)
(* keeps the account row, and the foreign key makes an insert wait for it.  *)
HoldsRow(s) == task[s].at \in {"holding", "rotating", "closing"}
RowFree(i) == \A s \in Sessions : HoldsRow(s) => task[s].row # i
AccountFree == \A s \in Sessions : task[s].at # "activating"

Active == {i \in DOMAIN rows : rows[i].status = "active"}

Become(s, t) == task' = [task EXCEPT ![s] = t]

(* Of a consumed intent, the expiry only changes how a replay is refused.   *)
ExpireIntent(i) ==
  /\ i \notin expired \cup consumed
  /\ expired' = expired \cup {i}
  /\ UNCHANGED <<stored, begun, task, provider>>

-----------------------------------------------------------------------------
(* resolve_callback: the lookup and the expiry check; an unmatched or an    *)
(* expired callback ends here.                                              *)
FindIntent(s, i) ==
  /\ task[s] = Idle
  /\ i \notin expired
  /\ Become(s, [at |-> "found", intent |-> i])
  /\ UNCHANGED <<stored, clock, provider>>

(* The update without "consumed_at is null".                                *)
ConsumeAgain(s) ==
  /\ task[s].at = "found"
  /\ consumed' = consumed \cup {task[s].intent}
  /\ Become(s, [at |-> "accepted", intent |-> task[s].intent])
  /\ UNCHANGED <<clock, rows, account, authority, provider>>

(* consume_intent: the guarded update accepts one presentation.             *)
ConsumeIntent(s) ==
  /\ task[s].at = "found"
  /\ consumed' = consumed \cup {task[s].intent}
  /\ Become(s, IF task[s].intent \in consumed THEN Idle
               ELSE [at |-> "accepted", intent |-> task[s].intent])
  /\ UNCHANGED <<clock, rows, account, authority, provider>>

(* A successful answer of the token endpoint: a new refresh token, or none, *)
(* which parse_token_response turns into an empty one.                      *)
Mint(fresh) ==
  /\ fresh \in {Blank, minted + 1} /\ fresh <= MaxTokens
  /\ minted' = IF fresh = Blank THEN minted ELSE fresh

(* The grant the provider echoes for the code may lack scopes; the tokens   *)
(* of such a grant go nowhere.                                              *)
ExchangeCode(s, fresh, complete) ==
  /\ task[s].at = "accepted"
  /\ complete \/ fresh = Blank
  /\ Mint(fresh)
  /\ live' = live \cup ({fresh} \ {Blank})
  /\ Become(s, [at |-> "granted", intent |-> task[s].intent, token |-> fresh,
                complete |-> complete, born |-> Unborn])
  /\ UNCHANGED <<stored, clock, spoiled>>

Row(status, token, i, born) ==
  [status |-> status, token |-> token, superseded |-> Blank, intent |-> i, born |-> born]

(* A downgraded or a foreign grant leaves an expired row without payload,   *)
(* whose age no query of the flows asks for.                                *)
RecordRefusedGrant(s) ==
  /\ task[s].at = "granted" /\ ~task[s].complete
  /\ AccountFree
  /\ rows' = Append(rows, Row("expired", Blank, task[s].intent, Unborn))
  /\ Become(s, Idle)
  /\ UNCHANGED <<consumed, clock, account, authority, provider>>

(* The start of the transaction that inserts an active row: the statement   *)
(* of exchange_code, or activate.  The account's lock may hold it up.       *)
BeginInsert(s) ==
  /\ task[s].at = "granted" /\ task[s].complete /\ task[s].born = Unborn
  /\ begun < MaxInserts
  /\ begun' = begun + 1
  /\ task' = [task EXCEPT ![s].born = begun + 1]
  /\ UNCHANGED <<stored, expired, provider>>

(* exchange_code: the active row first ...                                  *)
InsertCredential(s) ==
  /\ task[s].at = "granted" /\ task[s].complete /\ task[s].intent \in ReadIntents
  /\ task[s].born # Unborn
  /\ AccountFree
  /\ rows' = Append(rows, Row("active", task[s].token, task[s].intent, task[s].born))
  /\ Become(s, [at |-> "connecting"])
  /\ UNCHANGED <<consumed, clock, account, authority, provider>>

(* ... and the account state by a statement of its own.                     *)
SetConnected(s) ==
  /\ task[s].at = "connecting"
  /\ AccountFree
  /\ account' = "connected"
  /\ Become(s, Idle)
  /\ UNCHANGED <<consumed, clock, rows, authority, provider>>

(* exchange_bookmark_write_code: the provider names the identity, activate  *)
(* locks the account and compares owner and identity.                       *)
LockAccount(s, matches) ==
  /\ task[s].at = "granted" /\ task[s].complete /\ task[s].intent \in WriteIntents
  /\ task[s].born # Unborn
  /\ AccountFree
  /\ task' = [task EXCEPT ![s].at = IF matches THEN "activating" ELSE "granted",
                          ![s].complete = matches]
  /\ UNCHANGED <<stored, clock, provider>>

(* Only the newest active credential is replaced.                           *)
ExpireNewest(rs) ==
  [i \in DOMAIN rs |->
     IF /\ rs[i].status = "active"
        /\ \A j \in DOMAIN rs : rs[j].status = "active" => rs[j].born <= rs[i].born
       THEN [rs[i] EXCEPT !.status = "expired"] ELSE rs[i]]

ExpireActive(rs) ==
  [i \in DOMAIN rs |->
     IF rs[i].status = "active" THEN [rs[i] EXCEPT !.status = "expired"] ELSE rs[i]]

(* activate: the replacement and the authority commit together, once no     *)
(* other transaction holds a credential that has to expire.                 *)
Activate(s) ==
  /\ task[s].at = "activating"
  /\ \A i \in Active : RowFree(i)
  /\ rows' = Append(ExpireActive(rows),
                    Row("active", task[s].token, task[s].intent, task[s].born))
  /\ authority' = task[s].intent
  /\ Become(s, Idle)
  /\ UNCHANGED <<consumed, clock, account, provider>>

-----------------------------------------------------------------------------
(* lock_active_for_account takes the newest active row it sees.  Without    *)
(* one, refresh refuses and revoke succeeds: no step.  The caller of a      *)
(* refresh presents a token, or none and so the one on file.                *)
Hold(s, op, presented, i) ==
  Become(s, [at |-> "holding", op |-> op, row |-> i, token |-> rows[i].token,
             presented |-> IF presented = Blank THEN rows[i].token ELSE presented])

(* "order by created_at desc, id desc limit 1": the order of the commits    *)
(* does not matter.                                                         *)
Newest(S) == CHOOSE i \in S : \A j \in S : rows[i].born >= rows[j].born

(* The select without "for update".                                         *)
ReadActive(s, op, presented) ==
  /\ task[s] = Idle
  /\ op = "revoke" => presented = Blank
  /\ Active # {}
  /\ Hold(s, op, presented, Newest(Active))
  /\ UNCHANGED <<stored, clock, provider>>

LockActive(s, op, presented) ==
  /\ task[s] = Idle
  /\ op = "revoke" => presented = Blank
  /\ Active # {}
  /\ IF RowFree(Newest(Active))
       THEN Hold(s, op, presented, Newest(Active))
       ELSE Become(s, [at |-> "locking", op |-> op, presented |-> presented,
                       snapshot |-> Active])
  /\ UNCHANGED <<stored, clock, provider>>

(* The wait ends.  A row that is no longer active is skipped for an older   *)
(* one the select saw; a newer one it cannot see.                           *)
EndWait(s) ==
  /\ task[s].at = "locking"
  /\ LET seen == task[s].snapshot \cap Active
     IN IF seen = {} THEN Become(s, Idle)
        ELSE RowFree(Newest(seen)) /\ Hold(s, task[s].op, task[s].presented, Newest(seen))
  /\ UNCHANGED <<stored, clock, provider>>

Close(s, cause) ==
  Become(s, [at |-> "closing", row |-> task[s].row, token |-> task[s].token,
             cause |-> cause])

(* Reuse of the retired token revokes; any other foreign token is stale.    *)
RefuseToken(s) ==
  /\ task[s].at = "holding"
  /\ task[s].presented # task[s].token
  /\ IF task[s].presented = rows[task[s].row].superseded
       THEN Close(s, "replay")
       ELSE Become(s, Idle)
  /\ UNCHANGED <<stored, clock, provider>>

Refreshes(s) ==
  /\ task[s].at = "holding" /\ task[s].op = "refresh"
  /\ task[s].presented = task[s].token

(* The provider rotates a token it honours, or answers without a new one.   *)
RefreshAnswered(s, fresh) ==
  /\ Refreshes(s)
  /\ task[s].token \in live
  /\ Mint(fresh)
  /\ live' = IF fresh = Blank THEN live ELSE (live \ {task[s].token}) \cup {fresh}
  /\ Become(s, [at |-> "rotating", row |-> task[s].row, token |-> task[s].token,
                fresh |-> fresh])
  /\ UNCHANGED <<stored, clock, spoiled>>

(* It rejects one it does not honour.                                       *)
RefreshRejected(s) ==
  /\ Refreshes(s)
  /\ task[s].token \notin live
  /\ Close(s, "unhonoured")
  /\ UNCHANGED <<stored, clock, provider>>

(* The provider withdrew the token, or answered with any other status than  *)
(* a success, which counts as a rejection.                                  *)
RefreshRefused(s) ==
  /\ Refreshes(s)
  /\ Close(s, "refused")
  /\ UNCHANGED <<stored, clock, provider>>

(* rotate_guarded_tx and the commit.                                        *)
Rotate(s) ==
  /\ task[s].at = "rotating"
  /\ rows' = IF rows[task[s].row].status = "active"
               THEN [rows EXCEPT ![task[s].row].token = task[s].fresh,
                                 ![task[s].row].superseded = task[s].token]
               ELSE rows
  /\ Become(s, Idle)
  /\ UNCHANGED <<consumed, clock, account, authority, provider>>

(* revoke posts the access token, and any completed answer will do: the     *)
(* provider may or may not withdraw the refresh token with it.              *)
RevokeAnswered(s) ==
  /\ task[s].at = "holding" /\ task[s].op = "revoke"
  /\ live' \in {live, live \ {task[s].token}}
  /\ spoiled' = spoiled \cup {task[s].token}
  /\ Close(s, "request")
  /\ UNCHANGED <<stored, clock, minted>>

(* scrub_revoke_tx after a replay or for revoke, mark_expired_tx after a    *)
(* rejection, which keeps the payload; the account state, and the commit.   *)
CloseCredential(s) ==
  /\ task[s].at = "closing"
  /\ AccountFree
  /\ rows' = [rows EXCEPT ![task[s].row] =
                 IF task[s].cause \in {"replay", "request"}
                   THEN [@ EXCEPT !.status = "revoked", !.token = Blank]
                   ELSE [@ EXCEPT !.status = "expired"]]
  /\ account' = IF task[s].cause = "request" THEN "revoked" ELSE "reauth_required"
  /\ Become(s, Idle)
  /\ UNCHANGED <<consumed, clock, authority, provider>>

-----------------------------------------------------------------------------
(* An error, a timeout or a crash ends a flow: its transaction rolls back,  *)
(* and a rotation whose answer did not arrive or was not stored is lost.    *)
Abandon(s) ==
  /\ Become(s, Idle)
  /\ spoiled' = IF task[s].at = "rotating" THEN spoiled \cup {task[s].token} ELSE spoiled
  /\ UNCHANGED <<stored, clock, minted, live>>

Fail(s) == task[s] # Idle /\ Abandon(s)

(* activate holds the account and waits for a row; the holder of the row    *)
(* waits for the account.  PostgreSQL aborts one of the two.                *)
Deadlocked(s) ==
  \/ task[s].at = "activating" /\ \E t \in Sessions : task[t].at = "closing"
  \/ task[s].at = "closing" /\ ~AccountFree

BreakDeadlock(s) == Deadlocked(s) /\ Abandon(s)

-----------------------------------------------------------------------------
Callback(s) ==
  \/ ConsumeIntent(s)
  \/ \E fresh \in 0..MaxTokens, complete \in BOOLEAN : ExchangeCode(s, fresh, complete)
  \/ BeginInsert(s) \/ RecordRefusedGrant(s) \/ InsertCredential(s) \/ SetConnected(s)
  \/ \E matches \in BOOLEAN : LockAccount(s, matches)
  \/ Activate(s)

Maintenance(s) ==
  \/ RefuseToken(s) \/ (\E fresh \in 0..MaxTokens : RefreshAnswered(s, fresh))
  \/ RefreshRejected(s) \/ RefreshRefused(s) \/ Rotate(s) \/ RevokeAnswered(s) \/ CloseCredential(s)

Next ==
  \/ \E i \in Intents : ExpireIntent(i)
  \/ \E s \in Sessions :
       \/ \E i \in Intents : FindIntent(s, i)
       \/ \E op \in {"refresh", "revoke"}, p \in 0..minted : LockActive(s, op, p)
       \/ Callback(s) \/ EndWait(s) \/ Maintenance(s)
       \/ Fail(s) \/ BreakDeadlock(s)

Spec == Init /\ [][Next]_vars

(* What a session does once begun.  A provider call ends by its timeout,    *)
(* the lock queues are fair, and a deadlock is broken.                      *)
Steps(s) == Callback(s) \/ EndWait(s) \/ Maintenance(s) \/ BreakDeadlock(s)

FairSpec == Spec /\ \A s \in Sessions : SF_vars(Steps(s))

-----------------------------------------------------------------------------
PastAcceptance(i) ==
  {s \in Sessions : task[s].at \in {"accepted", "granted", "activating"} /\ task[s].intent = i}
RowsOf(i) == {r \in DOMAIN rows : rows[r].intent = i}

(* However callbacks race, one presentation of an intent is accepted: it    *)
(* leads to at most one exchange and at most one credential row             *)
(* (resolve_callback, consume_intent).                                      *)
OneGrantPerIntent ==
  \A i \in Intents :
    /\ \A s, t \in PastAcceptance(i) : s = t
    /\ \A q, r \in RowsOf(i) : q = r
    /\ PastAcceptance(i) = {} \/ RowsOf(i) = {}

(* Racing refreshes of callers that present no token, and so use the one on *)
(* file, never cost the account its connection: it comes to need            *)
(* reauthorization only after the provider gave no usable answer or no      *)
(* longer honoured the token on file, or after a caller presented a retired *)
(* token (refresh, lock_active_for_account).  That last case is how two     *)
(* racers that both present the current token still end: the second finds   *)
(* its token superseded, and the reuse check revokes the credential.        *)
NoFalseRevocation ==
  [][account' = "reauth_required" /\ account # "reauth_required" =>
       \E s \in Sessions :
         /\ task[s].at = "closing" /\ task'[s] = Idle
         /\ \/ task[s].cause \in {"replay", "refused"}
            \/ task[s].token \in spoiled \cup {Blank}]_vars

(* The write authority names a grant that replaced, in one step, every      *)
(* credential before it, whatever refresh or revocation was under way       *)
(* (activate).                                                              *)
AuthorityReplacedAll ==
  authority # None =>
    \E r \in DOMAIN rows :
      /\ rows[r].intent = authority
      /\ Active \subseteq r..Len(rows)

(* Every flow comes to its end: no session waits for ever for a row, for    *)
(* the account, or for another that waits for it (refresh, revoke,          *)
(* activate).                                                               *)
EveryFlowEnds == \A s \in Sessions : task[s] # Idle ~> task[s] = Idle

-----------------------------------------------------------------------------
(* "Revocation scrubs material": when the account becomes revoked, no       *)
(* credential stays active.  The code does not keep this for an account     *)
(* that was connected again, as exchange_code leaves the older row active   *)
(* and revoke closes only the newest.                                       *)
RevocationScrubs ==
  [][account # "revoked" /\ account' = "revoked" => Active' = {}]_vars
=============================================================================
