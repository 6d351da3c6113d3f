----------------------------- MODULE ApiBudget -----------------------------
(***************************************************************************)
(* The provider budget: BudgetGate (crates/x-budget/src/gate.rs) over the   *)
(* durable windows of crates/x-persistence/src/budget_windows.rs.  Callers  *)
(* race for one account's window; each reads the clock, charges the window  *)
(* in a transaction that holds the row lock, calls the provider and may     *)
(* refund.  PostgreSQL is external: a row lock blocks every other writer of *)
(* the row, and a commit or an update may be applied and its answer lost.   *)
(***************************************************************************)
EXTENDS Integers

CONSTANTS
  Ledgers,   \* account and budget class: the key of a window beside its start
  Callers,   \* callers of the gate
  NoCaller,  \* nobody holds the row lock
  Costs,     \* the costs callers ask for
  Cap,       \* request_cap_per_window
  Window,    \* window_seconds
  MaxTime    \* bound: the last instant of the clock

ASSUME BudgetAssumption ==
  /\ NoCaller \notin Callers
  /\ Costs \subseteq Nat \ {0} /\ Cap \in Nat
  /\ Window \in Nat \ {0} /\ MaxTime \in Nat

VARIABLES
  now,     \* the clock
  used,    \* used_requests, 0 where the window has no row
  opened,  \* windows that have a committed row
  lock,    \* who holds the lock of a window's row
  caller,  \* what each caller is doing
  granted  \* history: the cost of the calls made or about to be made

budgetVars == <<now, used, opened, lock, caller, granted>>

(* window_start may be any instant; which ones it takes is for reserve.     *)
Rows == Ledgers \X (0..MaxTime)

Outside == [at |-> "idle"]
Asking == [at : {"reserving", "full", "held"}, row : Rows, cost : Costs]
Charging == [at : {"reading"}, row : Rows, cost : Costs, read : Nat]

BudgetTypeOK ==
  /\ now \in 0..MaxTime
  /\ used \in [Rows -> Nat]
  /\ opened \subseteq Rows
  /\ lock \in [Rows -> Callers \cup {NoCaller}]
  /\ caller \in [Callers -> {Outside} \cup Asking \cup Charging]
  /\ granted \in [Rows -> Int]

BudgetInit ==
  /\ now = 0
  /\ used = [r \in Rows |-> 0] /\ granted = [r \in Rows |-> 0]
  /\ opened = {}
  /\ lock = [r \in Rows |-> NoCaller]
  /\ caller = [c \in Callers |-> Outside]

Tick ==
  /\ now < MaxTime
  /\ now' = now + 1
  /\ UNCHANGED <<used, opened, lock, caller, granted>>

-----------------------------------------------------------------------------
(* A window that starts at the reservation.                                 *)
UnalignedStart(t) == t

(* Aligns an instant down to the start of its window.  The specification of *)
(* the budget has a fresh window start at the reservation instead, see      *)
(* FreshWindowStartsNow below.                                              *)
WindowStartFor(t) == (t \div Window) * Window

(* reserve: a cost above the cap is refused before the clock is read.       *)
Reserve(c, l, cost) ==
  /\ caller[c] = Outside
  /\ cost <= Cap
  /\ caller' = [caller EXCEPT ![c] = [at |-> "reserving",
                  row |-> <<l, WindowStartFor(now)>>, cost |-> cost]]
  /\ UNCHANGED <<now, used, opened, lock, granted>>

(* Read without "for update".                                               *)
UnlockedRead(c) ==
  /\ caller[c].at = "reserving"
  /\ caller' = [caller EXCEPT ![c] = [at |-> "reading", row |-> @.row,
                  cost |-> @.cost, read |-> used[@.row]]]
  /\ UNCHANGED <<now, used, opened, lock, granted>>

(* charge: the row is ensured and read under its lock.                      *)
ReadUsage(c) ==
  /\ caller[c].at = "reserving"
  /\ lock[caller[c].row] = NoCaller
  /\ lock' = [lock EXCEPT ![caller[c].row] = c]
  /\ caller' = [caller EXCEPT ![c] = [at |-> "reading", row |-> @.row,
                  cost |-> @.cost, read |-> used[@.row]]]
  /\ UNCHANGED <<now, used, opened, granted>>

(* The comparison off by one.                                               *)
FitsStrictly(read, cost) == read + cost < Cap

Fits(read, cost) == read + cost <= Cap

Become(c, at) ==
  caller' = [caller EXCEPT ![c] = [at |-> at, row |-> @.row, cost |-> @.cost]]

(* The end of the transaction that holds the row.                           *)
Unlock(c) ==
  lock' = [lock EXCEPT ![caller[c].row] = IF @ = c THEN NoCaller ELSE @]

Refuse(c) ==
  /\ caller[c].at = "reading"
  /\ ~Fits(caller[c].read, caller[c].cost)
  /\ Unlock(c)
  /\ Become(c, "full")
  /\ UNCHANGED <<now, used, opened, granted>>

(* The caller gives the refusal up and returns it.                          *)
GiveUp(c) ==
  /\ caller[c].at = "full"
  /\ caller' = [caller EXCEPT ![c] = Outside]
  /\ UNCHANGED <<now, used, opened, lock, granted>>

Bump(c) ==
  /\ caller[c].at = "reading"
  /\ Fits(caller[c].read, caller[c].cost)
  /\ used' = [used EXCEPT ![caller[c].row] = @ + caller[c].cost]
  /\ opened' = opened \cup {caller[c].row}
  /\ Unlock(c)

(* The reservation is accepted: from here the caller calls the provider.    *)
Accept(c) ==
  /\ Bump(c)
  /\ Become(c, "held")
  /\ granted' = [granted EXCEPT ![caller[c].row] = @ + caller[c].cost]
  /\ UNCHANGED now

(* The commit is applied and its answer lost: an error, and no call.        *)
CommitLost(c) ==
  /\ Bump(c)
  /\ caller' = [caller EXCEPT ![c] = Outside]
  /\ UNCHANGED <<now, granted>>

(* An error or a crash inside the transaction rolls it back.                *)
Rollback(c) ==
  /\ caller[c].at \in {"reserving", "reading"}
  /\ Unlock(c)
  /\ caller' = [caller EXCEPT ![c] = Outside]
  /\ UNCHANGED <<now, used, opened, granted>>

(* The call was made, the process died holding the reservation, or a refund *)
(* failed without being applied.                                            *)
Keep(c) ==
  /\ caller[c].at = "held"
  /\ caller' = [caller EXCEPT ![c] = Outside]
  /\ UNCHANGED <<now, used, opened, lock, granted>>

Refunded(u, cost) == IF u >= cost THEN u - cost ELSE 0

(* refund: one statement, which waits for the row lock.  It applies to the  *)
(* window of the reservation, whatever the clock shows by now; an answer    *)
(* lost after it was applied changes nothing, as no caller tries again.     *)
Refund(c) ==
  /\ caller[c].at = "held"
  /\ lock[caller[c].row] = NoCaller
  /\ used' = [used EXCEPT ![caller[c].row] = Refunded(@, caller[c].cost)]
  /\ granted' = [granted EXCEPT ![caller[c].row] = @ - caller[c].cost]
  /\ caller' = [caller EXCEPT ![c] = Outside]
  /\ UNCHANGED <<now, opened, lock>>

-----------------------------------------------------------------------------
BudgetNext ==
  \/ Tick
  \/ \E c \in Callers :
       \/ \E l \in Ledgers, cost \in Costs : Reserve(c, l, cost)
       \/ ReadUsage(c) \/ Refuse(c) \/ GiveUp(c) \/ Accept(c) \/ CommitLost(c)
       \/ Rollback(c) \/ Keep(c) \/ Refund(c)

BudgetSpec == BudgetInit /\ [][BudgetNext]_budgetVars

-----------------------------------------------------------------------------
(* However reservations, refunds, crashes and lost answers interleave, the  *)
(* provider calls of one window never cost more than its cap, because every *)
(* one of them is covered by persisted usage (charge, refund).              *)
CallsStayUnderCap ==
  \A r \in Rows : granted[r] <= used[r] /\ used[r] <= Cap

(* A caller is told the window is full only if it is: at that instant the   *)
(* usage really leaves no room, although it was read earlier (charge).      *)
RefusedOnlyWhenFull ==
  [][\A c \in Callers :
       caller[c].at = "reading" /\ caller'[c].at = "full"
         => ~(used[caller[c].row] + caller[c].cost <= Cap)]_budgetVars

(* No instant has two allowances: the windows of a ledger that have a row   *)
(* do not overlap and none is opened ahead of its time, although racing     *)
(* callers read the clock at different instants, before any of them has     *)
(* opened the window, and may charge it when it is over (reserve,           *)
(* window_start_for, charge).                                               *)
WindowsAreDisjoint ==
  /\ \A r, s \in opened : r[1] = s[1] /\ r[2] < s[2] => r[2] + Window <= s[2]
  /\ \A r \in opened : r[2] <= now

Superseded(r) == \E o \in opened : o[1] = r[1] /\ o[2] > r[2]

(* What the budget specification says of rollover: once a fresh window was  *)
(* opened, prior windows are not mutated.  A late charge or refund does.    *)
PriorWindowsImmutable ==
  [][\A r \in Rows : Superseded(r) => used'[r] = used[r]]_budgetVars

Covers(r, t) == r[2] <= t /\ t < r[2] + Window

(* What the budget specification says of the start of a window: when none   *)
(* is open, the next reservation opens one "starting at that moment".  The  *)
(* code opens the aligned window the moment falls in.                       *)
FreshWindowStartsNow ==
  [][\A c \in Callers :
       /\ caller[c] = Outside /\ caller'[c] # Outside
       /\ ~\E o \in opened : o[1] = caller'[c].row[1] /\ Covers(o, now)
       => caller'[c].row[2] = now]_budgetVars
=============================================================================
