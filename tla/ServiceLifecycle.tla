-------------------------- MODULE ServiceLifecycle --------------------------
(***************************************************************************)
(* The life of one service process (services/x/src/main.rs) and what its    *)
(* readiness endpoint answers (crates/x-http/src/admin.rs): bootstrap, the  *)
(* five bus tasks, the relay's health callback, the first stopped task or   *)
(* signal, the failure grace, the drain and the exit status.                *)
(***************************************************************************)
EXTENDS FiniteSets

CONSTANTS
  Tasks,   \* the bus tasks of spawn_bus_tasks
  Relay    \* the one that reports its health: outbox_relay

ASSUME TasksAssumption == Relay \in Tasks

VARIABLES
  main,       \* where run() is
  lifecycle,  \* RuntimeState.lifecycle
  database,   \* RuntimeState.database_ready
  bus,        \* RuntimeState.bus
  task,       \* what became of each bus task
  stop,       \* the watch channel stop_tx
  failure,    \* the failure slot
  signalled,  \* a SIGINT or SIGTERM came while the service was serving
  exit        \* the exit status

serviceVars == <<main, lifecycle, database, bus, task, stop, failure, signalled, exit>>
runtime == <<lifecycle, database, bus>>

Boot == {"config", "database", "bus", "spawn", "listen"}

ServiceTypeOK ==
  /\ main \in Boot \cup {"serving", "grace", "stopping", "draining", "joining", "exited"}
  /\ lifecycle \in {"starting", "ready", "draining"}
  /\ database \in BOOLEAN
  /\ bus \in {"unconfigured", "up", "down"}
  /\ task \in [Tasks -> {"none", "running", "failed", "stopped", "aborted"}]
  /\ {stop, failure, signalled} \subseteq BOOLEAN
  /\ exit \in {"none", "success", "failure", "config"}

ServiceInit ==
  /\ main = "config"
  /\ lifecycle = "starting" /\ database = FALSE /\ bus = "unconfigured"
  /\ task = [t \in Tasks |-> "none"]
  /\ stop = FALSE /\ failure = FALSE /\ signalled = FALSE
  /\ exit = "none"

Running(t) == task[t] = "running"

-----------------------------------------------------------------------------
(* Bootstrap: every step may fail, and a failure returns from run().        *)

LoadConfig ==
  /\ main = "config" /\ main' = "database"
  /\ UNCHANGED <<runtime, task, stop, failure, signalled, exit>>

OpenDatabase ==
  /\ main = "database" /\ main' = "bus"
  /\ UNCHANGED <<runtime, task, stop, failure, signalled, exit>>

(* The broker is connected and the durables verified before any check is    *)
(* met.                                                                     *)
OpenBus ==
  /\ main = "bus" /\ main' = "spawn"
  /\ database' = TRUE /\ bus' = "up"
  /\ UNCHANGED <<lifecycle, task, stop, failure, signalled, exit>>

SpawnBusTasks ==
  /\ main = "spawn" /\ main' = "listen"
  /\ task' = [t \in Tasks |-> "running"]
  /\ UNCHANGED <<runtime, stop, failure, signalled, exit>>

BindListener ==
  /\ main = "listen" /\ main' = "serving"
  /\ lifecycle' = "ready"
  /\ UNCHANGED <<database, bus, task, stop, failure, signalled, exit>>

(* exit_code: 78 for the configuration and the files it names, 1 for every  *)
(* other subsystem.  A CA file is read by spawn_bus_tasks.                  *)
ExitCode(at) == IF at \in {"config", "spawn"} THEN {"config", "failure"} ELSE {"failure"}

(* Leaving run() drops the JoinSet, which aborts what still runs.           *)
Dropped(tasks) == [t \in Tasks |-> IF tasks[t] = "running" THEN "aborted" ELSE tasks[t]]

BootFails ==
  /\ main \in Boot
  /\ main' = "exited"
  /\ exit' \in ExitCode(main)
  /\ task' = Dropped(task)
  /\ UNCHANGED <<runtime, stop, failure, signalled>>

-----------------------------------------------------------------------------
(* The bus tasks.                                                           *)

(* A task returns an error or panics before shutdown was requested.         *)
TaskFails(t) ==
  /\ Running(t)
  /\ task' = [task EXCEPT ![t] = "failed"]
  /\ UNCHANGED <<main, runtime, stop, failure, signalled, exit>>

(* A task sees the stop request and returns.                                *)
TaskStops(t) ==
  /\ Running(t) /\ stop
  /\ task' = [task EXCEPT ![t] = "stopped"]
  /\ UNCHANGED <<main, runtime, stop, failure, signalled, exit>>

(* set_bus_ready.                                                           *)
SetBusReady(ready) == bus' = IF ready THEN "up" ELSE "down"

(* The end of a relay pass: on_health(is_healthy).                          *)
RelayReports(healthy) ==
  /\ Running(Relay)
  /\ SetBusReady(healthy)
  /\ UNCHANGED <<main, lifecycle, database, task, stop, failure, signalled, exit>>

-----------------------------------------------------------------------------
(* The shutdown future, the server and the drain.                           *)

Answering == main \in {"serving", "grace", "stopping", "draining"}
Stopped == {t \in Tasks : task[t] \in {"failed", "stopped"}}

(* A fault that is only logged.                                             *)
ForgottenFault ==
  /\ main = "serving" /\ Stopped # {}
  /\ main' = "grace"
  /\ SetBusReady(FALSE)
  /\ UNCHANGED <<lifecycle, database, task, stop, failure, signalled, exit>>

NextExit ==
  /\ main = "serving" /\ Stopped # {}
  /\ main' = "grace"
  /\ SetBusReady(FALSE)
  /\ failure' = TRUE
  /\ UNCHANGED <<lifecycle, database, task, stop, signalled, exit>>

(* A drain the readiness check does not see.                                *)
SilentDrain ==
  /\ main' = "stopping"
  /\ UNCHANGED lifecycle

(* begin_drain: readiness is lost before any task is told to stop.          *)
BeginDrain ==
  /\ main' = "stopping"
  /\ lifecycle' = "draining"

Signal ==
  /\ main = "serving"
  /\ BeginDrain
  /\ signalled' = TRUE
  /\ UNCHANGED <<database, bus, task, stop, failure, exit>>

(* FAILURE_GRACE is over; a signal in the meantime changes nothing.         *)
GraceEnds ==
  /\ main = "grace"
  /\ BeginDrain
  /\ UNCHANGED <<database, bus, task, stop, failure, signalled, exit>>

(* stop_tx.send(true), the end of the shutdown future.                      *)
SendStop ==
  /\ main = "stopping" /\ main' = "draining"
  /\ stop' = TRUE
  /\ UNCHANGED <<runtime, task, failure, signalled, exit>>

(* The server finished the requests it had accepted.                        *)
ServerStops ==
  /\ main = "draining" /\ main' = "joining"
  /\ UNCHANGED <<runtime, task, stop, failure, signalled, exit>>

(* axum::serve returns an error: so does run(), and nothing is drained.     *)
ServerFails ==
  /\ Answering /\ main' = "exited"
  /\ exit' = "failure"
  /\ task' = Dropped(task)
  /\ UNCHANGED <<runtime, stop, failure, signalled>>

Status == IF failure THEN "failure" ELSE "success"

(* A drain with no deadline.                                                *)
PatientDrain ==
  /\ main = "joining" /\ main' = "exited"
  /\ \A t \in Tasks : ~Running(t)
  /\ exit' = Status
  /\ UNCHANGED <<runtime, task, stop, failure, signalled>>

(* drain_tasks: every task returned, or TASK_DRAIN is over and the rest is  *)
(* aborted.                                                                 *)
DrainTasks ==
  /\ main = "joining" /\ main' = "exited"
  /\ task' = Dropped(task)
  /\ exit' = Status
  /\ UNCHANGED <<runtime, stop, failure, signalled>>

-----------------------------------------------------------------------------
ServiceNext ==
  \/ LoadConfig \/ OpenDatabase \/ OpenBus \/ SpawnBusTasks \/ BindListener
  \/ BootFails
  \/ \E t \in Tasks : TaskFails(t) \/ TaskStops(t)
  \/ \E healthy \in BOOLEAN : RelayReports(healthy)
  \/ NextExit \/ Signal \/ GraceEnds \/ SendStop \/ ServerStops \/ ServerFails \/ DrainTasks

(* run() never blocks for good: the grace and the drain are timed, and the  *)
(* join set wakes it.  No fairness for the tasks, which may hang, for the   *)
(* signal or for failures.                                                  *)
Fairness ==
  /\ WF_serviceVars(LoadConfig \/ OpenDatabase \/ OpenBus \/ SpawnBusTasks \/ BindListener)
  /\ WF_serviceVars(NextExit) /\ WF_serviceVars(GraceEnds) /\ WF_serviceVars(SendStop)
  /\ WF_serviceVars(ServerStops) /\ WF_serviceVars(DrainTasks)

ServiceSpec == ServiceInit /\ [][ServiceNext]_serviceVars /\ Fairness

-----------------------------------------------------------------------------
(* What GET /health/ready answers: the bus is a check once it is registered, *)
(* and only a bound listener answers.                                       *)
Readiness == database /\ bus \in {"unconfigured", "up"} /\ lifecycle # "draining"
Answers200 == Answering /\ Readiness

(* A probe gets 200 only from a process that applied its schema, verified   *)
(* its durables and started every bus task, and never once shutdown began,  *)
(* whatever the relay still reports (RuntimeState::readiness).              *)
ReadyIsWired ==
  Answers200 => /\ \A t \in Tasks : task[t] # "none"
                /\ ~stop

(* The exit status tells an orderly stop from a fault: success needs a      *)
(* signal, and a fault seen first is not forgotten during the drain (the    *)
(* failure slot of run()).                                                  *)
ExitTellsFault ==
  exit = "success" => signalled /\ ~failure

(* A bus task that stops ends the process with a failure status, unless a   *)
(* signal won the race, even if every other task hangs.                     *)
FaultEndsProcess ==
  \A t \in Tasks :
    task[t] = "failed" ~> main = "exited" /\ (exit = "failure" \/ signalled)

(* What the comment at set_bus_ready(false) says: a bus task that returned  *)
(* before shutdown is a fault, never stay ready.  The relay's next report   *)
(* sets the same flag back during the grace.                                *)
NeverReadyAfterFault ==
  failure => ~Answers200
=============================================================================
