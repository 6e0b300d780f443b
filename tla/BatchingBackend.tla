-------------------------- MODULE BatchingBackend --------------------------
(***************************************************************************)
(* The pubstack backend of the analytics crate under its runner: every     *)
(* logged event is pushed by a task of its own, which AnalyticsRunner      *)
(* abandons after module_timeout (analytics/src/runner.rs), onto a buffer  *)
(* shared behind a mutex and drained by whoever finds it full, by the      *)
(* background flusher and by shutdown (analytics/src/backends/pubstack.rs).*)
(***************************************************************************)
EXTENDS Naturals, Sequences, FiniteSets, Functions

CONSTANTS LogTasks,   \* the tasks the runner spawns, one per event
          BatchSize   \* PubstackConfig.batch_size

VARIABLES buffer,  \* Mutex<Vec<Value>>: events not yet taken by a flush
          task,    \* task -> none, pushing, flushing, posting, done, cut off
          held,    \* task -> the batch it took out of the buffer
          received,\* events the endpoint received
          failed,  \* events of posts the endpoint refused or never answered
          cut      \* events of batches whose post was cancelled

(* The two other callers of flush are no log tasks, and a batch holds an event. *)
ASSUME BatchingAssumption ==
  /\ IsFiniteSet(LogTasks) /\ LogTasks \cap {"flusher", "closer"} = {}
  /\ BatchSize \in Nat \ {0}

batchingVars == <<buffer, task, held, received, failed, cut>>

Flusher == "flusher"
Closer == "closer"
Actors == LogTasks \cup {Flusher, Closer}

BatchingInit ==
  /\ buffer = <<>>
  /\ task = [a \in Actors |-> "none"]
  /\ held = [a \in Actors |-> <<>>]
  /\ received = {} /\ failed = {} /\ cut = {}

(* fanout!: the runner spawns the module's log_* call. *)
SpawnLog(t) ==
  /\ t \in LogTasks /\ task[t] = "none"
  /\ task' = [task EXCEPT ![t] = "pushing"]
  /\ UNCHANGED <<buffer, held, received, failed, cut>>

(* A bug: the buffer must exceed the batch size. *)
PushLate(t) ==
  /\ task[t] = "pushing"
  /\ buffer' = Append(buffer, t)
  /\ task' = [task EXCEPT ![t] = IF Len(buffer') > BatchSize THEN "flushing" ELSE "done"]
  /\ UNCHANGED <<held, received, failed, cut>>

(* push: append under the lock; the lock is released before the flush. *)
Push(t) ==
  /\ task[t] = "pushing"
  /\ buffer' = Append(buffer, t)
  /\ task' = [task EXCEPT ![t] = IF Len(buffer') >= BatchSize THEN "flushing" ELSE "done"]
  /\ UNCHANGED <<held, received, failed, cut>>

(* A bug: the buffer is copied, not taken. *)
CopyBatch(a) ==
  /\ task[a] = "flushing"
  /\ task' = [task EXCEPT ![a] = "posting"]
  /\ held' = [held EXCEPT ![a] = buffer]
  /\ UNCHANGED <<buffer, received, failed, cut>>

(* flush: take the whole buffer under the lock, or return if it is empty. *)
TakeBatch(a) ==
  /\ task[a] = "flushing"
  /\ IF buffer = <<>>
     THEN task' = [task EXCEPT ![a] = IF a = Flusher THEN "none" ELSE "done"] /\ UNCHANGED <<buffer, held>>
     ELSE /\ task' = [task EXCEPT ![a] = "posting"]
          /\ held' = [held EXCEPT ![a] = buffer]
          /\ buffer' = <<>>
  /\ UNCHANGED <<received, failed, cut>>

(* The post of a batch returns; no failure is retried. *)
PostBatch(a) ==
  /\ task[a] = "posting"
  /\ \/ received' = received \cup Range(held[a]) /\ UNCHANGED failed
     \/ failed' = failed \cup Range(held[a]) /\ UNCHANGED received
  /\ held' = [held EXCEPT ![a] = <<>>]
  /\ task' = [task EXCEPT ![a] = IF a = Flusher THEN "none" ELSE "done"]
  /\ UNCHANGED <<buffer, cut>>

(* The flusher's timer; shutdown ends the flusher for good. *)
FlusherTick ==
  /\ task[Flusher] = "none" /\ task[Closer] = "none"
  /\ task' = [task EXCEPT ![Flusher] = "flushing"]
  /\ UNCHANGED <<buffer, held, received, failed, cut>>

(* shutdown: abort the flusher, wherever it is, then flush once more. *)
Shutdown ==
  /\ task[Closer] = "none"
  /\ task' = [task EXCEPT ![Closer] = "flushing", ![Flusher] = "done"]
  /\ cut' = cut \cup Range(held[Flusher])
  /\ held' = [held EXCEPT ![Flusher] = <<>>]
  /\ UNCHANGED <<buffer, received, failed>>

(* timeout(module_timeout, ...): the runner drops the call at its next await,
   and a batch the call had taken goes with it. *)
TimeOut(a) ==
  /\ a # Flusher /\ task[a] \in {"pushing", "flushing", "posting"}
  /\ task' = [task EXCEPT ![a] = "cutoff"]
  /\ cut' = cut \cup Range(held[a]) \cup (IF task[a] = "pushing" THEN {a} ELSE {})
  /\ held' = [held EXCEPT ![a] = <<>>]
  /\ UNCHANGED <<buffer, received, failed>>

BatchingNext ==
  \/ \E t \in LogTasks : SpawnLog(t) \/ Push(t)
  \/ \E a \in Actors : TakeBatch(a) \/ PostBatch(a) \/ TimeOut(a)
  \/ FlusherTick
  \/ Shutdown

BatchingSpec == BatchingInit /\ [][BatchingNext]_batchingVars

-----------------------------------------------------------------------------

(* Types: whatever is buffered or accounted for is an event some task logged. *)
BatchingTypeOK ==
  /\ Range(buffer) \subseteq LogTasks
  /\ task \in [Actors -> {"none", "pushing", "flushing", "posting", "done", "cutoff"}]
  /\ received \cup failed \cup cut \subseteq LogTasks

(* The lock is released between the push that fills the buffer and the flush it
   triggers, so the buffer may outgrow batch_size, but only by the tasks that
   are on their way to flush it, or that the runner cut off on that way. *)
OverflowIsOwed ==
  Len(buffer) < BatchSize + Cardinality({t \in Range(buffer) : task[t] \in {"flushing", "cutoff"}})

(* No event is in two batches, or both in a batch and in the buffer: flushes
   that race for the buffer never post it twice. *)
TakenOnce ==
  /\ IsInjective(buffer)
  /\ \A a, b \in Actors : a # b => Range(held[a]) \cap Range(held[b]) = {}
  /\ \A a \in Actors : Range(held[a]) \cap (Range(buffer) \cup received \cup failed \cup cut) = {}
  /\ received \cap failed = {} /\ (received \cup failed) \cap cut = {}

=============================================================================
