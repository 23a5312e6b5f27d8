---------------------------- MODULE GroupSchedule ----------------------------
(***************************************************************************)
(* The shared GroupScheduler actor and the TaskRunners that attach to it   *)
(* for as long as they run.                                                *)
(*                                                                         *)
(* A TaskRunner calls the scheduler three times: runtime_kind when it      *)
(* discovers the actor, attach_task, and detach_task in the finally        *)
(* clause.  Each ray.get has a timeout, and a call that timed out is still *)
(* in the scheduler's mailbox.  Ray keeps the calls of one caller in       *)
(* order, executes one at a time, may lose those of a caller that exits,   *)
(* and answers those to a dead scheduler with an error.  The name of a     *)
(* dead scheduler is free: the next TaskRunner creates a new instance,     *)
(* with an empty map, and the earlier ones keep a handle to the dead one.  *)
(***************************************************************************)
EXTENDS Integers, Sequences, SequencesExt

CONSTANTS
  Tasks,           \* TaskRunner actor ids
  MaxInstances     \* bound: scheduler instances created

ASSUME InstanceAssumption == MaxInstances \in Nat \ {0}

VARIABLES
  pc,              \* where run() of each TaskRunner is
  handle,          \* the scheduler instance each TaskRunner discovered
  answer,          \* of the ray.get a TaskRunner is waiting in
  mailbox,         \* calls of each TaskRunner not yet executed
  task_runners,    \* the map of the live instance
  instance,        \* the live instance, or 0
  instances,       \* instances created so far
  lost             \* history: TaskRunners whose detach was never executed

vars == <<pc, handle, answer, mailbox, task_runners, instance, instances, lost>>

Waits == [asking |-> "runtime_kind", attaching |-> "attach_task", detaching |-> "detach_task"]
Waiting(t) == pc[t] \in DOMAIN Waits
Ended == {"failed", "done", "crashed"}

-----------------------------------------------------------------------------
Init ==
  /\ pc = [t \in Tasks |-> "new"]
  /\ handle = [t \in Tasks |-> 0]
  /\ answer = [t \in Tasks |-> "none"]
  /\ mailbox = [t \in Tasks |-> <<>>]
  /\ task_runners = {}
  /\ instance = 0
  /\ instances = 0
  /\ lost = {}

(* MUTANT: a call to a dead instance waits for the next one. *)
CallQueued(t, live, where) ==
  /\ pc' = [pc EXCEPT ![t] = where]
  /\ mailbox' = [mailbox EXCEPT ![t] = Append(@, Waits[where])]
  /\ answer' = [answer EXCEPT ![t] = "none"]

(* A remote call, to an instance that is "live" or not, and the ray.get that
   follows it at "where". *)
Call(t, live, where) ==
  /\ pc' = [pc EXCEPT ![t] = where]
  /\ IF live
       THEN /\ mailbox' = [mailbox EXCEPT ![t] = Append(@, Waits[where])]
            /\ answer' = [answer EXCEPT ![t] = "none"]
       ELSE /\ answer' = [answer EXCEPT ![t] = "error"]
            /\ UNCHANGED mailbox

(* get_or_create_group_scheduler: the live instance, or a new one. *)
Discover(t) ==
  /\ pc[t] = "new"
  /\ IF instance # 0
       THEN UNCHANGED <<instance, instances>>
       ELSE /\ instances < MaxInstances
            /\ instances' = instances + 1
            /\ instance' = instances'
  /\ handle' = [handle EXCEPT ![t] = instance']
  /\ Call(t, TRUE, "asking")
  /\ UNCHANGED <<task_runners, lost>>

(* The instance is of the right kind; attach_task. *)
Attach(t) ==
  /\ pc[t] = "asking"
  /\ answer[t] = "ok"
  /\ Call(t, handle[t] = instance, "attaching")
  /\ UNCHANGED <<handle, task_runners, instance, instances, lost>>

(* MUTANT: discovery waits for the answer without a timeout. *)
DiscoveryFailsNoTimeout(t) ==
  /\ pc[t] = "asking"
  /\ answer[t] = "error"
  /\ pc' = [pc EXCEPT ![t] = "failed"]
  /\ UNCHANGED <<handle, answer, mailbox, task_runners, instance, instances, lost>>

(* No answer in 30 s, an error, or another kind: run() ends before its try. *)
DiscoveryFails(t) ==
  /\ pc[t] = "asking"
  /\ pc' = [pc EXCEPT ![t] = "failed"]
  /\ UNCHANGED <<handle, answer, mailbox, task_runners, instance, instances, lost>>

(* attach_task returned; the native run method starts. *)
Run(t) ==
  /\ pc[t] = "attaching"
  /\ answer[t] = "ok"
  /\ pc' = [pc EXCEPT ![t] = "running"]
  /\ UNCHANGED <<handle, answer, mailbox, task_runners, instance, instances, lost>>

(* MUTANTS: attach_task before the try; a detach_task that only the except
   clause of run() calls. *)
AttachFailsBeforeTry(t) ==
  /\ pc[t] = "attaching"
  /\ pc' = [pc EXCEPT ![t] = "failed"]
  /\ UNCHANGED <<handle, answer, mailbox, task_runners, instance, instances, lost>>
RunEndsSilently(t) ==
  /\ pc[t] = "running"
  /\ pc' = [pc EXCEPT ![t] = "done"]
  /\ UNCHANGED <<handle, answer, mailbox, task_runners, instance, instances, lost>>

(* attach_task raised or gave no answer in 120 s: the finally clause. *)
AttachFails(t) ==
  /\ pc[t] = "attaching"
  /\ answer[t] # "ok"
  /\ Call(t, handle[t] = instance, "detaching")
  /\ UNCHANGED <<handle, task_runners, instance, instances, lost>>

(* The native run method returned or raised: the finally clause. *)
RunEnds(t) ==
  /\ pc[t] = "running"
  /\ Call(t, handle[t] = instance, "detaching")
  /\ UNCHANGED <<handle, task_runners, instance, instances, lost>>

(* detach_task answered, raised, or gave no answer in 30 s: only a warning. *)
Leave(t) ==
  /\ pc[t] = "detaching"
  /\ pc' = [pc EXCEPT ![t] = "done"]
  /\ UNCHANGED <<handle, answer, mailbox, task_runners, instance, instances, lost>>

-----------------------------------------------------------------------------
(* The scheduler *)

(* MUTANT: detach_task clears the map. *)
DetachAll(runners, t) == {}

attach_task(runners, t) == runners \cup {t}
detach_task(runners, t) == runners \ {t}

(* The scheduler executes the next call of t; an answer to a ray.get that has
   timed out reaches nobody. *)
Execute(t) ==
  /\ mailbox[t] # <<>>
  /\ handle[t] = instance
  /\ LET call == Head(mailbox[t])
     IN  /\ task_runners' =
              CASE call = "attach_task" -> attach_task(task_runners, t)
                [] call = "detach_task" -> detach_task(task_runners, t)
                [] OTHER -> task_runners
         /\ answer' = IF Waiting(t) /\ Waits[pc[t]] = call
                        THEN [answer EXCEPT ![t] = "ok"] ELSE answer
  /\ mailbox' = [mailbox EXCEPT ![t] = Tail(@)]
  /\ UNCHANGED <<pc, handle, instance, instances, lost>>

(* The live instance dies with its map; every call to it is answered with an
   error. *)
SchedulerDies ==
  /\ instance # 0
  /\ instance' = 0
  /\ task_runners' = {}
  /\ mailbox' = [t \in Tasks |-> <<>>]
  /\ answer' = [t \in Tasks |->
                  IF Waiting(t) /\ answer[t] # "ok" THEN "error" ELSE answer[t]]
  /\ UNCHANGED <<pc, handle, instances, lost>>

(* Of the calls of a TaskRunner that is gone only the first n may still reach
   the scheduler.  The detach is lost when there is or will be something to
   detach and it is not among them. *)
DropCalls(t, n) ==
  LET left == SubSeq(mailbox[t], 1, n)
      attached == t \in task_runners \/ "attach_task" \in ToSet(left)
  IN  /\ mailbox' = [mailbox EXCEPT ![t] = left]
      /\ lost' = IF attached /\ "detach_task" \notin ToSet(left) THEN lost \cup {t} ELSE lost

(* The TaskRunner process is killed: no finally clause. *)
Crash(t) ==
  /\ pc[t] \notin Ended \cup {"new"}
  /\ pc' = [pc EXCEPT ![t] = "crashed"]
  /\ \E n \in 0 .. Len(mailbox[t]) : DropCalls(t, n)
  /\ UNCHANGED <<handle, answer, task_runners, instance, instances>>

(* A TaskRunner that has ended exits with calls outstanding. *)
Exit(t) ==
  /\ pc[t] \in {"failed", "done"}
  /\ \E n \in 0 .. (Len(mailbox[t]) - 1) : DropCalls(t, n)
  /\ UNCHANGED <<pc, handle, answer, task_runners, instance, instances>>

-----------------------------------------------------------------------------
TaskRunner(t) ==
  \/ Discover(t) \/ Attach(t) \/ DiscoveryFails(t)
  \/ Run(t) \/ AttachFails(t) \/ RunEnds(t) \/ Leave(t)

Next ==
  \/ \E t \in Tasks : TaskRunner(t) \/ Execute(t) \/ Crash(t) \/ Exit(t)
  \/ SchedulerDies

(* A ray.get returns when it is answered or its timeout fires, and a live scheduler works off its mailbox.
   The native run method need not end. *)
Fairness ==
  \A t \in Tasks :
    /\ WF_vars(DiscoveryFails(t))
    /\ WF_vars(Run(t))
    /\ WF_vars(AttachFails(t))
    /\ WF_vars(Leave(t))
    /\ WF_vars(Execute(t))

Spec == Init /\ [][Next]_vars
FairSpec == Spec /\ Fairness

-----------------------------------------------------------------------------
(* Types; only the live instance has calls to execute and a map. *)
TypeOK ==
  /\ pc \in [Tasks -> {"new", "running"} \cup DOMAIN Waits \cup Ended]
  /\ handle \in [Tasks -> 0 .. MaxInstances]
  /\ answer \in [Tasks -> {"none", "ok", "error"}]
  /\ \A t \in Tasks :
       /\ ToSet(mailbox[t]) \subseteq Range(Waits)
       /\ mailbox[t] # <<>> => handle[t] = instance
  /\ task_runners \subseteq {t \in Tasks : handle[t] = instance}
  /\ instance \in {0, instances}
  /\ instances \in 0 .. MaxInstances
  /\ lost \subseteq Tasks

(* While the native run method of a task executes, the scheduler it knows has
   its handle, unless that scheduler has died. *)
AttachedWhileRunning ==
  \A t \in Tasks : pc[t] = "running" /\ handle[t] = instance => t \in task_runners

(* Nothing is left over: a handle in the map, or still to be put there, belongs
   to a task that will detach, has sent its detach, or was cut off. In
   particular an attach_task that timed out cannot be executed after the
   detach_task that undoes it. *)
EntriesAccounted ==
  \A t \in Tasks :
    (t \in task_runners \/ "attach_task" \in ToSet(mailbox[t])) =>
      \/ pc[t] \in {"attaching", "running"}
      \/ mailbox[t] # <<>> /\ Last(mailbox[t]) = "detach_task"
      \/ t \in lost

(* A TaskRunner that has ended in its own way leaves the map in the end. *)
LeavesTheMap ==
  \A t \in Tasks :
    pc[t] = "done" ~> (t \notin task_runners \/ t \in lost)

(* No TaskRunner waits for ever for a scheduler that is slow, busy or dead. *)
NeverStuck == \A t \in Tasks : Waiting(t) ~> ~ Waiting(t)
=============================================================================
