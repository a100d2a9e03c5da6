----------------------------- MODULE Admission -----------------------------
(***************************************************************************)
(* An orchestrator (agent.py, pipeline.py) that submits several tasks at   *)
(* once, through a hub that tests each one (hub.py, TASK_SUBMIT) and may   *)
(* retain it for a person to approve, to executors that may be offline,    *)
(* slow or never done.  A refusal names its task, or names none.           *)
(***************************************************************************)
EXTENDS Guardrails, Sequences

CONSTANTS
  Fans,          \* the lists of branches fan_out may be given
  NoFunds,       \* tasks whose escrow is refused
  NeedsApproval, \* tasks a rule of the approval policy retains
  MaxTimeouts,   \* bound: submit_task calls that give up
  MaxDrops       \* bound: losses of the orchestrator's connection

ASSUME AdmissionAssumption ==
  /\ NoFunds \subseteq Tasks /\ NeedsApproval \subseteq Tasks /\ Fans \subseteq Seq(Tasks)
  /\ {MaxTimeouts, MaxDrops} \subseteq Nat

VARIABLES
  future,      \* _pending_tasks: what became of each call of submit_task
  connected,   \* the orchestrator's connection is up
  toHub,       \* TASK_SUBMITs sent and not read
  toAgent,     \* errors and updates sent and not read
  stage,       \* where the hub or an executor is with each task
  timeouts, drops  \* counters of the bounds

clientVars == <<future, connected, toHub, toAgent, timeouts, drops>>
vars == <<now, engineVars, gateVars, clientVars, stage>>

(* Retained in pending_approvals, denied; in the registry and not with its *)
(* executor, with it, begun, its end sent.                                 *)
Stages == {"none", "retained", "denied", "queued", "assigned", "working", "done"}

Pending == {t \in Tasks : future[t] = "waiting"}
Error(t)     == [type |-> "error", task |-> t]   \* task_id in its content
Unnamed      == [type |-> "error", task |-> NoTask]
Update(t, s) == [type |-> s, task |-> t]

Init ==
  /\ GuardrailsInit
  /\ future = [t \in Tasks |-> "none"]
  /\ connected = TRUE
  /\ toHub = << >> /\ toAgent = << >>
  /\ timeouts = 0 /\ drops = 0
  /\ stage = [t \in Tasks |-> "none"]

Answer(m) == toAgent' = IF connected THEN Append(toAgent, m) ELSE toAgent

(***************************************************************************)
(* The orchestrator                                                        *)
(***************************************************************************)
(* fan_out: submit_task for every branch, to its send.                     *)
FanOut(fan) ==
  /\ connected /\ \A t \in Tasks : future[t] = "none"
  /\ future' = [t \in Tasks |-> IF \E i \in DOMAIN fan : fan[i] = t
                                  THEN "waiting" ELSE "none"]
  /\ toHub' = fan
  /\ UNCHANGED <<now, engineVars, gateVars, connected, toAgent, timeouts, drops, stage>>

Timeout(t) ==
  /\ timeouts < MaxTimeouts
  /\ t \in Pending
  /\ timeouts' = timeouts + 1
  /\ future' = [future EXCEPT ![t] = "timeout"]
  /\ UNCHANGED <<now, engineVars, gateVars, connected, toHub, toAgent, drops, stage>>

ConcernedNone(m) == {m.task} \cap Tasks

(* The futures that fail with an error: the one it names, or all of them.  *)
Concerned(m) == IF m.task # NoTask THEN {m.task} ELSE Pending

ReadError ==
  /\ toAgent # << >> /\ Head(toAgent).type = "error"
  /\ toAgent' = Tail(toAgent)
  /\ future' = [t \in Tasks |-> IF t \in Concerned(Head(toAgent)) \cap Pending
                                  THEN "refused" ELSE future[t]]
  /\ UNCHANGED <<now, engineVars, gateVars, connected, toHub, timeouts, drops, stage>>

ReadUpdate ==
  /\ toAgent # << >> /\ Head(toAgent).type \in {"completed", "failed"}
  /\ toAgent' = Tail(toAgent)
  /\ LET m == Head(toAgent)
     IN  future' = IF m.task \in Pending THEN [future EXCEPT ![m.task] = m.type]
                                         ELSE future
  /\ UNCHANGED <<now, engineVars, gateVars, connected, toHub, timeouts, drops, stage>>

(* The listen loop ends and fails what is pending: what the hub answers    *)
(* later finds no future, on this connection or on the next.               *)
Drop ==
  /\ drops < MaxDrops /\ connected
  /\ drops' = drops + 1
  /\ connected' = FALSE
  /\ toAgent' = << >>
  /\ future' = [t \in Tasks |-> IF t \in Pending THEN "lost" ELSE future[t]]
  /\ UNCHANGED <<now, engineVars, gateVars, toHub, timeouts, stage>>

(***************************************************************************)
(* The hub: TASK_SUBMIT                                                    *)
(***************************************************************************)
Read(t) == toHub # << >> /\ t = Head(toHub) /\ toHub' = Tail(toHub)
ClientStill == UNCHANGED <<now, future, connected, timeouts, drops>>
Enters(t, st) == stage' = [stage EXCEPT ![t] = st]

RefuseByGuardrail(t) ==
  /\ Read(t)
  /\ Isolated \/ Violation(t)
  /\ Answer(Unnamed)
  /\ UNCHANGED <<gateVars, stage>> /\ ClientStill

(* Counted by the guardrails, and refused: HUB_SATURATED names the task.   *)
RefuseBySaturation(t) ==
  /\ Read(t)
  /\ Validated(t) /\ Saturated
  /\ Answer(Error(t))
  /\ UNCHANGED stage /\ ClientStill

(* Put aside before any hold, and nothing is answered: the orchestrator    *)
(* waits as it would for a slow executor.                                  *)
RetainTask(t) ==
  /\ Read(t)
  /\ Validated(t) /\ TakeToken
  /\ t \in NeedsApproval
  /\ Enters(t, "retained") /\ accepted' = accepted \cup {At(t)}
  /\ UNCHANGED <<toAgent, registry>> /\ ClientStill

RefuseByEscrow(t) ==
  /\ Read(t)
  /\ Validated(t) /\ TakeToken
  /\ t \in NoFunds \ NeedsApproval
  /\ Answer(Unnamed)
  /\ UNCHANGED <<registry, accepted, stage>> /\ ClientStill

(* The end of finalize_task_submission: the executor may be offline.       *)
Deliver(t) == Enters(t, "assigned") \/ Enters(t, "queued")

AcceptTask(t) ==
  /\ Read(t)
  /\ Validated(t) /\ TakeToken
  /\ t \notin NoFunds \cup NeedsApproval
  /\ Accept(t) /\ Deliver(t)
  /\ UNCHANGED toAgent /\ ClientStill

HandleSubmit(t) == \/ RefuseByGuardrail(t) \/ RefuseBySaturation(t)
                   \/ RetainTask(t) \/ RefuseByEscrow(t) \/ AcceptTask(t)

(***************************************************************************)
(* An administrator.  None of this tells the orchestrator anything.        *)
(***************************************************************************)
OnlyTask == UNCHANGED <<now, engineVars, tokens, last, accepted, clientVars>>

(* Past the limits.  A hold that is refused is told to the approver, and   *)
(* the task stays retained.                                                *)
Approve(t) ==
  /\ stage[t] = "retained" /\ t \notin NoFunds
  /\ registry' = [registry EXCEPT ![t] = "pending"] /\ Deliver(t)
  /\ OnlyTask

Deny(t) ==
  /\ stage[t] = "retained" /\ Enters(t, "denied")
  /\ UNCHANGED registry /\ OnlyTask

(* task.cancel: the executor is told nothing either, and may still answer. *)
Cancel(t) ==
  /\ registry[t] \in {"pending", "running"}
  /\ registry' = [registry EXCEPT ![t] = "failed"]
  /\ UNCHANGED stage /\ OnlyTask

(***************************************************************************)
(* Executors                                                               *)
(***************************************************************************)
(* One registers: its pending tasks are sent again.                        *)
Resume(t) ==
  /\ stage[t] = "queued" /\ registry[t] = "pending"
  /\ Enters(t, "assigned")
  /\ UNCHANGED registry /\ OnlyTask

Begin(t) ==
  /\ stage[t] = "assigned" /\ Enters(t, "working")
  /\ registry' = [registry EXCEPT ![t] = "running"]
  /\ OnlyTask

Finish(t) ==
  /\ stage[t] = "working" /\ Enters(t, "done")
  /\ \E s \in {"completed", "failed"} :
       /\ registry' = [registry EXCEPT ![t] = s]
       /\ Answer(Update(t, s))
  /\ UNCHANGED <<engineVars, tokens, last, accepted, toHub>> /\ ClientStill

Tick ==
  /\ now < MaxTime
  /\ now' = now + 1
  /\ UNCHANGED <<engineVars, gateVars, clientVars, stage>>

AdminStep(t) == Approve(t) \/ Deny(t) \/ Cancel(t)
ExecutorStep(t) == Resume(t) \/ Begin(t) \/ Finish(t)

Next ==
  \/ \E t \in Tasks : Timeout(t) \/ HandleSubmit(t) \/ AdminStep(t) \/ ExecutorStep(t)
  \/ ReadError \/ ReadUpdate
  \/ \E fan \in Fans : FanOut(fan)
  \/ Drop \/ Tick

Spec == Init /\ [][Next]_vars

(* The event loops of the hub and of the orchestrator run.  No person need *)
(* decide, no executor need come back, begin or finish, and nothing makes  *)
(* a call time out.                                                        *)
FairSpec ==
  /\ Spec
  /\ WF_vars(\E t \in Tasks : HandleSubmit(t))
  /\ WF_vars(ReadError \/ ReadUpdate)

(***************************************************************************)
(* Properties                                                              *)
(***************************************************************************)
TypeOK ==
  /\ GuardrailsTypeOK
  /\ future \in [Tasks -> {"none", "waiting", "timeout", "refused", "lost",
                           "completed", "failed"}]
  /\ stage \in [Tasks -> Stages]
  /\ toHub \in Seq(Tasks)
  /\ toAgent \in Seq([type : {"error", "completed", "failed"}, task : Tasks \cup {NoTask}])

(* A branch for which only its own timeout remains (hub.py:1339): a person *)
(* has to decide or has refused, the executor is away or has not finished. *)
InOtherHands(t) == stage[t] \in Stages \ {"none", "done"}

(* No branch of a fan-out is forgotten: unless its task is in the hands of *)
(* a person or of an executor, it ends.  Each way the hub has of refusing  *)
(* a task is answered, the answer ends the branch it is for though it may  *)
(* name none, and so does a result, also one sent after a cancellation.    *)
NoBranchForgotten ==
  \A t \in Tasks : (future[t] = "waiting") ~> (future[t] # "waiting" \/ InOtherHands(t))
=============================================================================
