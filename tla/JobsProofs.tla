------------------------------ MODULE JobsProofs ------------------------------
(***************************************************************************)
(* Proofs about the Jobs contract, for any accounts, nonces, parameters,   *)
(* prices, word sizes and bounds.                                          *)
(***************************************************************************)
EXTENDS Jobs, SumTheorems, SequenceTheorems, TLAPS

------------------------------------------------------------------------------
(* The inductive invariant: the tasks of locked jobs, and what was          *)
(* announced of each job                                                    *)

CInv == WellFormed /\ completions \in [JobId -> Nat] /\ CompletionAnnouncedOnce

Locked(id) == id \in DOMAIN jobs /\ ~jobs[id].is_draft
Completed(id) == Locked(id) /\ is_job_completed(id, tasks)

(* A task is a locked job and the index of one of its arguments. *)
LEMMA TasksDomain ==
    ASSUME WellFormed
    PROVE  /\ \A id, i : <<id, i>> \in DOMAIN tasks <=>
                            Locked(id) /\ i \in 0..(jobs[id].arguments - 1)
           /\ \A t \in DOMAIN tasks : t = <<t[1], t[2]>> /\ Locked(t[1])
                                        /\ t[2] \in 0..(jobs[t[1]].arguments - 1)
  BY DEF WellFormed, TasksOf, Locked

(* The record of a new draft *)
LEMMA DraftShape ==
    /\ DOMAIN Draft = {"arguments", "timeout", "max_worker_price", "max_network_usage",
                       "max_network_price", "min_checking_interval", "management_price",
                       "redundancy", "max_failures", "other_data", "is_draft"}
    /\ \A f \in JobFields : Draft[f] \in Nat
    /\ Draft.is_draft = TRUE /\ Draft.min_checking_interval = 15 /\ Draft.arguments = 0
  BY DEF Draft, JobFields

(* What the record of a job must look like for WellFormed *)
JobOK(job) ==
    /\ DOMAIN job = DOMAIN Draft
    /\ \A f \in JobFields : job[f] \in Nat
    /\ job.is_draft \in BOOLEAN
    /\ job.min_checking_interval # 0
    /\ job.arguments <= MaxArgs

(* A transaction that changes no task and only jobs that are, and stay,     *)
(* drafts keeps the invariant.                                              *)
LEMMA DraftsOnly ==
    ASSUME CInv,
           DOMAIN jobs' \subseteq JobId,
           \A id \in DOMAIN jobs' : JobOK(jobs'[id]),
           \A id \in DOMAIN jobs' : jobs'[id].is_draft \/ (id \in DOMAIN jobs /\ jobs'[id] = jobs[id]),
           \A id : Locked(id) => id \in DOMAIN jobs' /\ jobs'[id] = jobs[id],
           UNCHANGED <<tasks, completions>>
    PROVE  CInv'
<1>1. \A id : Locked(id)' <=> Locked(id)
  BY DEF Locked, CInv, WellFormed, JobOK
<1>2. \A id : Locked(id) => jobs'[id] = jobs[id]
  OBVIOUS
<1>3. DOMAIN tasks' = (UNION {TasksOf(id) : id \in {j \in DOMAIN jobs : ~jobs[j].is_draft}})'
  <2>1. \A id : Locked(id) => TasksOf(id)' = TasksOf(id)
    BY <1>2 DEF TasksOf
  <2>2. {j \in DOMAIN jobs : ~jobs[j].is_draft} = {j \in DOMAIN jobs' : ~jobs'[j].is_draft}
    BY <1>1 DEF Locked
  <2>. QED
    BY <2>1, <2>2 DEF CInv, WellFormed, Locked, TasksOf
<1>4. WellFormed'
  BY <1>1, <1>2, <1>3 DEF CInv, WellFormed, JobOK, Locked
<1>5. \A id : Locked(id) => (is_job_completed(id, tasks)' <=> is_job_completed(id, tasks))
  BY <1>2 DEF is_job_completed
<1>6. CompletionAnnouncedOnce'
  BY <1>1, <1>5 DEF CInv, CompletionAnnouncedOnce, Locked
<1>. QED
  BY <1>4, <1>6 DEF CInv

(* The edits of a draft *)
LEMMA EditKeepsCInv ==
    ASSUME CInv, NEW sender, NEW id \in DOMAIN jobs, NEW job,
           JobOK(job), job.is_draft = jobs[id].is_draft,
           Edit(sender, id, job)
    PROVE  CInv'
<1>1. jobs[id].is_draft /\ jobs' = [jobs EXCEPT ![id] = job] /\ UNCHANGED <<tasks, completions>>
  BY DEF Edit, check_is_our_draft, money
<1>2. DOMAIN jobs' = DOMAIN jobs /\ jobs'[id] = job /\ \A j \in DOMAIN jobs \ {id} : jobs'[j] = jobs[j]
  BY <1>1
<1>3. \A j \in DOMAIN jobs : JobOK(jobs[j])
  BY DEF CInv, WellFormed, JobOK
<1>. QED
  BY <1>1, <1>2, <1>3, DraftsOnly DEF CInv, WellFormed, Locked

LEMMA WithShape ==
    ASSUME NEW job, JobOK(job), NEW p,
           DOMAIN p \subseteq JobFields \ {"arguments"},
           \A f \in DOMAIN p : p[f] \in Nat,
           "min_checking_interval" \in DOMAIN p => p.min_checking_interval # 0
    PROVE  JobOK(With(job, p)) /\ With(job, p).is_draft = job.is_draft
<1>1. {"is_draft", "arguments", "min_checking_interval"} \subseteq DOMAIN job
  BY DraftShape DEF JobOK
<1>2. "is_draft" \notin DOMAIN p /\ "arguments" \notin DOMAIN p
  BY DEF JobFields
<1>. QED
  BY <1>1, <1>2 DEF JobOK, With, JobFields

(* The lock of a draft that is ready adds its tasks. *)
LEMMA LockKeepsCInv ==
    ASSUME CInv, NEW a \in Address, NEW id \in DOMAIN jobs, lock(a, id)
    PROVE  CInv'
<1>1. /\ jobs[id].is_draft /\ jobs[id].arguments > 0
      /\ jobs' = [jobs EXCEPT ![id].is_draft = FALSE]
      /\ tasks' = [t \in DOMAIN tasks \cup TasksOf(id) |->
                     IF t \in DOMAIN tasks THEN tasks[t]
                     ELSE [state |-> "Incomplete", managers_addresses |-> <<>>]]
      /\ completions' = completions
      /\ TasksOf(id) \cap DOMAIN tasks = {}
  BY DEF lock, check_is_our_draft, is_draft_ready
<1>2. \A j \in DOMAIN jobs : JobOK(jobs[j])
  BY DEF CInv, WellFormed, JobOK
<1>3. id \in JobId /\ "is_draft" \in DOMAIN jobs[id]
      /\ "arguments" \in JobFields /\ "min_checking_interval" \in JobFields
      /\ "is_draft" \notin JobFields
  BY <1>2, DraftShape DEF CInv, WellFormed, JobOK, JobFields
<1>4. /\ DOMAIN jobs' = DOMAIN jobs
      /\ \A j \in DOMAIN jobs \ {id} : jobs'[j] = jobs[j]
      /\ DOMAIN jobs'[id] = DOMAIN jobs[id]
      /\ jobs'[id].is_draft = FALSE
      /\ \A f \in JobFields : jobs'[id][f] = jobs[id][f]
  <2>1. jobs'[id] = [jobs[id] EXCEPT !.is_draft = FALSE]
    BY <1>1
  <2>2. \A f \in JobFields : f \in DOMAIN jobs[id] /\ f # "is_draft"
    BY <1>2, DraftShape DEF JobOK, JobFields
  <2>. QED
    BY <1>1, <1>3, <2>1, <2>2
<1>5. \A j \in DOMAIN jobs' : JobOK(jobs'[j])
  BY <1>2, <1>3, <1>4 DEF JobOK
<1>6. \A j \in DOMAIN jobs : TasksOf(j)' = TasksOf(j)
  BY <1>3, <1>4 DEF TasksOf
<1>7. DOMAIN tasks' = (UNION {TasksOf(j) : j \in {k \in DOMAIN jobs : ~jobs[k].is_draft}})'
  <2>1. {k \in DOMAIN jobs' : ~jobs'[k].is_draft} = {k \in DOMAIN jobs : ~jobs[k].is_draft} \cup {id}
    BY <1>4
  <2>2. DOMAIN tasks' = DOMAIN tasks \cup TasksOf(id)
    BY <1>1
  <2>3. DOMAIN tasks = UNION {TasksOf(j) : j \in {k \in DOMAIN jobs : ~jobs[k].is_draft}}
    BY DEF CInv, WellFormed
  <2>. QED
    BY <1>6, <2>1, <2>2, <2>3
<1>8. \A t \in DOMAIN tasks' : /\ tasks'[t].state \in {"Incomplete", "Completed", "DefinetelyFailed"}
                               /\ tasks'[t].managers_addresses \in Seq(Address)
  BY <1>1, EmptySeq DEF CInv, WellFormed
<1>9. WellFormed'
  BY <1>1, <1>3, <1>4, <1>5, <1>7, <1>8 DEF CInv, WellFormed, JobOK
<1>10. ~is_job_completed(id, tasks)'
  <2>1. jobs'[id].arguments \in Nat /\ jobs'[id].arguments > 0
    BY <1>1, <1>3, <1>4, <1>5 DEF JobOK
  <2>2. <<id, 0>> \in TasksOf(id)
    BY <1>1, <1>3, <1>4, <2>1 DEF TasksOf
  <2>3. tasks'[<<id, 0>>].state = "Incomplete"
    BY <1>1, <2>2
  <2>. QED
    BY <2>1, <2>3 DEF is_job_completed
<1>11. \A j : Locked(j) => (is_job_completed(j, tasks)' <=> is_job_completed(j, tasks))
  <2>1. \A j : Locked(j) => j # id /\ jobs'[j] = jobs[j]
    BY <1>1, <1>4 DEF Locked
  <2>2. \A j : Locked(j) => \A i \in 0..(jobs[j].arguments - 1) : <<j, i>> \in DOMAIN tasks
    BY TasksDomain DEF CInv
  <2>3. \A t \in DOMAIN tasks : tasks'[t] = tasks[t]
    BY <1>1
  <2>. QED
    BY <2>1, <2>2, <2>3 DEF is_job_completed
<1>12. CompletionAnnouncedOnce'
  BY <1>1, <1>4, <1>10, <1>11 DEF CInv, CompletionAnnouncedOnce, Locked
<1>. QED
  BY <1>1, <1>9, <1>12 DEF CInv

LEMMA SenderKeepsCInv ==
    ASSUME CInv, NEW a \in Address, SenderStep(a)
    PROVE  CInv'
<1>0. \A id \in DOMAIN jobs : JobOK(jobs[id])
  BY DEF CInv, WellFormed, JobOK
<1>1. ASSUME NEW v \in Deposit, send_pending_money(a, v) \/ recover_pending_money(a, v)
      PROVE  CInv'
  <2>. UNCHANGED <<jobs, tasks, completions>>
    BY <1>1 DEF send_pending_money, recover_pending_money
  <2>. QED
    BY <1>0, DraftsOnly DEF CInv, WellFormed, Locked
<1>2. CASE create_draft(a)
  <2>1. PICK n \in Nonce :
          /\ <<a, n>> \notin DOMAIN jobs
          /\ jobs' = [id \in DOMAIN jobs \cup {<<a, n>>} |->
                        IF id = <<a, n>> THEN Draft ELSE jobs[id]]
          /\ UNCHANGED <<tasks, completions>>
    BY <1>2 DEF create_draft
  <2>2. JobOK(Draft)
    <3>1. Draft.arguments <= MaxArgs /\ Draft.min_checking_interval # 0
      BY DraftShape, ContractAssumption
    <3>. QED
      BY <3>1, DraftShape DEF JobOK
  <2>3. <<a, n>> \in JobId
    BY DEF JobId
  <2>4. /\ DOMAIN jobs' = DOMAIN jobs \cup {<<a, n>>}
        /\ jobs'[<<a, n>>] = Draft
        /\ \A id \in DOMAIN jobs : jobs'[id] = jobs[id]
    BY <2>1
  <2>5. DOMAIN jobs' \subseteq JobId
    BY <2>3, <2>4 DEF CInv, WellFormed
  <2>6. \A id \in DOMAIN jobs' : JobOK(jobs'[id])
    BY <1>0, <2>2, <2>4
  <2>7. \A id \in DOMAIN jobs' : jobs'[id].is_draft \/ (id \in DOMAIN jobs /\ jobs'[id] = jobs[id])
    BY <2>4, DraftShape
  <2>8. \A id : Locked(id) => id \in DOMAIN jobs' /\ jobs'[id] = jobs[id]
    BY <2>4 DEF Locked
  <2>. QED
    BY <2>1, <2>5, <2>6, <2>7, <2>8, DraftsOnly
<1>3. ASSUME NEW id \in DOMAIN jobs, NEW p \in Parameters, set_parameters(a, id, p)
      PROVE  CInv'
  <2>1. p \in [timeout : Nat, redundancy : Nat, max_failures : Nat]
    BY ContractAssumption
  <2>2. DOMAIN p = {"timeout", "redundancy", "max_failures"} /\ \A f \in DOMAIN p : p[f] \in Nat
    BY <2>1
  <2>3. JobOK(With(jobs[id], p)) /\ With(jobs[id], p).is_draft = jobs[id].is_draft
    BY <1>0, <2>2, DraftShape, WithShape DEF JobFields
  <2>. QED
    BY <1>3, <2>3, EditKeepsCInv DEF set_parameters
<1>4. ASSUME NEW id \in DOMAIN jobs, NEW p \in WorkerParameters,
             set_worker_parameters(a, id, p)
      PROVE  CInv'
  <2>1. p \in [max_worker_price : Nat, max_network_usage : Nat, max_network_price : Nat]
    BY ContractAssumption
  <2>2. /\ DOMAIN p = {"max_worker_price", "max_network_usage", "max_network_price"}
        /\ \A f \in DOMAIN p : p[f] \in Nat
    BY <2>1
  <2>3. JobOK(With(jobs[id], p)) /\ With(jobs[id], p).is_draft = jobs[id].is_draft
    BY <1>0, <2>2, DraftShape, WithShape DEF JobFields
  <2>. QED
    BY <1>4, <2>3, EditKeepsCInv DEF set_worker_parameters
<1>5. ASSUME NEW id \in DOMAIN jobs, NEW p \in ManParameters,
             set_management_parameters(a, id, p)
      PROVE  CInv'
  <2>1. p \in [min_checking_interval : Nat, management_price : Nat]
    BY ContractAssumption
  <2>2. /\ DOMAIN p = {"min_checking_interval", "management_price"}
        /\ \A f \in DOMAIN p : p[f] \in Nat
        /\ p.min_checking_interval # 0
    BY <1>5, <2>1 DEF set_management_parameters
  <2>3. JobOK(With(jobs[id], p)) /\ With(jobs[id], p).is_draft = jobs[id].is_draft
    BY <1>0, <2>2, DraftShape, WithShape DEF JobFields
  <2>. QED
    BY <1>5, <2>3, EditKeepsCInv DEF set_management_parameters
<1>6. ASSUME NEW id \in DOMAIN jobs, NEW val \in OtherData, set_other_data(a, id, val)
      PROVE  CInv'
  <2>1. JobOK([jobs[id] EXCEPT !.other_data = val])
    BY <1>0, DraftShape, ContractAssumption DEF JobOK, JobFields
  <2>. QED
    BY <1>0, <1>6, <2>1, DraftShape, EditKeepsCInv DEF set_other_data, JobOK
<1>7. ASSUME NEW id \in DOMAIN jobs, reset_arguments(a, id)
      PROVE  CInv'
  <2>1. JobOK([jobs[id] EXCEPT !.arguments = 0])
    BY <1>0, DraftShape, ContractAssumption DEF JobOK, JobFields
  <2>. QED
    BY <1>0, <1>7, <2>1, DraftShape, EditKeepsCInv DEF reset_arguments, JobOK
<1>8. ASSUME NEW id \in DOMAIN jobs, push_argument(a, id)
      PROVE  CInv'
  <2>1. jobs[id].arguments \in Nat /\ jobs[id].arguments < MaxArgs /\ MaxArgs \in Nat
    BY <1>0, <1>8, DraftShape, ContractAssumption DEF JobOK, JobFields, push_argument
  <2>2. JobOK([jobs[id] EXCEPT !.arguments = @ + 1])
    BY <1>0, <2>1, DraftShape DEF JobOK, JobFields
  <2>. QED
    BY <1>0, <1>8, <2>2, DraftShape, EditKeepsCInv DEF push_argument, JobOK
<1>9. ASSUME NEW id \in DOMAIN jobs, delete_draft(a, id)
      PROVE  CInv'
  <2>1. /\ jobs[id].is_draft
        /\ DOMAIN jobs' = DOMAIN jobs \ {id}
        /\ \A j \in DOMAIN jobs' : jobs'[j] = jobs[j]
        /\ UNCHANGED <<tasks, completions>>
    BY <1>9 DEF delete_draft, check_is_our_draft, money
  <2>. QED
    BY <1>0, <2>1, DraftsOnly DEF CInv, WellFormed, Locked
<1>10. ASSUME NEW id \in DOMAIN jobs, lock(a, id)
      PROVE  CInv'
  BY <1>10, LockKeepsCInv
<1>. QED
  BY <1>1, <1>2, <1>3, <1>4, <1>5, <1>6, <1>7, <1>8, <1>9, <1>10 DEF SenderStep

------------------------------------------------------------------------------
(* The transactions of the oracle *)

Task == [state : {"Incomplete", "Completed", "DefinetelyFailed"},
         managers_addresses : Seq(Address)]

LEMMA PushKeepsCInv ==
    ASSUME CInv, NEW a \in Address, NEW m \in Address, NEW task \in DOMAIN tasks,
           push_manager(a, task, m)
    PROVE  CInv'
<1>1. /\ tasks' = [tasks EXCEPT ![task].managers_addresses = Append(@, m)]
      /\ UNCHANGED <<jobs, completions>>
  BY DEF push_manager
<1>2. /\ DOMAIN tasks' = DOMAIN tasks
      /\ \A t \in DOMAIN tasks : tasks'[t].state = tasks[t].state
      /\ \A t \in DOMAIN tasks : tasks'[t] \in Task
  <2>1. \A t \in DOMAIN tasks : tasks[t] \in Task
    BY DEF CInv, WellFormed, Task
  <2>2. /\ tasks[task] \in Task /\ DOMAIN tasks' = DOMAIN tasks
        /\ tasks'[task] = [tasks[task] EXCEPT !.managers_addresses = Append(@, m)]
        /\ \A t \in DOMAIN tasks \ {task} : tasks'[t] = tasks[t]
    BY <1>1, <2>1
  <2>3. Append(tasks[task].managers_addresses, m) \in Seq(Address)
    BY <2>2 DEF Task
  <2>4. tasks'[task] \in Task /\ tasks'[task].state = tasks[task].state
    BY <2>2, <2>3 DEF Task
  <2>. QED
    BY <2>1, <2>2, <2>4
<1>3. WellFormed'
  <2>1. DOMAIN tasks'
          = (UNION {TasksOf(j) : j \in {j \in DOMAIN jobs : ~jobs[j].is_draft}})'
    BY <1>1, <1>2 DEF CInv, WellFormed, TasksOf
  <2>. QED
    BY <1>1, <1>2, <2>1 DEF CInv, WellFormed, Task
<1>4. \A id : Locked(id) => (is_job_completed(id, tasks)' <=> is_job_completed(id, tasks))
  <2>1. \A id : Locked(id) => \A i \in 0..(jobs[id].arguments - 1) : <<id, i>> \in DOMAIN tasks
    BY TasksDomain DEF CInv
  <2>. QED
    BY <1>1, <1>2, <2>1 DEF is_job_completed
<1>. QED
  BY <1>1, <1>3, <1>4 DEF CInv, CompletionAnnouncedOnce, Locked

LEMMA SettleKeepsCInv ==
    ASSUME CInv, NEW task \in DOMAIN tasks, Incomplete(task),
           NEW state \in {"Completed", "DefinetelyFailed"}, NEW payments,
           Settle(task, state, payments)
    PROVE  CInv'
<1> DEFINE id == task[1]
<1>1. /\ tasks' = [tasks EXCEPT ![task].state = state]
      /\ completions' = IF is_job_completed(id, tasks')
                         THEN [completions EXCEPT ![id] = @ + 1] ELSE completions
      /\ jobs' = jobs
  BY DEF Settle
<1>2. /\ DOMAIN tasks' = DOMAIN tasks
      /\ \A t \in DOMAIN tasks \ {task} : tasks'[t] = tasks[t]
      /\ tasks'[task].state = state
      /\ \A t \in DOMAIN tasks : tasks'[t] \in Task
  <2>1. \A t \in DOMAIN tasks : tasks[t] \in Task
    BY DEF CInv, WellFormed, Task
  <2>2. /\ tasks[task] \in Task /\ DOMAIN tasks' = DOMAIN tasks
        /\ tasks'[task] = [tasks[task] EXCEPT !.state = state]
        /\ \A t \in DOMAIN tasks \ {task} : tasks'[t] = tasks[t]
    BY <1>1, <2>1
  <2>3. tasks'[task] \in Task /\ tasks'[task].state = state
    BY <2>2 DEF Task
  <2>. QED
    BY <2>1, <2>2, <2>3
<1>3. WellFormed'
  <2>1. DOMAIN tasks'
          = (UNION {TasksOf(j) : j \in {j \in DOMAIN jobs : ~jobs[j].is_draft}})'
    BY <1>1, <1>2 DEF CInv, WellFormed, TasksOf
  <2>. QED
    BY <1>1, <1>2, <2>1 DEF CInv, WellFormed, Task
<1>4. /\ task = <<id, task[2]>> /\ Locked(id)
      /\ task[2] \in 0..(jobs[id].arguments - 1)
  BY TasksDomain DEF CInv
<1>5. id \in JobId
  BY <1>4 DEF CInv, WellFormed, Locked
<1>6. completions[id] = 0
  BY <1>4, <1>5 DEF CInv, CompletionAnnouncedOnce, is_job_completed, Incomplete
<1>7. \A j : j # id => (is_job_completed(j, tasks') <=> is_job_completed(j, tasks))
  <2>1. \A j, i : j # id => tasks'[<<j, i>>] = tasks[<<j, i>>]
    BY <1>1, <1>4
  <2>. QED
    BY <2>1 DEF is_job_completed
<1>8. completions' \in [JobId -> Nat]
  BY <1>1, <1>5, <1>6 DEF CInv
<1>9. ASSUME NEW j \in JobId
      PROVE  completions'[j] =
                IF j \in DOMAIN jobs' /\ ~jobs'[j].is_draft /\ is_job_completed(j, tasks)'
                THEN 1 ELSE 0
  <2>1. CASE j = id
    BY <1>1, <1>4, <1>5, <1>6, <2>1 DEF CInv, Locked, is_job_completed
  <2>2. CASE j # id
    <3>1. completions'[j] = completions[j]
      BY <1>1, <2>2 DEF CInv
    <3>2. is_job_completed(j, tasks)' <=> is_job_completed(j, tasks)
      BY <1>1, <1>7, <2>2 DEF is_job_completed
    <3>. QED
      BY <1>1, <3>1, <3>2 DEF CInv, CompletionAnnouncedOnce
  <2>. QED
    BY <2>1, <2>2
<1>10. CompletionAnnouncedOnce'
  BY <1>9 DEF CompletionAnnouncedOnce
<1>. QED
  BY <1>3, <1>8, <1>10 DEF CInv

LEMMA OracleKeepsCInv ==
    ASSUME CInv, NEW a \in Address, OracleStep(a)
    PROVE  CInv'
<1>1. ASSUME NEW task \in DOMAIN tasks, NEW m \in Address, push_manager(a, task, m)
      PROVE  CInv'
  BY <1>1, PushKeepsCInv
<1>2. ASSUME NEW task \in DOMAIN tasks, set_definitely_failed(a, task)
      PROVE  CInv'
  BY <1>2, SettleKeepsCInv DEF set_definitely_failed
<1>3. ASSUME NEW task \in DOMAIN tasks, NEW payments, set_completed(a, task, payments)
      PROVE  CInv'
  BY <1>3, SettleKeepsCInv DEF set_completed
<1>. QED
  BY <1>1, <1>2, <1>3 DEF OracleStep

LEMMA InitCInv == Init => CInv
<1> SUFFICES ASSUME Init PROVE CInv
  OBVIOUS
<1>1. jobs = <<>> /\ tasks = <<>> /\ DOMAIN jobs = {} /\ DOMAIN tasks = {}
  BY DEF Init
<1>2. WellFormed
  BY <1>1 DEF WellFormed
<1>. QED
  BY <1>1, <1>2 DEF CInv, Init, CompletionAnnouncedOnce

LEMMA NextCInv == CInv /\ [Next]_vars => CInv'
<1> SUFFICES ASSUME CInv, [Next]_vars PROVE CInv'
  OBVIOUS
<1>1. CASE Next
  BY <1>1, SenderKeepsCInv, OracleKeepsCInv DEF Next
<1>2. CASE UNCHANGED vars
  BY <1>2 DEF vars, CInv, WellFormed, TasksOf, CompletionAnnouncedOnce, is_job_completed
<1>. QED
  BY <1>1, <1>2

LEMMA ContractInductive == Spec => []CInv
  BY InitCInv, NextCInv, PTL DEF Spec

------------------------------------------------------------------------------
(* The theorems *)

(* The tasks of the contract are, at any time, those of the locked jobs:    *)
(* lock creates all of them, delete_draft loses none.                       *)
THEOREM TasksOfLockedJobs == Spec => []WellFormed
<1>1. CInv => WellFormed
  BY DEF CInv
<1>. QED
  BY <1>1, ContractInductive, PTL

(* JobCompleted is emitted once for each job, by the settlement of its last *)
(* task, in whatever order the oracle settles them.                         *)
THEOREM AnnouncedOnce == Spec => []CompletionAnnouncedOnce
<1>1. CInv => CompletionAnnouncedOnce
  BY DEF CInv
<1>. QED
  BY <1>1, ContractInductive, PTL

(* No transaction of any account rewrites a locked job or a settled task.   *)
THEOREM NothingRewritten == Spec => LockedForGood
<1> DEFINE Kept == /\ \A id \in DOMAIN jobs : ~jobs[id].is_draft =>
                         id \in DOMAIN jobs' /\ jobs'[id] = jobs[id]
                   /\ \A t \in DOMAIN tasks :
                         /\ t \in DOMAIN tasks'
                         /\ tasks[t].state # "Incomplete" => tasks'[t] = tasks[t]
<1>1. ASSUME CInv, [Next]_vars PROVE [Kept]_vars
  <2>1. ASSUME NEW a \in Address, SenderStep(a) PROVE Kept
    <3>1. ASSUME NEW v \in Deposit, send_pending_money(a, v) \/ recover_pending_money(a, v)
          PROVE  Kept
      BY <3>1 DEF send_pending_money, recover_pending_money
    <3>2. CASE create_draft(a)
      BY <3>2 DEF create_draft
    <3>3. ASSUME NEW id \in DOMAIN jobs, NEW job, Edit(a, id, job) PROVE Kept
      BY <3>3 DEF Edit, check_is_our_draft
    <3>4. ASSUME NEW id \in DOMAIN jobs, delete_draft(a, id) PROVE Kept
      BY <3>4 DEF delete_draft, check_is_our_draft
    <3>5. ASSUME NEW id \in DOMAIN jobs, lock(a, id) PROVE Kept
      BY <3>5 DEF lock, check_is_our_draft
    <3>. QED
      BY <2>1, <3>1, <3>2, <3>3, <3>4, <3>5 DEF SenderStep, set_parameters,
         set_worker_parameters, set_management_parameters, set_other_data,
         reset_arguments, push_argument
  <2>2. ASSUME NEW a \in Address, OracleStep(a) PROVE Kept
    <3>1. ASSUME NEW task \in DOMAIN tasks, NEW m \in Address, push_manager(a, task, m)
          PROVE  Kept
      BY <3>1 DEF push_manager, Incomplete
    <3>2. ASSUME NEW task \in DOMAIN tasks, Incomplete(task), NEW state, NEW payments,
                 Settle(task, state, payments)
          PROVE  Kept
      BY <3>2 DEF Settle, Incomplete
    <3>. QED
      BY <2>2, <3>1, <3>2 DEF OracleStep, set_definitely_failed, set_completed
  <2>3. CASE UNCHANGED vars
    BY <2>3
  <2>. QED
    BY <1>1, <2>1, <2>2, <2>3 DEF Next
<1>. QED
  BY <1>1, ContractInductive, PTL DEF Spec, LockedForGood

------------------------------------------------------------------------------
(* The money of the contract: what is locked, paid and refunded, for any   *)
(* accounts, prices and word sizes                                          *)

LEMMA NaturalProduct == ASSUME NEW m \in Nat, NEW n \in Nat PROVE m * n \in Nat
  OBVIOUS

(* The fields of a job that its price is computed from *)
LEMMA JobNumbers ==
    ASSUME NEW job, JobOK(job)
    PROVE  /\ job.timeout \in Nat /\ job.max_worker_price \in Nat
           /\ job.max_network_usage \in Nat /\ job.max_network_price \in Nat
           /\ job.min_checking_interval \in Nat \ {0} /\ job.management_price \in Nat
           /\ job.redundancy \in Nat /\ job.max_failures \in Nat
           /\ job.arguments \in Nat /\ job.arguments <= MaxArgs
  BY DraftShape DEF JobOK, JobFields

LEMMA CheckingTimes ==
    ASSUME NEW job, JobOK(job) PROVE job.timeout \div job.min_checking_interval \in Nat
  BY JobNumbers

LEMMA PriceType ==
    ASSUME NEW job, JobOK(job)
    PROVE  /\ FullPricePerTask(job) \in Nat
           /\ calc_max_price_per_task(job) \in 0..(Word64 - 1)
           /\ calc_max_price(job) \in 0..(Word256 - 1)
<1>. DEFINE times == job.timeout \div job.min_checking_interval
<1>1. times \in Nat
  BY CheckingTimes
<1>. HIDE DEF times
<1>2. /\ (job.timeout * job.max_worker_price + job.max_network_usage * job.max_network_price)
            * job.redundancy \in Nat
      /\ job.management_price * (job.redundancy + job.max_failures) * (4 + times) \in Nat
  BY <1>1, JobNumbers
<1>3. FullPricePerTask(job) \in Nat
  BY <1>2 DEF FullPricePerTask, times
<1>4. calc_max_price_per_task(job) \in 0..(Word64 - 1)
  BY <1>3, ContractAssumption, Division DEF calc_max_price_per_task, w64
<1>5. calc_max_price_per_task(job) * job.arguments \in Nat
  BY <1>4, JobNumbers, ContractAssumption
<1>6. calc_max_price(job) \in 0..(Word256 - 1)
  <2>. DEFINE product == calc_max_price_per_task(job) * job.arguments
  <2>1. calc_max_price(job) = product % Word256
    BY DEF calc_max_price, w256
  <2>2. product \in Int
    BY <1>5
  <2>. HIDE DEF product
  <2>. QED
    BY <2>1, <2>2, ContractAssumption, Division
<1>. QED
  BY <1>3, <1>4, <1>6

------------------------------------------------------------------------------
(* A settlement *)

(* What the oracle says of the workers of a task: nothing, when it failed *)
PaymentsOK(payments) ==
    /\ IsFiniteSet(DOMAIN payments)
    /\ \A i \in DOMAIN payments : payments[i] \in Payment

LEMMA CostType ==
    ASSUME NEW job, JobOK(job), NEW payments, PaymentsOK(payments)
    PROVE  \A i \in DOMAIN payments :
              /\ actual_cost(job, payments[i]) \in 0..(Word64 - 1)
              /\ Costs(job, payments)[i] = actual_cost(job, payments[i])
<1>. SUFFICES ASSUME NEW i \in DOMAIN payments
              PROVE  /\ actual_cost(job, payments[i]) \in 0..(Word64 - 1)
                     /\ Costs(job, payments)[i] = actual_cost(job, payments[i])
  OBVIOUS
<1>1. payments[i].worker_price \in Nat /\ payments[i].network_price \in Nat
  BY ContractAssumption DEF PaymentsOK, Payment
<1>2. payments[i].worker_price * job.timeout
        + payments[i].network_price * job.max_network_usage \in Nat
  BY <1>1, JobNumbers
<1>3. actual_cost(job, payments[i]) \in 0..(Word64 - 1)
  BY <1>2, ContractAssumption, Division DEF actual_cost, w64
<1>. QED
  BY <1>3 DEF Costs

(* Each worker gets a part of the cost of the work, and together they get   *)
(* all of it.                                                               *)
LEMMA WorkShared ==
    ASSUME NEW job, JobOK(job), NEW payments, PaymentsOK(payments)
    PROVE  /\ \A a \in Address : WorkShare(job, payments, a) \in Nat
           /\ SumFunctionOnSet(Costs(job, payments), DOMAIN payments) \in Nat
           /\ SumFunctionOnSet([a \in Address |-> WorkShare(job, payments, a)], Address)
                = SumFunctionOnSet(Costs(job, payments), DOMAIN payments)
<1>. DEFINE I == DOMAIN payments
            f == Costs(job, payments)
            worker == [i \in I |-> payments[i].worker]
            Of(a) == {i \in I : payments[i].worker = a}
<1>1. IsFiniteSet(I) /\ \A i \in I : f[i] \in Nat /\ f[i] \in Int
  BY CostType, ContractAssumption DEF PaymentsOK
<1>2. \A i \in I : worker[i] = payments[i].worker /\ worker[i] \in Address
  BY DEF PaymentsOK, Payment
<1>3. \A a \in Address : IsFiniteSet(Of(a)) /\ {i \in I : worker[i] = a} = Of(a)
  BY <1>1, <1>2, FS_Subset
<1>4. \A a \in Address : WorkShare(job, payments, a) = SumFunctionOnSet(f, Of(a))
  BY DEF WorkShare
<1>. HIDE DEF f, worker, I
<1>5. SumFunctionOnSet([a \in Address |-> SumFunctionOnSet(f, {i \in I : worker[i] = a})],
                       Address)
        = SumFunctionOnSet(f, I)
  BY <1>1, <1>2, SumByKind, ContractAssumption
<1>6. [a \in Address |-> WorkShare(job, payments, a)]
        = [a \in Address |-> SumFunctionOnSet(f, {i \in I : worker[i] = a})]
  BY <1>3, <1>4
<1>7. \A a \in Address : SumFunctionOnSet(f, Of(a)) \in Nat
  BY <1>1, <1>3, SumOfNaturals
<1>8. SumFunctionOnSet(f, I) \in Nat
  BY <1>1, SumOfNaturals
<1>. QED
  BY <1>4, <1>5, <1>6, <1>7, <1>8 DEF f, I

(* Each manager gets the management price as many times as it is registered. *)
LEMMA ManagementShared ==
    ASSUME NEW job, JobOK(job), NEW managers \in Seq(Address)
    PROVE  /\ \A a \in Address : ManagementShare(job, managers, a) \in Nat
           /\ job.management_price * Len(managers) \in Nat
           /\ SumFunctionOnSet([a \in Address |-> ManagementShare(job, managers, a)], Address)
                = job.management_price * Len(managers)
<1>. DEFINE c == job.management_price
            I == DOMAIN managers
            f == [i \in I |-> c]
            Of(a) == {i \in I : managers[i] = a}
<1>1. I = 1..Len(managers) /\ Len(managers) \in Nat /\ c \in Nat
  BY JobNumbers
<1>2. IsFiniteSet(I) /\ Cardinality(I) = Len(managers)
  <2>. DEFINE n == Len(managers)
  <2>1. IsFiniteSet(1..n) /\ Cardinality(1..n) = IF 1 > n THEN 0 ELSE n - 1 + 1
    <3>1. n \in Int
      BY <1>1
    <3>. HIDE DEF n
    <3>. QED
      BY <3>1, FS_Interval
  <2>. HIDE DEF I
  <2>. QED
    BY <1>1, <2>1
<1>3. /\ \A i \in I : f[i] = c /\ f[i] \in Int
      /\ \A i \in I : managers[i] \in Address
  BY <1>1
<1>4. \A a \in Address : IsFiniteSet(Of(a)) /\ Cardinality(Of(a)) \in Nat
  BY <1>2, FS_Subset, FS_CardinalityType
<1>5. \A a \in Address : ManagementShare(job, managers, a) = c * Cardinality(Of(a))
  BY DEF ManagementShare
<1>. HIDE DEF f, I, c
<1>6. \A a \in Address : SumFunctionOnSet(f, Of(a)) = c * Cardinality(Of(a))
  BY <1>1, <1>3, <1>4, SumOfConstant
<1>7. SumFunctionOnSet([a \in Address |-> SumFunctionOnSet(f, Of(a))], Address)
        = SumFunctionOnSet(f, I)
  BY <1>2, <1>3, SumByKind, ContractAssumption
<1>8. SumFunctionOnSet(f, I) = c * Cardinality(I)
  BY <1>1, <1>2, <1>3, SumOfConstant
<1>9. [a \in Address |-> ManagementShare(job, managers, a)]
        = [a \in Address |-> SumFunctionOnSet(f, Of(a))]
  BY <1>5, <1>6
<1>10. \A a \in Address : ManagementShare(job, managers, a) \in Nat
  BY <1>1, <1>4, <1>5, NaturalProduct
<1>11. c * Len(managers) \in Nat
  BY <1>1, NaturalProduct
<1>. QED
  BY <1>2, <1>7, <1>8, <1>9, <1>10, <1>11 DEF c

(* What each account gets from a settlement *)
Gains(id, managers, payments) ==
    [a \in Address |->
        WorkShare(jobs[id], payments, a) + ManagementShare(jobs[id], managers, a)
          + (IF a = SenderOf(id) THEN refund(jobs[id], managers, payments) ELSE 0)]

(* A settlement hands out what the task was locked for, no more and no less. *)
LEMMA GainsTotal ==
    ASSUME NEW id \in JobId, JobOK(jobs[id]), NEW managers \in Seq(Address),
           NEW payments, PaymentsOK(payments)
    PROVE  /\ \A a \in Address : Gains(id, managers, payments)[a] \in Int
           /\ SumFunctionOnSet(Gains(id, managers, payments), Address)
                = calc_max_price_per_task(jobs[id])
<1>. DEFINE job == jobs[id]
            rest == refund(job, managers, payments)
            price == calc_max_price_per_task(job)
            work == [a \in Address |-> WorkShare(job, payments, a)]
            man == [a \in Address |-> ManagementShare(job, managers, a)]
            back == [a \in Address |-> IF a = SenderOf(id) THEN rest ELSE 0]
            both == [a \in Address |-> work[a] + man[a]]
            wages == SumFunctionOnSet(Costs(job, payments), DOMAIN payments)
            fees == job.management_price * Len(managers)
            gains == Gains(id, managers, payments)
<1>1. /\ \A a \in Address : work[a] \in Nat
      /\ wages \in Nat /\ SumFunctionOnSet(work, Address) = wages
  BY WorkShared
<1>2. /\ \A a \in Address : man[a] \in Nat
      /\ fees \in Nat /\ SumFunctionOnSet(man, Address) = fees
  BY ManagementShared
<1>3. rest = price - (fees + wages) /\ price \in Int
  BY PriceType, ContractAssumption DEF refund, total_actual_cost
<1>4. \A a \in Address : gains[a] = both[a] + back[a]
  BY DEF Gains
<1>5. SenderOf(id) \in Address /\ IsFiniteSet(Address)
  BY ContractAssumption DEF JobId, SenderOf
<1>. HIDE DEF work, man, wages, fees, rest, price, gains
<1>6. \A a \in Address : both[a] = work[a] + man[a] /\ both[a] \in Int
  BY <1>1, <1>2
<1>7. /\ back[SenderOf(id)] = rest /\ rest \in Int
      /\ \A a \in Address \ {SenderOf(id)} : back[a] = 0
      /\ \A a \in Address : back[a] \in Int
  BY <1>1, <1>2, <1>3, <1>5
<1>. HIDE DEF both, back
<1>8. SumFunctionOnSet(both, Address) = wages + fees
  <2>1. \A a \in Address : work[a] \in Int /\ man[a] \in Int /\ both[a] = work[a] + man[a]
    BY <1>1, <1>2, <1>6
  <2>2. SumFunctionOnSet(both, Address)
          = SumFunctionOnSet(work, Address) + SumFunctionOnSet(man, Address)
    BY <1>5, <2>1, SumOfSums
  <2>. QED
    BY <1>1, <1>2, <2>2
<1>9. SumFunctionOnSet(back, Address) = rest
  BY <1>5, <1>7, SumOfOne
<1>10. SumFunctionOnSet(gains, Address)
         = SumFunctionOnSet(both, Address) + SumFunctionOnSet(back, Address)
  BY <1>4, <1>5, <1>6, <1>7, SumOfSums
<1>11. SumFunctionOnSet(gains, Address) = price
  BY <1>1, <1>2, <1>3, <1>8, <1>9, <1>10
<1>12. \A a \in Address : gains[a] \in Int
  BY <1>4, <1>6, <1>7
<1>. QED
  BY <1>11, <1>12 DEF gains, price

------------------------------------------------------------------------------
(* Moving money *)

MoneyType ==
    /\ next_nonce \in [Address -> Nat]
    /\ pending_money \in [Address -> 0..(Word256 - 1)]
    /\ locked_money \in [Address -> 0..(Word256 - 1)]
    /\ balance \in 0..MaxBalance

(* The books balance, but for what was wrapped. *)
Balanced ==
    \E k \in Int : Total(pending_money) + Total(locked_money) = balance + Word256 * k

(* An account book m becomes n by the changes d, taken modulo Word256. *)
Moves(m, n, d) ==
    /\ n = [a \in Address |-> w256(m[a] + d[a])]
    /\ \A a \in Address : d[a] \in Int

LEMMA MovesTotal ==
    ASSUME NEW m \in [Address -> 0..(Word256 - 1)], NEW n, NEW d, Moves(m, n, d)
    PROVE  /\ n \in [Address -> 0..(Word256 - 1)]
           /\ Total(m) \in Int /\ Total(n) \in Int /\ SumFunctionOnSet(d, Address) \in Int
           /\ \E k \in Int : Total(n) = Total(m) + SumFunctionOnSet(d, Address) + Word256 * k
<1>. DEFINE f == [a \in Address |-> m[a] + d[a]]
            A == Address
<1>1. Word256 \in Nat \ {0} /\ IsFiniteSet(A)
  BY ContractAssumption
<1>2. /\ \A a \in A : m[a] \in 0..(Word256 - 1) /\ m[a] \in Int /\ d[a] \in Int
      /\ \A a \in A : f[a] \in Int /\ f[a] = m[a] + d[a] /\ n[a] = f[a] % Word256
      /\ n = [a \in A |-> n[a]]
  BY <1>1 DEF Moves, w256
<1>. HIDE DEF f
<1>3. ASSUME NEW a \in A PROVE n[a] \in 0..(Word256 - 1) /\ n[a] \in Int
  <2>1. f[a] % Word256 \in 0..(Word256 - 1)
    BY <1>1, <1>2, Division
  <2>. QED
    BY <1>1, <1>2, <2>1
<1>4. SumFunctionOnSet(f, A) = SumFunctionOnSet(m, A) + SumFunctionOnSet(d, A)
  BY <1>1, <1>2, SumOfSums
<1>5. \E k \in Int : SumFunctionOnSet(n, A) = SumFunctionOnSet(f, A) + Word256 * k
  BY <1>1, <1>2, SumOfRemainders
<1>6. SumFunctionOnSet(m, A) \in Int /\ SumFunctionOnSet(n, A) \in Int
      /\ SumFunctionOnSet(d, A) \in Int
  BY <1>1, <1>2, <1>3, SumType
<1>. QED
  BY <1>2, <1>3, <1>4, <1>5, <1>6 DEF Total

LEMMA AddingUp ==
    ASSUME NEW p \in Int, NEW l \in Int, NEW u \in Int, NEW d \in Int, NEW b \in Int,
           NEW c \in Int, NEW k \in Int, NEW i \in Int, NEW j \in Int,
           p + l = b + k, u + d = c - b
    PROVE  (p + u + i) + (l + d + j) = c + (k + i + j)
  OBVIOUS

(* A transaction whose changes add up to those of the contract's ether      *)
(* keeps the books balanced.                                                *)
LEMMA MoneyMoves ==
    ASSUME MoneyType, Balanced, NEW up, NEW down,
           Moves(pending_money, pending_money', up),
           Moves(locked_money, locked_money', down),
           balance' \in 0..MaxBalance, next_nonce' \in [Address -> Nat],
           SumFunctionOnSet(up, Address) + SumFunctionOnSet(down, Address)
             = balance' - balance
    PROVE  MoneyType' /\ Balanced'
<1>1. PICK k \in Int : Total(pending_money) + Total(locked_money) = balance + Word256 * k
  BY DEF Balanced
<1>2. /\ pending_money' \in [Address -> 0..(Word256 - 1)]
      /\ Total(pending_money) \in Int /\ SumFunctionOnSet(up, Address) \in Int
      /\ Total(pending_money') \in Int
  BY MovesTotal DEF MoneyType
<1>3. PICK i \in Int : Total(pending_money')
                         = Total(pending_money) + SumFunctionOnSet(up, Address) + Word256 * i
  BY MovesTotal DEF MoneyType
<1>4. /\ locked_money' \in [Address -> 0..(Word256 - 1)]
      /\ Total(locked_money) \in Int /\ SumFunctionOnSet(down, Address) \in Int
      /\ Total(locked_money') \in Int
  BY MovesTotal DEF MoneyType
<1>5. PICK j \in Int : Total(locked_money')
                         = Total(locked_money) + SumFunctionOnSet(down, Address) + Word256 * j
  BY MovesTotal DEF MoneyType
<1>6. balance \in Int /\ balance' \in Int /\ Word256 \in Int
  BY ContractAssumption DEF MoneyType
<1>7. Total(pending_money') + Total(locked_money') = balance' + Word256 * (k + i + j)
  <2>1. Word256 * (k + i + j) = Word256 * k + Word256 * i + Word256 * j
    BY <1>6
  <2>2. Word256 * k \in Int /\ Word256 * i \in Int /\ Word256 * j \in Int
    BY <1>6
  <2>. DEFINE P == Total(pending_money)
              L == Total(locked_money)
              u == SumFunctionOnSet(up, Address)
              d == SumFunctionOnSet(down, Address)
              wk == Word256 * k
              wi == Word256 * i
              wj == Word256 * j
              b == balance
              c == balance'
  <2>3. b \in Int /\ c \in Int
    BY <1>6
  <2>4. P \in Int /\ L \in Int /\ u \in Int /\ d \in Int
    BY <1>2, <1>4
  <2>5. P + L = b + wk /\ u + d = c - b
    BY <1>1
  <2>6. Total(pending_money') = P + u + wi /\ Total(locked_money') = L + d + wj
    BY <1>3, <1>5
  <2>. HIDE DEF P, L, u, d, wk, wi, wj, b, c
  <2>7. wk \in Int /\ wi \in Int /\ wj \in Int
    BY <2>2 DEF wk, wi, wj
  <2>8. (P + u + wi) + (L + d + wj) = c + (wk + wi + wj)
    BY <2>3, <2>4, <2>5, <2>7, AddingUp
  <2>. QED
    BY <2>1, <2>6, <2>8 DEF wk, wi, wj, c
<1>8. Total(pending_money)' = Total(pending_money') /\ Total(locked_money)' = Total(locked_money')
  BY DEF Total
<1>. QED
  BY <1>2, <1>4, <1>7, <1>8 DEF MoneyType, Balanced

(* A change of one account, and no change *)
One(s, v) == [a \in Address |-> IF a = s THEN v ELSE 0]

LEMMA OneMoves ==
    ASSUME NEW m \in [Address -> 0..(Word256 - 1)], NEW s \in Address, NEW v \in Int,
           NEW n, n = [m EXCEPT ![s] = w256(m[s] + v)]
    PROVE  Moves(m, n, One(s, v)) /\ SumFunctionOnSet(One(s, v), Address) = v
<1>0. Word256 \in Nat \ {0} /\ IsFiniteSet(Address)
  BY ContractAssumption
<1>1. /\ One(s, v)[s] = v /\ \A a \in Address \ {s} : One(s, v)[a] = 0
      /\ \A a \in Address : One(s, v)[a] \in Int
  BY DEF One
<1>2. \A a \in Address \ {s} : w256(m[a] + 0) = m[a]
  <2>. SUFFICES ASSUME NEW a \in Address PROVE w256(m[a] + 0) = m[a]
    OBVIOUS
  <2>1. m[a] \in 0..(Word256 - 1) /\ m[a] + 0 = m[a]
    BY <1>0
  <2>. QED
    BY <1>0, <2>1, OwnRemainder DEF w256
<1>3. n = [a \in Address |-> w256(m[a] + One(s, v)[a])]
  BY <1>1, <1>2
<1>4. SumFunctionOnSet(One(s, v), Address) = v
  BY <1>0, <1>1, SumOfOne
<1>. QED
  BY <1>1, <1>3, <1>4 DEF Moves

LEMMA StillMoves ==
    ASSUME NEW m \in [Address -> 0..(Word256 - 1)]
    PROVE  Moves(m, m, One(oracle, 0)) /\ SumFunctionOnSet(One(oracle, 0), Address) = 0
<1>1. oracle \in Address /\ Word256 \in Nat \ {0}
  BY ContractAssumption
<1>2. m[oracle] \in 0..(Word256 - 1) /\ m[oracle] + 0 = m[oracle]
  BY <1>1
<1>3. w256(m[oracle] + 0) = m[oracle]
  BY <1>1, <1>2, OwnRemainder DEF w256
<1>4. m = [m EXCEPT ![oracle] = w256(m[oracle] + 0)]
  BY <1>1, <1>3
<1>. QED
  BY <1>1, <1>4, OneMoves

------------------------------------------------------------------------------
(* Each transaction *)

MInv == CInv /\ MoneyType /\ Balanced

LEMMA UnmovedKeepsMoney ==
    ASSUME MoneyType, Balanced, next_nonce' \in [Address -> Nat],
           UNCHANGED <<pending_money, locked_money, balance>>
    PROVE  MoneyType' /\ Balanced'
  BY DEF MoneyType, Balanced, Total

LEMMA DepositKeepsMoney ==
    ASSUME MoneyType, Balanced, NEW a \in Address, NEW v \in Deposit,
           send_pending_money(a, v) \/ recover_pending_money(a, v)
    PROVE  MoneyType' /\ Balanced'
<1>0. /\ v \in Nat /\ v \in Int /\ -v \in Int
      /\ MaxBalance \in Nat /\ Word256 \in Nat \ {0}
      /\ pending_money \in [Address -> 0..(Word256 - 1)]
  BY ContractAssumption DEF MoneyType
<1>1. Moves(locked_money, locked_money', One(oracle, 0))
      /\ SumFunctionOnSet(One(oracle, 0), Address) = 0
  BY StillMoves DEF MoneyType, send_pending_money, recover_pending_money
<1>2. next_nonce' \in [Address -> Nat]
  BY DEF MoneyType, send_pending_money, recover_pending_money
<1>3. CASE send_pending_money(a, v)
  <2>1. pending_money' = [pending_money EXCEPT ![a] = w256(pending_money[a] + v)]
    BY <1>3 DEF send_pending_money
  <2>2. Moves(pending_money, pending_money', One(a, v))
        /\ SumFunctionOnSet(One(a, v), Address) = v
    BY <1>0, <2>1, OneMoves
  <2>3. balance' \in 0..MaxBalance /\ v + 0 = balance' - balance
    BY <1>0, <1>3 DEF send_pending_money, MoneyType
  <2>. QED
    BY <1>1, <1>2, <2>2, <2>3, MoneyMoves
<1>4. CASE recover_pending_money(a, v)
  <2>1. pending_money[a] + (-v) \in 0..(Word256 - 1)
    BY <1>0, <1>4 DEF recover_pending_money, MoneyType
  <2>2. pending_money' = [pending_money EXCEPT ![a] = w256(pending_money[a] + (-v))]
    <3>1. w256(pending_money[a] + (-v)) = pending_money[a] + (-v)
      BY <1>0, <2>1, OwnRemainder DEF w256
    <3>2. pending_money[a] + (-v) = pending_money[a] - v
      BY <1>0 DEF MoneyType
    <3>. QED
      BY <1>4, <3>1, <3>2 DEF recover_pending_money
  <2>3. Moves(pending_money, pending_money', One(a, -v))
        /\ SumFunctionOnSet(One(a, -v), Address) = -v
    BY <1>0, <2>2, OneMoves
  <2>4. balance' \in 0..MaxBalance /\ -v + 0 = balance' - balance
    BY <1>0, <1>4 DEF recover_pending_money, MoneyType
  <2>. QED
    BY <1>1, <1>2, <2>3, <2>4, MoneyMoves
<1>. QED
  BY <1>3, <1>4

LEMMA LockKeepsMoney ==
    ASSUME CInv, MoneyType, Balanced, NEW a \in Address, NEW id \in DOMAIN jobs, lock(a, id)
    PROVE  MoneyType' /\ Balanced'
<1>. DEFINE p == calc_max_price(jobs[id])
<1>1. p \in Int
  <2>1. JobOK(jobs[id])
    BY DEF CInv, WellFormed, JobOK
  <2>. QED
    BY <2>1, PriceType, ContractAssumption
<1>2. /\ pending_money' = [pending_money EXCEPT ![a] = w256(pending_money[a] - p)]
      /\ locked_money' = [locked_money EXCEPT ![a] = w256(locked_money[a] + p)]
      /\ UNCHANGED <<balance, next_nonce>>
  BY DEF lock
<1>. HIDE DEF p
<1>3. pending_money[a] - p = pending_money[a] + (-p) /\ -p \in Int
  BY <1>1, ContractAssumption DEF MoneyType
<1>4. Moves(pending_money, pending_money', One(a, -p))
      /\ SumFunctionOnSet(One(a, -p), Address) = -p
  BY <1>2, <1>3, OneMoves DEF MoneyType
<1>5. Moves(locked_money, locked_money', One(a, p))
      /\ SumFunctionOnSet(One(a, p), Address) = p
  BY <1>1, <1>2, OneMoves DEF MoneyType
<1>6. balance' \in 0..MaxBalance /\ -p + p = balance' - balance /\ next_nonce' \in [Address -> Nat]
  BY <1>1, <1>2, ContractAssumption DEF MoneyType
<1>. QED
  BY <1>4, <1>5, <1>6, MoneyMoves

(* A settlement, told by the gains it hands out *)
LEMMA SettleEffect ==
    ASSUME CInv, MoneyType, NEW task \in DOMAIN tasks, NEW state,
           NEW payments, PaymentsOK(payments), Settle(task, state, payments)
    PROVE  LET id == task[1]
               price == calc_max_price_per_task(jobs[id])
               gains == Gains(id, tasks[task].managers_addresses, payments)
           IN  /\ id \in DOMAIN jobs /\ Locked(id) /\ id \in JobId /\ JobOK(jobs[id])
               /\ SenderOf(id) \in Address
               /\ tasks[task].managers_addresses \in Seq(Address)
               /\ price \in 0..(Word64 - 1)
               /\ \A a \in Address : gains[a] \in Int
               /\ SumFunctionOnSet(gains, Address) = price
               /\ pending_money' = [a \in Address |-> w256(pending_money[a] + gains[a])]
               /\ locked_money' = [locked_money EXCEPT
                                     ![SenderOf(id)] = w256(locked_money[SenderOf(id)] - price)]
               /\ tasks' = [tasks EXCEPT ![task].state = state]
               /\ UNCHANGED <<jobs, next_nonce, balance>>
<1>. DEFINE id == task[1]
            managers == tasks[task].managers_addresses
            price == calc_max_price_per_task(jobs[id])
            gains == Gains(id, managers, payments)
            job == jobs[id]
<1>1. Locked(id) /\ id \in DOMAIN jobs
  BY TasksDomain DEF CInv, Locked
<1>2. id \in JobId /\ JobOK(jobs[id])
  BY <1>1 DEF CInv, WellFormed, JobOK
<1>3. SenderOf(id) \in Address
  BY <1>2 DEF JobId, SenderOf
<1>4. managers \in Seq(Address)
  BY DEF CInv, WellFormed
<1>5. price \in 0..(Word64 - 1)
  BY <1>2, PriceType
<1>6. /\ \A a \in Address : gains[a] \in Int
      /\ SumFunctionOnSet(gains, Address) = price
  BY <1>2, <1>4, GainsTotal
<1>7. ASSUME NEW a \in Address
      PROVE  pending_money[a] + WorkShare(job, payments, a) + ManagementShare(job, managers, a)
               + (IF a = SenderOf(id) THEN refund(job, managers, payments) ELSE 0)
               = pending_money[a] + gains[a]
  <2>. DEFINE w == WorkShare(job, payments, a)
              m == ManagementShare(job, managers, a)
              r == refund(job, managers, payments)
              b == IF a = SenderOf(id) THEN r ELSE 0
              o == pending_money[a]
  <2>1. w \in Nat /\ SumFunctionOnSet(Costs(job, payments), DOMAIN payments) \in Nat
    <3>. HIDE DEF job
    <3>. QED
      BY <1>2, WorkShared DEF job
  <2>2. m \in Nat /\ job.management_price * Len(managers) \in Nat
    <3>. HIDE DEF job, managers
    <3>. QED
      BY <1>2, <1>4, ManagementShared DEF job
  <2>3. /\ w \in Int /\ m \in Int /\ job.management_price * Len(managers) \in Int
        /\ SumFunctionOnSet(Costs(job, payments), DOMAIN payments) \in Int
    BY <2>1, <2>2
  <2>4. r \in Int
    <3>. DEFINE fees == job.management_price * Len(managers)
                wages == SumFunctionOnSet(Costs(job, payments), DOMAIN payments)
    <3>1. r = price - (fees + wages)
      BY DEF refund, total_actual_cost
    <3>2. price \in Int
      BY <1>5, ContractAssumption
    <3>. HIDE DEF r, fees, wages, price
    <3>. QED
      BY <2>3, <3>1, <3>2 DEF fees, wages
  <2>5. o \in Int
    BY ContractAssumption DEF MoneyType
  <2>6. gains[a] = w + m + b
    BY DEF Gains
  <2>. HIDE DEF w, m, r, o, gains
  <2>7. b \in Int
    BY <2>4
  <2>. HIDE DEF b
  <2>8. o + w + m + b = o + gains[a]
    BY <2>3, <2>5, <2>6, <2>7
  <2>. QED
    BY <2>8 DEF o, w, m, b, r
<1>8. pending_money' = [a \in Address |-> w256(pending_money[a] + gains[a])]
  <2>1. pending_money' = [a \in Address |->
             w256(pending_money[a] + WorkShare(job, payments, a)
                    + ManagementShare(job, managers, a)
                    + (IF a = SenderOf(id) THEN refund(job, managers, payments) ELSE 0))]
    BY DEF Settle
  <2>. HIDE DEF gains, job, managers, id
  <2>. QED
    BY <1>7, <2>1
<1>9. /\ locked_money' = [locked_money EXCEPT
                            ![SenderOf(id)] = w256(locked_money[SenderOf(id)] - price)]
      /\ tasks' = [tasks EXCEPT ![task].state = state]
      /\ UNCHANGED <<jobs, next_nonce, balance>>
  BY DEF Settle, Unlock
<1>. QED
  BY <1>1, <1>2, <1>3, <1>4, <1>5, <1>6, <1>8, <1>9

LEMMA SettleKeepsMoney ==
    ASSUME CInv, MoneyType, Balanced, NEW task \in DOMAIN tasks, NEW state,
           NEW payments, PaymentsOK(payments), Settle(task, state, payments)
    PROVE  MoneyType' /\ Balanced'
<1>. DEFINE id == task[1]
            price == calc_max_price_per_task(jobs[id])
            gains == Gains(id, tasks[task].managers_addresses, payments)
            s == SenderOf(id)
<1>1. /\ s \in Address /\ price \in 0..(Word64 - 1)
      /\ \A a \in Address : gains[a] \in Int
      /\ SumFunctionOnSet(gains, Address) = price
      /\ pending_money' = [a \in Address |-> w256(pending_money[a] + gains[a])]
      /\ locked_money' = [locked_money EXCEPT ![s] = w256(locked_money[s] - price)]
      /\ UNCHANGED <<next_nonce, balance>>
  BY SettleEffect
<1>. HIDE DEF price, gains, s
<1>2. price \in Int /\ -price \in Int /\ locked_money \in [Address -> 0..(Word256 - 1)]
  BY <1>1, ContractAssumption DEF MoneyType
<1>3. locked_money[s] - price = locked_money[s] + (-price)
  BY <1>1, <1>2, ContractAssumption
<1>4. Moves(locked_money, locked_money', One(s, -price))
      /\ SumFunctionOnSet(One(s, -price), Address) = -price
  BY <1>1, <1>2, <1>3, OneMoves
<1>5. Moves(pending_money, pending_money', gains)
  BY <1>1 DEF Moves
<1>6. /\ balance' \in 0..MaxBalance /\ next_nonce' \in [Address -> Nat]
      /\ price + (-price) = balance' - balance
  BY <1>1, <1>2, ContractAssumption DEF MoneyType
<1>. QED
  BY <1>1, <1>4, <1>5, <1>6, MoneyMoves

LEMMA SettlementPayments ==
    /\ PaymentsOK(<<>>)
    /\ \A n \in Nat : \A payments \in Payments(n) : PaymentsOK(payments)
<1>1. PaymentsOK(<<>>)
  BY FS_EmptySet DEF PaymentsOK
<1>2. ASSUME NEW n \in Nat, NEW payments \in Payments(n) PROVE PaymentsOK(payments)
  <2>1. IsFiniteSet(1..n)
    BY FS_Interval
  <2>. QED
    BY <2>1 DEF PaymentsOK, Payments
<1>. QED
  BY <1>1, <1>2

(* No task is settled or created, and none loses a manager. *)
TasksStill ==
    /\ DOMAIN tasks' = DOMAIN tasks
    /\ \A t \in DOMAIN tasks :
          /\ tasks'[t].state = tasks[t].state
          /\ Len(tasks'[t].managers_addresses) >= Len(tasks[t].managers_addresses)
          /\ jobs'[t[1]] = jobs[t[1]]

LEMMA DraftStepsLeaveTasks ==
    ASSUME CInv, UNCHANGED tasks,
           \A id \in DOMAIN jobs : Locked(id) => jobs'[id] = jobs[id]
    PROVE  TasksStill
<1>1. \A t \in DOMAIN tasks : jobs'[t[1]] = jobs[t[1]]
  BY TasksDomain DEF CInv, Locked
<1>2. \A t \in DOMAIN tasks : Len(tasks[t].managers_addresses) \in Nat
  BY DEF CInv, WellFormed
<1>. QED
  BY <1>1, <1>2 DEF TasksStill

(* What a transaction does to the money: nothing, a deposit, a lock or a    *)
(* settlement                                                               *)
LEMMA MoneyCases ==
    ASSUME CInv, MoneyType, Next
    PROVE  \/ /\ next_nonce' \in [Address -> Nat]
              /\ UNCHANGED <<pending_money, locked_money, balance>>
              /\ TasksStill
           \/ \E a \in Address, v \in Deposit :
                 send_pending_money(a, v) \/ recover_pending_money(a, v)
           \/ \E a \in Address, id \in DOMAIN jobs : lock(a, id)
           \/ \E task \in DOMAIN tasks : \E payments :
                 /\ PaymentsOK(payments) /\ Incomplete(task)
                 /\ \/ Settle(task, "DefinetelyFailed", payments) /\ payments = <<>>
                    \/ /\ Settle(task, "Completed", payments)
                       /\ payments \in Payments(jobs[task[1]].redundancy)
<1>. DEFINE Unmoved == /\ next_nonce' \in [Address -> Nat]
                       /\ UNCHANGED <<pending_money, locked_money, balance>>
                       /\ TasksStill
            Deposits == \E a \in Address, v \in Deposit :
                           send_pending_money(a, v) \/ recover_pending_money(a, v)
            Locks == \E a \in Address, id \in DOMAIN jobs : lock(a, id)
            Settles == \E task \in DOMAIN tasks : \E payments :
                 /\ PaymentsOK(payments) /\ Incomplete(task)
                 /\ \/ Settle(task, "DefinetelyFailed", payments) /\ payments = <<>>
                    \/ /\ Settle(task, "Completed", payments)
                       /\ payments \in Payments(jobs[task[1]].redundancy)
<1>1. ASSUME NEW a \in Address, SenderStep(a) PROVE Unmoved \/ Deposits \/ Locks
  <2>1. CASE create_draft(a)
    <3>1. PICK nonce \in Nonce : next_nonce' = [next_nonce EXCEPT ![a] = nonce + 1]
                                  /\ UNCHANGED <<pending_money, locked_money, balance>>
      BY <2>1 DEF create_draft
    <3>2. nonce + 1 \in Nat
      BY ContractAssumption
    <3>3. TasksStill
      <4>1. UNCHANGED tasks /\ \A id \in DOMAIN jobs : jobs'[id] = jobs[id]
        BY <2>1 DEF create_draft
      <4>. QED
        BY <4>1, DraftStepsLeaveTasks
    <3>. QED
      BY <3>1, <3>2, <3>3 DEF MoneyType
  <2>2. ASSUME NEW id \in DOMAIN jobs,
               \/ \E p \in Parameters : set_parameters(a, id, p)
               \/ \E p \in WorkerParameters : set_worker_parameters(a, id, p)
               \/ \E p \in ManParameters : set_management_parameters(a, id, p)
               \/ \E val \in OtherData : set_other_data(a, id, val)
               \/ reset_arguments(a, id) \/ push_argument(a, id) \/ delete_draft(a, id)
        PROVE  Unmoved
    <3>1. ASSUME NEW job, Edit(a, id, job) PROVE Unmoved
      <4>1. /\ UNCHANGED <<tasks, money>> /\ jobs[id].is_draft
            /\ \A j \in DOMAIN jobs \ {id} : jobs'[j] = jobs[j]
        BY <3>1 DEF Edit, check_is_our_draft
      <4>2. TasksStill
        BY <4>1, DraftStepsLeaveTasks DEF Locked
      <4>. QED
        BY <4>1, <4>2 DEF money, MoneyType
    <3>2. ASSUME delete_draft(a, id) PROVE Unmoved
      <4>1. /\ UNCHANGED <<tasks, money>> /\ jobs[id].is_draft
            /\ \A j \in DOMAIN jobs \ {id} : jobs'[j] = jobs[j]
        BY <3>2 DEF delete_draft, check_is_our_draft
      <4>2. TasksStill
        BY <4>1, DraftStepsLeaveTasks DEF Locked
      <4>. QED
        BY <4>1, <4>2 DEF money, MoneyType
    <3>. HIDE DEF Unmoved
    <3>. QED
      BY <2>2, <3>1, <3>2 DEF set_parameters, set_worker_parameters,
         set_management_parameters, set_other_data, reset_arguments, push_argument
  <2>3. Deposits \/ create_draft(a) \/ Locks \/ (\E id \in DOMAIN jobs :
               \/ \E p \in Parameters : set_parameters(a, id, p)
               \/ \E p \in WorkerParameters : set_worker_parameters(a, id, p)
               \/ \E p \in ManParameters : set_management_parameters(a, id, p)
               \/ \E val \in OtherData : set_other_data(a, id, val)
               \/ reset_arguments(a, id) \/ push_argument(a, id) \/ delete_draft(a, id))
    BY <1>1 DEF SenderStep
  <2>. HIDE DEF Unmoved, Deposits, Locks
  <2>. QED
    BY <2>1, <2>2, <2>3
<1>2. ASSUME NEW a \in Address, OracleStep(a) PROVE Unmoved \/ Settles
  <2>1. ASSUME NEW task \in DOMAIN tasks, NEW m \in Address, push_manager(a, task, m)
        PROVE  Unmoved
    <3>1. /\ UNCHANGED <<jobs, money>>
          /\ tasks' = [tasks EXCEPT ![task].managers_addresses = Append(@, m)]
      BY <2>1 DEF push_manager
    <3>2. \A t \in DOMAIN tasks : tasks[t].managers_addresses \in Seq(Address)
      BY DEF CInv, WellFormed
    <3>3. ASSUME NEW t \in DOMAIN tasks
          PROVE  /\ tasks'[t].state = tasks[t].state
                 /\ Len(tasks'[t].managers_addresses) >= Len(tasks[t].managers_addresses)
      BY <3>1, <3>2
    <3>4. TasksStill
      BY <3>1, <3>3 DEF TasksStill
    <3>. QED
      BY <3>1, <3>4 DEF money, MoneyType
  <2>2. ASSUME NEW task \in DOMAIN tasks, set_definitely_failed(a, task) PROVE Settles
    BY <2>2, SettlementPayments DEF set_definitely_failed
  <2>3. ASSUME NEW task \in DOMAIN tasks,
               NEW payments \in Payments(jobs[task[1]].redundancy),
               set_completed(a, task, payments)
        PROVE  Settles
    <3>1. task[1] \in DOMAIN jobs
      BY TasksDomain DEF CInv, Locked
    <3>2. jobs[task[1]].redundancy \in Nat
      BY <3>1, JobNumbers DEF CInv, WellFormed, JobOK
    <3>3. PaymentsOK(payments)
      BY <3>2, SettlementPayments
    <3>. QED
      BY <2>3, <3>3 DEF set_completed
  <2>. HIDE DEF Unmoved, Settles
  <2>. QED
    BY <1>2, <2>1, <2>2, <2>3 DEF OracleStep
<1>. HIDE DEF Unmoved, Deposits, Locks, Settles
<1>3. Unmoved \/ Deposits \/ Locks \/ Settles
  BY <1>1, <1>2 DEF Next
<1>. QED
  BY <1>3 DEF Unmoved, Deposits, Locks, Settles

LEMMA InitMInv == Init => MInv
<1>. SUFFICES ASSUME Init PROVE MInv
  OBVIOUS
<1>0. Word256 \in Nat \ {0} /\ MaxBalance \in Nat /\ IsFiniteSet(Address)
  BY ContractAssumption
<1>1. MoneyType
  BY <1>0 DEF Init, MoneyType
<1>2. Total(pending_money) = 0 /\ Total(locked_money) = 0
  BY <1>0, SumOfZeroes DEF Init, Total
<1>3. Total(pending_money) + Total(locked_money) = balance + Word256 * 0
  BY <1>0, <1>2 DEF Init
<1>4. Balanced
  BY <1>3 DEF Balanced
<1>. QED
  BY <1>1, <1>4, InitCInv DEF MInv

LEMMA NextMInv == MInv /\ [Next]_vars => MInv'
<1>. SUFFICES ASSUME MInv, [Next]_vars PROVE MInv'
  OBVIOUS
<1>1. CInv'
  BY NextCInv DEF MInv
<1>2. CASE Next
  BY <1>1, <1>2, MoneyCases, UnmovedKeepsMoney, DepositKeepsMoney, LockKeepsMoney,
     SettleKeepsMoney DEF MInv
<1>3. CASE UNCHANGED vars
  BY <1>1, <1>3, UnmovedKeepsMoney DEF MInv, vars, money, MoneyType
<1>. QED
  BY <1>2, <1>3

LEMMA LedgerInductive == Spec => []MInv
  BY InitMInv, NextMInv, PTL DEF Spec

(* Whatever the transactions and their order, and whatever wraps, every     *)
(* account of the contract is a uint256, every job a draft or locked.       *)
THEOREM AccountsTyped == Spec => []TypeOK
<1>1. MInv => TypeOK
  BY DEF MInv, CInv, MoneyType, TypeOK
<1>. QED
  BY <1>1, LedgerInductive, PTL

(* Deposits, locks and settlements only move money: what the users own is   *)
(* what the contract holds, up to the wrap of a uint256.                    *)
THEOREM BooksBalance == Spec => []LedgerBalanced
<1>1. ASSUME MInv PROVE LedgerBalanced
  <2>1. PICK k \in Int : Total(pending_money) + Total(locked_money) = balance + Word256 * k
    BY <1>1 DEF MInv, Balanced
  <2>2. Word256 \in Nat \ {0} /\ IsFiniteSet(Address) /\ balance \in Int
    BY <1>1, ContractAssumption DEF MInv, MoneyType
  <2>3. \A a \in Address : pending_money[a] \in Int /\ locked_money[a] \in Int
    BY <1>1, <2>2 DEF MInv, MoneyType
  <2>4. Total(pending_money) \in Int /\ Total(locked_money) \in Int
    BY <2>2, <2>3, SumType DEF Total
  <2>. DEFINE sum == Total(pending_money) + Total(locked_money)
  <2>5. sum \in Int /\ sum = balance + Word256 * k
    BY <2>1, <2>4
  <2>. HIDE DEF sum
  <2>6. sum % Word256 = balance % Word256
    BY <2>2, <2>5, SameRemainder
  <2>. QED
    BY <2>6 DEF LedgerBalanced, w256, sum
<1>. QED
  BY <1>1, LedgerInductive, PTL

------------------------------------------------------------------------------
(* What is locked *)

(* A uint256 has room for the price, a uint64, of every task there is: the  *)
(* wrap of the locked money would need 2^192 tasks.                         *)
RoomForEveryTask == Word64 * Cardinality(DOMAIN tasks) <= Word256

LEMMA AllFinite == IsFiniteSet(JobId) /\ IsFiniteSet(0..MaxArgs) /\ IsFiniteSet(TaskId)
<1>1. IsFiniteSet(Address) /\ IsFiniteSet(Nonce) /\ 0 \in Int /\ MaxArgs \in Int
  BY ContractAssumption
<1>2. IsFiniteSet(JobId)
  BY <1>1, FS_Product DEF JobId
<1>3. IsFiniteSet(0..MaxArgs)
  BY <1>1, FS_Interval
<1>. QED
  BY <1>2, <1>3, FS_Product DEF TaskId

LEMMA UnsettledTasks ==
    ASSUME CInv, NEW a \in Address
    PROVE  /\ Unsettled(a) \subseteq DOMAIN tasks /\ IsFiniteSet(Unsettled(a))
           /\ \A t \in Unsettled(a) :
                 /\ t \in DOMAIN tasks /\ JobOK(jobs[t[1]])
                 /\ PriceOf[t] = calc_max_price_per_task(jobs[t[1]])
                 /\ PriceOf[t] \in 0..(Word64 - 1)
           /\ DOMAIN tasks \subseteq TaskId /\ IsFiniteSet(TaskId)
<1>2. IsFiniteSet(TaskId)
  BY AllFinite
<1>3. ASSUME NEW t \in DOMAIN tasks
      PROVE  t \in TaskId /\ JobOK(jobs[t[1]])
  <2>1. t = <<t[1], t[2]>> /\ Locked(t[1]) /\ t[2] \in 0..(jobs[t[1]].arguments - 1)
    BY TasksDomain DEF CInv
  <2>2. JobOK(jobs[t[1]]) /\ t[1] \in JobId
    BY <2>1 DEF CInv, WellFormed, JobOK, Locked
  <2>3. jobs[t[1]].arguments \in Nat /\ jobs[t[1]].arguments <= MaxArgs
    BY <2>2, JobNumbers
  <2>4. t[2] \in 0..MaxArgs
    BY <2>1, <2>3, ContractAssumption
  <2>. QED
    BY <2>1, <2>2, <2>4 DEF TaskId
<1>4. Unsettled(a) \subseteq DOMAIN tasks /\ DOMAIN tasks \subseteq TaskId
  BY <1>3 DEF Unsettled
<1>5. IsFiniteSet(Unsettled(a))
  BY <1>2, <1>4, FS_Subset
<1>6. \A t \in Unsettled(a) : PriceOf[t] = calc_max_price_per_task(jobs[t[1]])
  BY DEF Unsettled, PriceOf
<1>7. \A t \in Unsettled(a) : PriceOf[t] \in 0..(Word64 - 1)
  BY <1>3, <1>6, PriceType DEF Unsettled
<1>. QED
  BY <1>2, <1>3, <1>4, <1>5, <1>6, <1>7 DEF Unsettled

LEMMA Strictly ==
    ASSUME NEW w \in Nat \ {0}, NEW n \in Nat, NEW m \in Nat, NEW v \in Nat \ {0},
           n <= m, w * m <= v
    PROVE  (w - 1) * n < v
<1>1. CASE n = 0
  BY <1>1
<1>2. CASE n # 0
  <2>1. (w - 1) * n = w * n - n /\ w * n \in Int
    OBVIOUS
  <2>2. w * n <= w * m
    <3>1. w * (m - n) \in Nat
      BY NaturalProduct
    <3>2. w * m = w * n + w * (m - n) /\ w * m \in Int
      OBVIOUS
    <3>. QED
      BY <2>1, <3>1, <3>2
  <2>3. w * m \in Int
    OBVIOUS
  <2>. QED
    BY <1>2, <2>1, <2>2, <2>3
<1>. QED
  BY <1>1, <1>2

(* The prices of any tasks add up to a uint256. *)
LEMMA PricesFit ==
    ASSUME NEW D, IsFiniteSet(D), Word64 * Cardinality(D) <= Word256,
           NEW S \in SUBSET D, NEW f, \A t \in S : f[t] \in 0..(Word64 - 1)
    PROVE  SumFunctionOnSet(f, S) \in 0..(Word256 - 1)
<1>. DEFINE n == Cardinality(S)
            m == Cardinality(D)
            sum == SumFunctionOnSet(f, S)
<1>1. IsFiniteSet(S)
  BY FS_Subset
<1>2. n \in Nat /\ m \in Nat /\ n <= m
  BY <1>1, FS_Subset, FS_CardinalityType
<1>3. Word64 \in Nat \ {0} /\ Word256 \in Nat \ {0} /\ Word64 - 1 \in Int
  BY ContractAssumption
<1>4. \A t \in S : f[t] \in Nat /\ f[t] \in Int /\ f[t] <= Word64 - 1
  BY <1>3
<1>5. sum \in Nat
  BY <1>1, <1>4, SumOfNaturals
<1>6. sum <= (Word64 - 1) * n
  BY <1>1, <1>3, <1>4, SumAtMost
<1>. HIDE DEF sum, n, m
<1>7. (Word64 - 1) * n < Word256
  BY <1>2, <1>3, Strictly DEF m
<1>8. (Word64 - 1) * n \in Int
  BY <1>2, <1>3
<1>. QED
  BY <1>3, <1>5, <1>6, <1>7, <1>8 DEF sum

(* Steps that leave the tasks and the locked money alone *)
LEMMA StillCovers ==
    ASSUME CInv, LockedCovers, TasksStill, UNCHANGED locked_money
    PROVE  LockedCovers'
<1>. SUFFICES ASSUME NEW a \in Address
              PROVE  locked_money'[a] = SumFunctionOnSet(PriceOf, Unsettled(a))'
  BY DEF LockedCovers
<1>1. Unsettled(a)' = Unsettled(a)
  BY DEF TasksStill, Unsettled, Incomplete
<1>2. \A t \in Unsettled(a) : PriceOf'[t] = PriceOf[t]
  BY DEF TasksStill, Unsettled, PriceOf
<1>3. IsFiniteSet(Unsettled(a))
  BY UnsettledTasks
<1>4. SumFunctionOnSet(PriceOf', Unsettled(a)) = SumFunctionOnSet(PriceOf, Unsettled(a))
  BY <1>2, <1>3, SumOfEquals
<1>. QED
  BY <1>1, <1>4 DEF LockedCovers

LEMMA JobTasks ==
    ASSUME NEW id, NEW n \in Nat
    PROVE  /\ IsFiniteSet({id} \X (0..(n - 1)))
           /\ Cardinality({id} \X (0..(n - 1))) = n
<1>. DEFINE I == 0..(n - 1)
<1>1. IsFiniteSet({id}) /\ Cardinality({id}) = 1
  BY FS_Singleton
<1>2. IsFiniteSet(I) /\ Cardinality(I) = n
  <2>1. 0 \in Int /\ n - 1 \in Int
    OBVIOUS
  <2>2. IsFiniteSet(I) /\ Cardinality(I) = IF 0 > n - 1 THEN 0 ELSE (n - 1) - 0 + 1
    BY <2>1, FS_Interval
  <2>. HIDE DEF I
  <2>. QED
    BY <2>2
<1>. HIDE DEF I
<1>3. IsFiniteSet({id} \X I) /\ Cardinality({id} \X I) = 1 * n
  BY <1>1, <1>2, FS_Product
<1>. QED
  BY <1>3 DEF I

LEMMA LockCovers ==
    ASSUME RoomForEveryTask', CInv, MoneyType, LockedCovers,
           NEW s \in Address, NEW id \in DOMAIN jobs,
           lock(s, id)
    PROVE  LockedCovers'
<1>. DEFINE n == jobs[id].arguments
            new == {id} \X (0..(n - 1))
            price == calc_max_price_per_task(jobs[id])
            f == PriceOf'
            old(a) == Unsettled(a)
<1>1. /\ SenderOf(id) = s /\ jobs[id].is_draft /\ JobOK(jobs[id]) /\ id \in JobId
      /\ n \in Nat /\ n <= MaxArgs /\ price \in 0..(Word64 - 1) /\ price \in Int
  <2>1. JobOK(jobs[id]) /\ id \in JobId
    BY DEF CInv, WellFormed, JobOK
  <2>2. price \in 0..(Word64 - 1) /\ price \in Int
    BY <2>1, PriceType, ContractAssumption
  <2>. QED
    BY <2>1, <2>2, JobNumbers DEF lock, check_is_our_draft
<1>2. /\ new \cap DOMAIN tasks = {} /\ DOMAIN tasks' = DOMAIN tasks \cup new
      /\ \A t \in DOMAIN tasks : tasks'[t] = tasks[t]
      /\ \A t \in new : tasks'[t].state = "Incomplete" /\ t[1] = id
  BY DEF lock, TasksOf
<1>3. /\ \A t \in DOMAIN tasks : jobs'[t[1]] = jobs[t[1]]
      /\ \A x \in DOMAIN jobs[id] \ {"is_draft"} : jobs'[id][x] = jobs[id][x]
  <2>1. \A t \in DOMAIN tasks : t[1] # id
    BY <1>1, TasksDomain DEF CInv, Locked
  <2>2. jobs' = [jobs EXCEPT ![id].is_draft = FALSE]
    BY DEF lock
  <2>. QED
    BY <2>1, <2>2
<1>4. calc_max_price_per_task(jobs'[id]) = price
  BY <1>1, <1>3, DraftShape DEF calc_max_price_per_task, FullPricePerTask, JobOK
<1>5. \A t \in DOMAIN tasks : f[t] = PriceOf[t]
  BY <1>2, <1>3 DEF PriceOf
<1>6. \A t \in new : f[t] = price
  BY <1>2, <1>4 DEF PriceOf
<1>7. locked_money' = [locked_money EXCEPT ![s] = w256(locked_money[s] + calc_max_price(jobs[id]))]
  BY DEF lock
<1>. HIDE DEF f, price, n
<1>8. ASSUME NEW a \in Address
      PROVE  /\ IsFiniteSet(old(a)) /\ old(a) \subseteq DOMAIN tasks
             /\ \A t \in old(a) : f[t] \in 0..(Word64 - 1) /\ f[t] \in Int
             /\ SumFunctionOnSet(f, old(a)) = SumFunctionOnSet(PriceOf, old(a))
             /\ SumFunctionOnSet(f, old(a)) = locked_money[a]
  <2>1. IsFiniteSet(old(a)) /\ old(a) \subseteq DOMAIN tasks
    BY UnsettledTasks
  <2>2. \A t \in old(a) : f[t] = PriceOf[t]
    BY <1>5 DEF Unsettled
  <2>3. \A t \in old(a) : f[t] \in 0..(Word64 - 1) /\ f[t] \in Int
    BY <2>2, UnsettledTasks, ContractAssumption
  <2>4. SumFunctionOnSet(f, old(a)) = SumFunctionOnSet(PriceOf, old(a))
    BY <2>1, <2>2, SumOfEquals
  <2>. QED
    BY <2>1, <2>3, <2>4 DEF LockedCovers
<1>9. ASSUME NEW a \in Address \ {s} PROVE locked_money'[a] = SumFunctionOnSet(f, Unsettled(a)')
  <2>1. Unsettled(a)' = old(a)
    BY <1>1, <1>2 DEF Unsettled, Incomplete
  <2>2. locked_money'[a] = locked_money[a]
    BY <1>7 DEF MoneyType
  <2>. QED
    BY <1>8, <2>1, <2>2
<1>10. locked_money'[s] = SumFunctionOnSet(f, Unsettled(s)')
  <2>1. Unsettled(s)' = old(s) \cup new /\ old(s) \cap new = {}
    BY <1>1, <1>2 DEF Unsettled, Incomplete
  <2>2. IsFiniteSet(new) /\ Cardinality(new) = n
    BY <1>1, JobTasks
  <2>3. /\ IsFiniteSet(DOMAIN tasks') /\ Word64 * Cardinality(DOMAIN tasks') <= Word256
        /\ new \subseteq DOMAIN tasks' /\ old(s) \subseteq DOMAIN tasks'
    <3>1. new \subseteq TaskId
      BY <1>1, ContractAssumption DEF TaskId
    <3>2. DOMAIN tasks' \subseteq TaskId /\ IsFiniteSet(TaskId)
      BY <1>1, <1>2, <3>1, UnsettledTasks
    <3>. QED
      BY <1>1, <1>2, <1>8, <3>2, FS_Subset DEF RoomForEveryTask
  <2>4. \A t \in old(s) \cup new : f[t] \in 0..(Word64 - 1) /\ f[t] \in Int
    BY <1>1, <1>6, <1>8
  <2>. HIDE DEF new
  <2>5. SumFunctionOnSet(f, old(s) \cup new)
          = SumFunctionOnSet(f, old(s)) + SumFunctionOnSet(f, new)
    BY <1>8, <2>1, <2>2, <2>4, SumOfUnion
  <2>6. SumFunctionOnSet(f, new) = price * n
    BY <1>1, <1>6, <2>2, SumOfConstant
  <2>7. /\ SumFunctionOnSet(f, old(s) \cup new) \in 0..(Word256 - 1)
        /\ SumFunctionOnSet(f, new) \in 0..(Word256 - 1)
    BY <1>8, <2>3, <2>4, PricesFit
  <2>8. calc_max_price(jobs[id]) = price * n
    <3>1. calc_max_price(jobs[id]) = (price * n) % Word256
      BY DEF calc_max_price, w256, price, n
    <3>2. price * n \in 0..(Word256 - 1) /\ Word256 \in Nat \ {0}
      BY <2>6, <2>7, ContractAssumption
    <3>. QED
      BY <3>1, <3>2, OwnRemainder
  <2>9. locked_money[s] + calc_max_price(jobs[id]) = SumFunctionOnSet(f, old(s) \cup new)
    BY <1>8, <2>5, <2>6, <2>8
  <2>10. w256(SumFunctionOnSet(f, old(s) \cup new)) = SumFunctionOnSet(f, old(s) \cup new)
    BY <2>7, OwnRemainder, ContractAssumption DEF w256
  <2>11. locked_money'[s] = w256(locked_money[s] + calc_max_price(jobs[id]))
    BY <1>7 DEF MoneyType
  <2>. QED
    BY <2>1, <2>9, <2>10, <2>11
<1>. QED
  BY <1>9, <1>10 DEF LockedCovers, f

LEMMA SettleCovers ==
    ASSUME CInv, MoneyType, LockedCovers,
           NEW task \in DOMAIN tasks, Incomplete(task),
           NEW state, state # "Incomplete",
           NEW payments, PaymentsOK(payments), Settle(task, state, payments)
    PROVE  LockedCovers'
<1>. DEFINE id == task[1]
            s == SenderOf(id)
            price == calc_max_price_per_task(jobs[id])
            f == PriceOf
            old(a) == Unsettled(a)
<1>1. /\ s \in Address /\ price \in 0..(Word64 - 1)
      /\ locked_money' = [locked_money EXCEPT ![s] = w256(locked_money[s] - price)]
      /\ tasks' = [tasks EXCEPT ![task].state = state]
      /\ UNCHANGED jobs
  BY SettleEffect
<1>2. /\ DOMAIN tasks' = DOMAIN tasks /\ tasks'[task].state = state
      /\ \A t \in DOMAIN tasks \ {task} : tasks'[t] = tasks[t]
  BY <1>1 DEF CInv, WellFormed
<1>3. f' = f
  BY <1>1, <1>2 DEF PriceOf
<1>4. ASSUME NEW a \in Address
      PROVE  /\ IsFiniteSet(old(a)) /\ locked_money[a] = SumFunctionOnSet(f, old(a))
             /\ \A t \in old(a) : f[t] \in 0..(Word64 - 1) /\ f[t] \in Int
             /\ Unsettled(a)' = old(a) \ {task}
  <2>1. Unsettled(a)' = old(a) \ {task}
    BY <1>2 DEF Unsettled, Incomplete
  <2>2. IsFiniteSet(old(a)) /\ \A t \in old(a) : f[t] \in 0..(Word64 - 1) /\ f[t] \in Int
    BY UnsettledTasks, ContractAssumption
  <2>. QED
    BY <2>1, <2>2 DEF LockedCovers
<1>5. task \in old(s) /\ f[task] = price
  BY DEF Unsettled, PriceOf
<1>6. \A a \in Address \ {s} : task \notin old(a)
  BY DEF Unsettled
<1>. HIDE DEF f, price, s
<1>7. ASSUME NEW a \in Address \ {s} PROVE locked_money'[a] = SumFunctionOnSet(f, Unsettled(a)')
  <2>1. Unsettled(a)' = old(a)
    BY <1>4, <1>6
  <2>2. locked_money'[a] = locked_money[a]
    BY <1>1 DEF MoneyType
  <2>. QED
    BY <1>4, <2>1, <2>2
<1>8. locked_money'[s] = SumFunctionOnSet(f, Unsettled(s)')
  <2>. DEFINE rest == SumFunctionOnSet(f, old(s) \ {task})
  <2>1. SumFunctionOnSet(f, old(s)) = price + rest
    BY <1>1, <1>4, <1>5, SumWithout
  <2>2. rest \in Nat
    <3>1. IsFiniteSet(old(s) \ {task})
      BY <1>1, <1>4, FS_Subset
    <3>2. \A t \in old(s) \ {task} : f[t] \in Nat
      BY <1>1, <1>4, ContractAssumption
    <3>. QED
      BY <3>1, <3>2, SumOfNaturals
  <2>3. Unsettled(s)' = old(s) \ {task}
    BY <1>1, <1>4
  <2>4. /\ locked_money[s] \in 0..(Word256 - 1) /\ locked_money[s] = price + rest
        /\ locked_money'[s] = w256(locked_money[s] - price)
    BY <1>1, <1>4, <2>1 DEF MoneyType
  <2>. HIDE DEF rest
  <2>5. locked_money[s] - price = rest /\ rest \in 0..(Word256 - 1) /\ Word256 \in Nat \ {0}
    BY <1>1, <2>2, <2>4, ContractAssumption
  <2>6. w256(rest) = rest
    BY <2>5, OwnRemainder DEF w256
  <2>. QED
    BY <2>3, <2>4, <2>5, <2>6 DEF rest
<1>. QED
  BY <1>3, <1>7, <1>8 DEF LockedCovers, f

LEMMA NextLockedCovers ==
    ASSUME RoomForEveryTask', MInv, LockedCovers, [Next]_vars
    PROVE  LockedCovers'
<1>. USE DEF MInv
<1>1. CASE TasksStill /\ UNCHANGED locked_money
  BY <1>1, StillCovers
<1>2. ASSUME NEW a \in Address, NEW v \in Deposit,
             send_pending_money(a, v) \/ recover_pending_money(a, v)
      PROVE  LockedCovers'
  <2>1. UNCHANGED <<jobs, tasks, locked_money>>
    BY <1>2 DEF send_pending_money, recover_pending_money
  <2>. QED
    BY <2>1, DraftStepsLeaveTasks, StillCovers
<1>3. ASSUME NEW a \in Address, NEW id \in DOMAIN jobs, lock(a, id) PROVE LockedCovers'
  BY <1>3, LockCovers
<1>4. ASSUME NEW task \in DOMAIN tasks, Incomplete(task), NEW payments, PaymentsOK(payments),
             Settle(task, "DefinetelyFailed", payments) \/ Settle(task, "Completed", payments)
      PROVE  LockedCovers'
  BY <1>4, SettleCovers
<1>5. CASE UNCHANGED vars
  <2>1. UNCHANGED <<jobs, tasks, locked_money>>
    BY <1>5 DEF vars, money
  <2>. QED
    BY <2>1, DraftStepsLeaveTasks, StillCovers
<1>6. CASE Next
  BY <1>1, <1>2, <1>3, <1>4, <1>6, MoneyCases
<1>. QED
  BY <1>5, <1>6

LEMMA InitLockedCovers == Init => LockedCovers
<1>. SUFFICES ASSUME Init, NEW a \in Address
              PROVE  locked_money[a] = SumFunctionOnSet(PriceOf, Unsettled(a))
  BY DEF LockedCovers
<1>1. Unsettled(a) = {} /\ locked_money[a] = 0
  BY DEF Init, Unsettled
<1>. QED
  BY <1>1, SumOfNothing

(* The price computed when a job is locked and the one computed when each   *)
(* of its tasks is settled are never told apart: as long as a uint256 has   *)
(* room for the price of every task, what is locked for a sender is, for    *)
(* ever and exactly, the price of its tasks that are not settled.           *)
THEOREM LockedIsCovered == Spec /\ []RoomForEveryTask => []LockedCovers
<1>1. RoomForEveryTask' /\ MInv /\ LockedCovers /\ [Next]_vars => LockedCovers'
  BY NextLockedCovers
<1>. QED
  BY <1>1, InitLockedCovers, LedgerInductive, PTL DEF Spec

------------------------------------------------------------------------------
(* What the contract holds is what its users own *)

(* The wrap of a uint256 is never met when the ether there is fits in one:  *)
(* changes that leave every account at zero or above are exact.             *)
LEMMA NoWrap ==
    ASSUME NEW m \in [Address -> 0..(Word256 - 1)], NEW n, NEW d, Moves(m, n, d),
           \A a \in Address : m[a] + d[a] >= 0
    PROVE  /\ Total(m) \in Int /\ SumFunctionOnSet(d, Address) \in Int
           /\ Total(m) + SumFunctionOnSet(d, Address) \in Nat
           /\ Total(m) + SumFunctionOnSet(d, Address) < Word256
                => Total(n) = Total(m) + SumFunctionOnSet(d, Address)
<1>. DEFINE f == [a \in Address |-> m[a] + d[a]]
            A == Address
<1>1. Word256 \in Nat \ {0} /\ IsFiniteSet(A)
  BY ContractAssumption
<1>2. /\ \A a \in A : m[a] \in Int /\ d[a] \in Int /\ f[a] \in Nat
      /\ \A a \in A : f[a] = m[a] + d[a] /\ n[a] = f[a] % Word256
  BY <1>1 DEF Moves, w256
<1>. HIDE DEF f
<1>3. SumFunctionOnSet(f, A) = SumFunctionOnSet(m, A) + SumFunctionOnSet(d, A)
  BY <1>1, <1>2, SumOfSums
<1>4. SumFunctionOnSet(m, A) \in Int /\ SumFunctionOnSet(d, A) \in Int
  BY <1>1, <1>2, SumType
<1>5. SumFunctionOnSet(f, A) \in Nat
  BY <1>1, <1>2, SumOfNaturals
<1>6. ASSUME SumFunctionOnSet(f, A) < Word256
      PROVE  SumFunctionOnSet(n, A) = SumFunctionOnSet(f, A)
  <2>1. ASSUME NEW a \in A PROVE f[a] = n[a]
    <3>1. f[a] <= SumFunctionOnSet(f, A)
      BY <1>1, <1>2, SumOfPart
    <3>2. f[a] \in 0..(Word256 - 1)
      BY <1>1, <1>2, <1>5, <1>6, <3>1
    <3>. QED
      BY <1>1, <1>2, <3>2, OwnRemainder
  <2>. QED
    BY <1>1, <2>1, SumOfEquals
<1>. QED
  BY <1>3, <1>4, <1>5, <1>6 DEF Total

LEMMA ExactlyMoved ==
    ASSUME MoneyType, MaxBalance < Word256,
           Total(pending_money) + Total(locked_money) = balance,
           NEW up, NEW down,
           Moves(pending_money, pending_money', up),
           Moves(locked_money, locked_money', down),
           \A a \in Address : pending_money[a] + up[a] >= 0 /\ locked_money[a] + down[a] >= 0,
           balance' \in 0..MaxBalance,
           SumFunctionOnSet(up, Address) + SumFunctionOnSet(down, Address)
             = balance' - balance
    PROVE  (Total(pending_money) + Total(locked_money) = balance)'
<1>. DEFINE P == Total(pending_money)
            L == Total(locked_money)
            Q == Total(pending_money')
            M == Total(locked_money')
            u == SumFunctionOnSet(up, Address)
            d == SumFunctionOnSet(down, Address)
            b == balance
            c == balance'
<1>1. P \in Int /\ u \in Int /\ P + u \in Nat /\ (P + u < Word256 => Q = P + u)
  BY NoWrap DEF MoneyType
<1>2. L \in Int /\ d \in Int /\ L + d \in Nat /\ (L + d < Word256 => M = L + d)
  BY NoWrap DEF MoneyType
<1>3. /\ P + L = b /\ u + d = c - b /\ b \in Int /\ c \in Int /\ c < Word256
      /\ Word256 \in Int
  BY ContractAssumption DEF MoneyType
<1>. HIDE DEF P, L, Q, M, u, d, b, c
<1>4. (P + u) + (L + d) = c
  BY <1>1, <1>2, <1>3
<1>5. P + u < Word256 /\ L + d < Word256
  BY <1>1, <1>2, <1>3, <1>4
<1>6. Q + M = c
  BY <1>1, <1>2, <1>4, <1>5
<1>. QED
  BY <1>6 DEF Q, M, c, Total

(* Each account has what is taken from it. *)
LEMMA DepositStaysSolvent ==
    ASSUME MoneyType, Solvent, MaxBalance < Word256, NEW a \in Address, NEW v \in Deposit,
           send_pending_money(a, v) \/ recover_pending_money(a, v)
    PROVE  Solvent'
<1>0. /\ v \in Nat /\ v \in Int /\ -v \in Int
      /\ MaxBalance \in Nat /\ Word256 \in Nat \ {0}
      /\ pending_money \in [Address -> 0..(Word256 - 1)]
      /\ locked_money \in [Address -> 0..(Word256 - 1)]
  BY ContractAssumption DEF MoneyType
<1>1. Moves(locked_money, locked_money', One(oracle, 0))
      /\ SumFunctionOnSet(One(oracle, 0), Address) = 0
  BY StillMoves DEF MoneyType, send_pending_money, recover_pending_money
<1>2. \A b \in Address : locked_money[b] + One(oracle, 0)[b] >= 0
  BY <1>0 DEF One
<1>3. ASSUME NEW change \in Int,
             pending_money' = [pending_money EXCEPT ![a] = w256(pending_money[a] + change)],
             pending_money[a] + change >= 0,
             balance' \in 0..MaxBalance, balance' - balance = change
      PROVE  Solvent'
  <2>1. Moves(pending_money, pending_money', One(a, change))
        /\ SumFunctionOnSet(One(a, change), Address) = change
    BY <1>0, <1>3, OneMoves
  <2>2. \A b \in Address : pending_money[b] + One(a, change)[b] >= 0
                              /\ locked_money[b] + One(oracle, 0)[b] >= 0
    BY <1>0, <1>2, <1>3 DEF One
  <2>3. SumFunctionOnSet(One(a, change), Address) + SumFunctionOnSet(One(oracle, 0), Address)
          = balance' - balance
    BY <1>1, <1>3, <2>1
  <2>. QED
    BY <1>1, <1>3, <2>1, <2>2, <2>3, ExactlyMoved DEF Solvent
<1>4. CASE send_pending_money(a, v)
  <2>1. /\ pending_money' = [pending_money EXCEPT ![a] = w256(pending_money[a] + v)]
        /\ pending_money[a] + v >= 0
        /\ balance' \in 0..MaxBalance /\ balance' - balance = v
    BY <1>0, <1>4 DEF send_pending_money, MoneyType
  <2>. QED
    BY <1>0, <1>3, <2>1
<1>5. CASE recover_pending_money(a, v)
  <2>1. pending_money[a] + (-v) \in 0..(Word256 - 1)
    BY <1>0, <1>5 DEF recover_pending_money
  <2>2. w256(pending_money[a] + (-v)) = pending_money[a] + (-v)
    BY <1>0, <2>1, OwnRemainder DEF w256
  <2>3. pending_money[a] + (-v) = pending_money[a] - v
    BY <1>0
  <2>4. pending_money' = [pending_money EXCEPT ![a] = w256(pending_money[a] + (-v))]
    BY <1>5, <2>2, <2>3 DEF recover_pending_money
  <2>5. balance' \in 0..MaxBalance /\ balance' - balance = -v
    BY <1>0, <1>5 DEF recover_pending_money, MoneyType
  <2>6. pending_money[a] + (-v) >= 0
    BY <1>0, <2>1
  <2>. QED
    BY <1>0, <1>3, <2>4, <2>5, <2>6
<1>. QED
  BY <1>4, <1>5

LEMMA LockStaysSolvent ==
    ASSUME CInv, MoneyType, Solvent, MaxBalance < Word256,
           NEW a \in Address, NEW id \in DOMAIN jobs, lock(a, id)
    PROVE  Solvent'
<1>. DEFINE p == calc_max_price(jobs[id])
<1>1. p \in Nat /\ p \in Int
  <2>1. JobOK(jobs[id])
    BY DEF CInv, WellFormed, JobOK
  <2>. QED
    BY <2>1, PriceType, ContractAssumption
<1>2. /\ pending_money' = [pending_money EXCEPT ![a] = w256(pending_money[a] - p)]
      /\ locked_money' = [locked_money EXCEPT ![a] = w256(locked_money[a] + p)]
      /\ UNCHANGED balance
      /\ pending_money[a] >= p
  BY DEF lock, is_draft_ready
<1>. HIDE DEF p
<1>3. /\ pending_money[a] - p = pending_money[a] + (-p) /\ -p \in Int
      /\ Word256 \in Nat \ {0}
      /\ pending_money \in [Address -> 0..(Word256 - 1)]
      /\ locked_money \in [Address -> 0..(Word256 - 1)]
  BY <1>1, ContractAssumption DEF MoneyType
<1>4. Moves(pending_money, pending_money', One(a, -p))
      /\ SumFunctionOnSet(One(a, -p), Address) = -p
  BY <1>2, <1>3, OneMoves
<1>5. Moves(locked_money, locked_money', One(a, p))
      /\ SumFunctionOnSet(One(a, p), Address) = p
  BY <1>1, <1>2, <1>3, OneMoves
<1>6. \A b \in Address : pending_money[b] + One(a, -p)[b] >= 0 /\ locked_money[b] + One(a, p)[b] >= 0
  BY <1>1, <1>2, <1>3 DEF One
<1>7. balance' \in 0..MaxBalance /\ -p + p = balance' - balance
  BY <1>1, <1>2, ContractAssumption DEF MoneyType
<1>. QED
  BY <1>4, <1>5, <1>6, <1>7, ExactlyMoved DEF Solvent

(* The cost of a task is a number. *)
LEMMA CostsTyped ==
    ASSUME NEW job, JobOK(job), NEW managers \in Seq(Address),
           NEW payments, PaymentsOK(payments)
    PROVE  total_actual_cost(job, managers, payments) \in Int
<1>1. SumFunctionOnSet(Costs(job, payments), DOMAIN payments) \in Nat
  BY WorkShared
<1>2. job.management_price * Len(managers) \in Nat
  BY ManagementShared
<1>. QED
  BY <1>1, <1>2 DEF total_actual_cost

(* A settlement that does not overdraw its sender leaves every account at   *)
(* zero or above, even when the task cost more than its price.              *)
LEMMA SettleStaysSolvent ==
    ASSUME CInv, MoneyType, LockedCovers, Solvent, MaxBalance < Word256,
           NEW task \in DOMAIN tasks, Incomplete(task), NEW state,
           NEW payments, PaymentsOK(payments),
           Settle(task, state, payments), ~Overdraws(task, payments)
    PROVE  Solvent'
<1>. DEFINE id == task[1]
            managers == tasks[task].managers_addresses
            price == calc_max_price_per_task(jobs[id])
            gains == Gains(id, managers, payments)
            s == SenderOf(id)
<1>1. /\ s \in Address /\ price \in 0..(Word64 - 1)
      /\ id \in DOMAIN jobs /\ Locked(id) /\ JobOK(jobs[id]) /\ managers \in Seq(Address)
      /\ \A a \in Address : gains[a] \in Int
      /\ SumFunctionOnSet(gains, Address) = price
      /\ pending_money' = [a \in Address |-> w256(pending_money[a] + gains[a])]
      /\ locked_money' = [locked_money EXCEPT ![s] = w256(locked_money[s] - price)]
      /\ UNCHANGED balance
  BY SettleEffect
<1>2. total_actual_cost(jobs[id], managers, payments)
        - WorkShare(jobs[id], payments, s) - ManagementShare(jobs[id], managers, s)
      <= pending_money[s] + price
  <2>. DEFINE w == WorkShare(jobs[id], payments, s)
              m == ManagementShare(jobs[id], managers, s)
              c == total_actual_cost(jobs[id], managers, payments)
  <2>1. w \in Nat /\ m \in Nat
    BY <1>1, WorkShared, ManagementShared
  <2>2. c \in Int
    BY <1>1, CostsTyped
  <2>3. ~(c - w - m > pending_money[s] + price)
    BY DEF Overdraws
  <2>4. pending_money[s] \in Int /\ price \in Int
    BY <1>1, ContractAssumption DEF MoneyType
  <2>. HIDE DEF w, m, c, price, s
  <2>5. c - w - m <= pending_money[s] + price
    BY <2>1, <2>2, <2>3, <2>4
  <2>. QED
    BY <2>5 DEF w, m, c
<1>3. \A a \in Address : pending_money[a] + gains[a] >= 0
  <2>. SUFFICES ASSUME NEW a \in Address PROVE pending_money[a] + gains[a] >= 0
    OBVIOUS
  <2>. DEFINE w == WorkShare(jobs[id], payments, a)
              m == ManagementShare(jobs[id], managers, a)
              r == refund(jobs[id], managers, payments)
              c == total_actual_cost(jobs[id], managers, payments)
  <2>1. w \in Nat /\ m \in Nat
    BY <1>1, WorkShared, ManagementShared
  <2>2. gains[a] = w + m + (IF a = s THEN r ELSE 0)
    BY DEF Gains
  <2>3. r = price - c
    BY DEF refund
  <2>4. c \in Int
    BY <1>1, CostsTyped
  <2>5. pending_money[a] \in Nat /\ price \in Int
    BY <1>1, ContractAssumption DEF MoneyType
  <2>6. a = s => c - w - m <= pending_money[a] + price
    BY <1>2
  <2>. HIDE DEF w, m, r, c, price, gains, s
  <2>. QED
    BY <2>1, <2>2, <2>3, <2>4, <2>5, <2>6
<1>4. locked_money[s] >= price
  <2>1. task \in Unsettled(s) /\ PriceOf[task] = price
    BY DEF Unsettled, PriceOf
  <2>2. /\ IsFiniteSet(Unsettled(s))
        /\ \A t \in Unsettled(s) : PriceOf[t] \in 0..(Word64 - 1)
    BY <1>1, UnsettledTasks
  <2>3. \A t \in Unsettled(s) : PriceOf[t] \in Nat
    BY <2>2, ContractAssumption
  <2>4. /\ PriceOf[task] <= SumFunctionOnSet(PriceOf, Unsettled(s))
        /\ locked_money[s] = SumFunctionOnSet(PriceOf, Unsettled(s))
    BY <1>1, <2>1, <2>2, <2>3, SumOfPart DEF LockedCovers
  <2>5. locked_money[s] \in Int /\ price \in Int
    BY <1>1, ContractAssumption DEF MoneyType
  <2>. QED
    BY <2>1, <2>4, <2>5
<1>. HIDE DEF price, gains, s
<1>5. /\ price \in Int /\ -price \in Int /\ Word256 \in Nat \ {0}
      /\ locked_money \in [Address -> 0..(Word256 - 1)]
      /\ pending_money \in [Address -> 0..(Word256 - 1)]
  BY <1>1, ContractAssumption DEF MoneyType
<1>6. locked_money[s] - price = locked_money[s] + (-price)
  BY <1>1, <1>5
<1>7. Moves(locked_money, locked_money', One(s, -price))
      /\ SumFunctionOnSet(One(s, -price), Address) = -price
  BY <1>1, <1>5, <1>6, OneMoves
<1>8. Moves(pending_money, pending_money', gains)
  BY <1>1 DEF Moves
<1>9. \A a \in Address :
         pending_money[a] + gains[a] >= 0 /\ locked_money[a] + One(s, -price)[a] >= 0
  BY <1>1, <1>3, <1>4, <1>5 DEF One
<1>10. balance' \in 0..MaxBalance /\ balance' - balance = 0
  BY <1>1, ContractAssumption DEF MoneyType
<1>11. SumFunctionOnSet(gains, Address) + SumFunctionOnSet(One(s, -price), Address)
         = balance' - balance
  BY <1>1, <1>5, <1>7, <1>10
<1>. QED
  BY <1>11, <1>7, <1>8, <1>9, <1>10, ExactlyMoved DEF Solvent

LEMMA InitSolvent == Init => Solvent
<1>. SUFFICES ASSUME Init PROVE Solvent
  OBVIOUS
<1>1. Total(pending_money) = 0 /\ Total(locked_money) = 0
  BY ContractAssumption, SumOfZeroes DEF Init, Total
<1>. QED
  BY <1>1 DEF Init, Solvent

(* The step MoneyMadeByOverdraft allows *)
SomeOverdraft ==
    \E task \in DOMAIN tasks :
      \E payments \in {<<>>} \cup Payments(jobs[task[1]].redundancy) :
        Overdraft(task, payments)

LEMMA StaysSolvent ==
    ASSUME MaxBalance < Word256, MInv, LockedCovers, Solvent, Next, ~SomeOverdraft
    PROVE  Solvent'
<1>. USE DEF MInv
<1>1. CASE UNCHANGED <<pending_money, locked_money, balance>>
  BY <1>1 DEF Solvent, Total
<1>2. ASSUME NEW a \in Address, NEW v \in Deposit,
             send_pending_money(a, v) \/ recover_pending_money(a, v)
      PROVE  Solvent'
  BY <1>2, DepositStaysSolvent
<1>3. ASSUME NEW a \in Address, NEW id \in DOMAIN jobs, lock(a, id) PROVE Solvent'
  BY <1>3, LockStaysSolvent
<1>4. ASSUME NEW task \in DOMAIN tasks, Incomplete(task), NEW payments, PaymentsOK(payments),
             \/ Settle(task, "DefinetelyFailed", payments) /\ payments = <<>>
             \/ /\ Settle(task, "Completed", payments)
                /\ payments \in Payments(jobs[task[1]].redundancy)
      PROVE  Solvent'
  <2>1. PICK state \in {"DefinetelyFailed", "Completed"} : Settle(task, state, payments)
    BY <1>4
  <2>2. tasks'[task].state = state
    <3>1. "state" \in DOMAIN tasks[task]
      BY DEF CInv, WellFormed
    <3>2. tasks' = [tasks EXCEPT ![task].state = state]
      BY <2>1 DEF Settle
    <3>. QED
      BY <3>1, <3>2
  <2>3. Settle(task, tasks'[task].state, payments)
    BY <2>1, <2>2
  <2>4. payments \in {<<>>} \cup Payments(jobs[task[1]].redundancy)
    BY <1>4
  <2>5. ~Overdraws(task, payments)
    BY <1>4, <2>3, <2>4 DEF SomeOverdraft, Overdraft
  <2>. QED
    BY <1>4, <2>1, <2>5, SettleStaysSolvent
<1>. QED
  BY <1>1, <1>2, <1>3, <1>4, MoneyCases

(* As long as the ether there is and the prices of all tasks fit in a       *)
(* uint256, the only step after which users own more than the contract      *)
(* holds is a settlement that overdraws its sender: whatever is deposited,  *)
(* recovered, locked, and settled at a loss or not, nothing else wraps.     *)
THEOREM MoneyOnlyByOverdraft ==
    ASSUME MaxBalance < Word256
    PROVE  Spec /\ []RoomForEveryTask => MoneyMadeByOverdraft
<1>1. MInv /\ LockedCovers /\ [Next]_vars => [Solvent /\ ~Solvent' => SomeOverdraft]_vars
  BY StaysSolvent
<1>2. [][Solvent /\ ~Solvent' => SomeOverdraft]_vars <=> MoneyMadeByOverdraft
  BY DEF MoneyMadeByOverdraft, SomeOverdraft
<1>. QED
  BY <1>1, <1>2, LedgerInductive, LockedIsCovered, PTL DEF Spec
==============================================================================
