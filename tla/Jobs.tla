-------------------------------- MODULE Jobs --------------------------------
(***************************************************************************)
(* The Jobs contract: drafts, locked jobs, their tasks, and the money of   *)
(* senders, managers and workers                                           *)
(* (balthachain/contracts/contracts/Jobs.sol).                             *)
(*                                                                         *)
(* A transaction is atomic: one action each, whose guards are the require  *)
(* statements. A reverted transaction changes nothing and is left out. The *)
(* arithmetic of the compiler the contract asks for (< 0.7) wraps: uint64  *)
(* values are taken modulo Word64, uint256 values modulo Word256.          *)
(***************************************************************************)
EXTENDS Integers, Sequences, FiniteSets, Functions

CONSTANTS
    Address,            \* accounts: senders, managers, workers, the oracle
    oracle,             \* the account that deployed the contract
    Nonce,              \* nonces of drafts, 0..n; bounds the drafts of a sender
    Deposit,            \* amounts sent or recovered in one transaction
    Parameters,         \* arguments of set_parameters
    WorkerParameters,   \* arguments of set_worker_parameters
    ManParameters,      \* arguments of set_management_parameters
    OtherData,          \* contents of set_other_data; 0 is the empty one
    Price,              \* worker and network prices in set_completed
    Word64, Word256,    \* number of values of a uint64, of a uint256
    MaxBalance,         \* bound: ether sent to the contract
    MaxArgs,            \* bound: arguments of a job
    MaxManagers         \* bound: managers registered on a task

ASSUME ContractAssumption ==
    /\ oracle \in Address
    /\ IsFiniteSet(Address) /\ IsFiniteSet(Nonce)
    /\ OtherData \subseteq Nat
    /\ Nonce \subseteq Nat /\ Deposit \subseteq Nat /\ Price \subseteq Nat
    /\ Parameters \subseteq [timeout : Nat, redundancy : Nat, max_failures : Nat]
    /\ WorkerParameters \subseteq [max_worker_price : Nat, max_network_usage : Nat,
                                   max_network_price : Nat]
    /\ ManParameters \subseteq [min_checking_interval : Nat, management_price : Nat]
    /\ Word64 \in Nat \ {0} /\ Word256 \in Nat \ {0}
    /\ MaxBalance \in Nat /\ MaxArgs \in Nat /\ MaxManagers \in Nat

VARIABLES
    jobs,           \* job id |-> job, for the jobs that are not null
    tasks,          \* task id |-> task, for the tasks that are not null
    next_nonce, pending_money, locked_money,    \* users
    balance,        \* ether held by the contract
    completions     \* per job id: JobCompleted events emitted

money == <<next_nonce, pending_money, locked_money, balance>>
vars == <<jobs, tasks, money, completions>>

------------------------------------------------------------------------------
(* Values *)

w64(n) == n % Word64
w256(n) == n % Word256

(* keccak256(sender, nonce) and keccak256(job_id, index), without collision *)
JobId == Address \X Nonce
TaskId == JobId \X (0..MaxArgs)
SenderOf(id) == id[1]

(* The record create_draft stores; "arguments" is their number. *)
Draft == [arguments |-> 0, timeout |-> 10, max_worker_price |-> 1,
          max_network_usage |-> 0, max_network_price |-> 1,
          min_checking_interval |-> 15, management_price |-> 1,
          redundancy |-> 1, max_failures |-> 0, other_data |-> 0,
          is_draft |-> TRUE]

JobFields == DOMAIN Draft \ {"is_draft"}

(* A draft whose fields are overwritten with those of p *)
With(job, p) == [f \in DOMAIN job |-> IF f \in DOMAIN p THEN p[f] ELSE job[f]]

(* The price before it is cut to 64 bits: the products of uint64 values     *)
FullPricePerTask(job) ==
    (job.timeout * job.max_worker_price + job.max_network_usage * job.max_network_price)
        * job.redundancy
      + job.management_price * (job.redundancy + job.max_failures)
          * (4 + job.timeout \div job.min_checking_interval)

calc_max_price_per_task(job) == w64(FullPricePerTask(job))
calc_max_price(job) == w256(calc_max_price_per_task(job) * job.arguments)

(* push_manager refuses a manager from this number on *)
ManagersLimit(job) == w64(4 + job.timeout - job.min_checking_interval)

TasksOf(id) == {id} \X (0..(jobs[id].arguments - 1))
Incomplete(task) == tasks[task].state = "Incomplete"

------------------------------------------------------------------------------
Init ==
    /\ jobs = <<>> /\ tasks = <<>>
    /\ next_nonce = [a \in Address |-> 0]
    /\ pending_money = [a \in Address |-> 0]
    /\ locked_money = [a \in Address |-> 0]
    /\ balance = 0
    /\ completions = [id \in JobId |-> 0]

(* User functions *)

send_pending_money(sender, value) ==
    /\ balance + value <= MaxBalance
    /\ balance' = balance + value
    /\ pending_money' = [pending_money EXCEPT ![sender] = w256(@ + value)]
    /\ UNCHANGED <<jobs, tasks, next_nonce, locked_money, completions>>

(* transfer reverts when the contract does not hold the amount *)
recover_pending_money(sender, amount) ==
    /\ pending_money[sender] >= amount /\ balance >= amount
    /\ pending_money' = [pending_money EXCEPT ![sender] = @ - amount]
    /\ balance' = balance - amount
    /\ UNCHANGED <<jobs, tasks, next_nonce, locked_money, completions>>

------------------------------------------------------------------------------
(* Job manipulation functions *)

(* The loop skips the nonces that have a job; there is none. *)
create_draft(sender) ==
    \E nonce \in Nonce :
        /\ nonce >= next_nonce[sender] /\ <<sender, nonce>> \notin DOMAIN jobs
        /\ \A n \in next_nonce[sender]..(nonce - 1) : <<sender, n>> \in DOMAIN jobs
        /\ next_nonce' = [next_nonce EXCEPT ![sender] = nonce + 1]
        /\ jobs' = [id \in DOMAIN jobs \cup {<<sender, nonce>>} |->
                      IF id = <<sender, nonce>> THEN Draft ELSE jobs[id]]
        /\ UNCHANGED <<tasks, pending_money, locked_money, balance, completions>>

check_is_our_draft(sender, id) ==
    /\ id \in DOMAIN jobs
    /\ SenderOf(id) = sender
    /\ jobs[id].is_draft

Edit(sender, id, job) ==
    /\ check_is_our_draft(sender, id)
    /\ jobs' = [jobs EXCEPT ![id] = job]
    /\ UNCHANGED <<tasks, money, completions>>

set_parameters_Always(sender, id, p) ==
    /\ p.timeout > 9 /\ p.redundancy > 0
    /\ id \in DOMAIN jobs /\ SenderOf(id) = sender
    /\ jobs' = [jobs EXCEPT ![id] = With(@, p)]
    /\ UNCHANGED <<tasks, money, completions>>

set_parameters(sender, id, p) ==
    /\ p.timeout > 9 /\ p.redundancy > 0
    /\ Edit(sender, id, With(jobs[id], p))

set_worker_parameters(sender, id, p) ==
    /\ p.max_worker_price > 0 /\ p.max_network_price > 0
    /\ Edit(sender, id, With(jobs[id], p))

set_management_parameters(sender, id, p) ==
    /\ p.min_checking_interval > 14 /\ p.management_price > 0
    /\ Edit(sender, id, With(jobs[id], p))

set_other_data(sender, id, val) == Edit(sender, id, [jobs[id] EXCEPT !.other_data = val])

reset_arguments(sender, id) == Edit(sender, id, [jobs[id] EXCEPT !.arguments = 0])

push_argument(sender, id) ==
    /\ jobs[id].arguments < MaxArgs
    /\ Edit(sender, id, [jobs[id] EXCEPT !.arguments = @ + 1])

delete_draft_Locked(sender, id) ==
    /\ id \in DOMAIN jobs /\ SenderOf(id) = sender
    /\ jobs' = [j \in DOMAIN jobs \ {id} |-> jobs[j]]
    /\ UNCHANGED <<tasks, money, completions>>

delete_draft(sender, id) ==
    /\ check_is_our_draft(sender, id)
    /\ jobs' = [j \in DOMAIN jobs \ {id} |-> jobs[j]]
    /\ UNCHANGED <<tasks, money, completions>>

is_draft_ready(sender, job) ==
    /\ job.arguments > 0 /\ job.timeout > 9
    /\ job.max_worker_price > 0 /\ job.max_network_price > 0
    /\ job.redundancy > 0
    /\ job.min_checking_interval > 14 /\ job.management_price > 0
    /\ pending_money[sender] >= calc_max_price(job)

(* No task id can collide: the id of the job is new. *)
lock(sender, id) ==
    /\ check_is_our_draft(sender, id)
    /\ is_draft_ready(sender, jobs[id])
    /\ TasksOf(id) \cap DOMAIN tasks = {}
    /\ jobs' = [jobs EXCEPT ![id].is_draft = FALSE]
    /\ tasks' = [t \in DOMAIN tasks \cup TasksOf(id) |->
                   IF t \in DOMAIN tasks THEN tasks[t]
                   ELSE [state |-> "Incomplete", managers_addresses |-> <<>>]]
    /\ LET max_price == calc_max_price(jobs[id]) IN
         /\ pending_money' = [pending_money EXCEPT ![sender] = w256(@ - max_price)]
         /\ locked_money' = [locked_money EXCEPT ![sender] = w256(@ + max_price)]
    /\ UNCHANGED <<next_nonce, balance, completions>>

------------------------------------------------------------------------------
(* Functions which require proper consensus: the caller is the oracle.      *)

push_manager(sender, task, manager) ==
    /\ sender = oracle
    /\ Incomplete(task)
    /\ Len(tasks[task].managers_addresses) < ManagersLimit(jobs[task[1]])
    /\ Len(tasks[task].managers_addresses) < MaxManagers
    /\ tasks' = [tasks EXCEPT ![task].managers_addresses = Append(@, manager)]
    /\ UNCHANGED <<jobs, money, completions>>

is_job_completed_ButLast(id, states) ==
    \A i \in 0..(jobs[id].arguments - 2) : states[<<id, i>>].state # "Incomplete"

is_job_completed(id, states) ==
    \A i \in 0..(jobs[id].arguments - 1) : states[<<id, i>>].state # "Incomplete"

(* An operator whose name has a suffix is a mutant: no action uses it.      *)

(* What a worker earns: a uint64 product, added to a uint256 *)
actual_cost(job, p) ==
    w64(p.worker_price * job.timeout + p.network_price * job.max_network_usage)

(* pay_managers: each registration is paid, and the total is returned.      *)
ManagementShare_OncePerManager(job, managers, a) ==
    IF \E i \in DOMAIN managers : managers[i] = a THEN job.management_price ELSE 0

ManagementShare(job, managers, a) ==
    job.management_price * Cardinality({i \in DOMAIN managers : managers[i] = a})

Costs(job, payments) == [i \in DOMAIN payments |-> actual_cost(job, payments[i])]

WorkShare(job, payments, a) ==
    SumFunctionOnSet(Costs(job, payments), {i \in DOMAIN payments : payments[i].worker = a})

total_actual_cost(job, managers, payments) ==
    job.management_price * Len(managers)
      + SumFunctionOnSet(Costs(job, payments), DOMAIN payments)

refund_OfWork(job, managers, payments) ==
    calc_max_price_per_task(job) - total_actual_cost(job, <<>>, payments)

refund(job, managers, payments) ==
    calc_max_price_per_task(job) - total_actual_cost(job, managers, payments)

(* Workers and managers are paid, the sender gets the rest of the price of  *)
(* the task back; a job whose tasks are all settled is announced.           *)
Unlock(id) ==
    locked_money' = [locked_money EXCEPT
        ![SenderOf(id)] = w256(@ - calc_max_price_per_task(jobs[id]))]

Settle(task, state, payments) ==
    LET id == task[1]
        job == jobs[id]
        managers == tasks[task].managers_addresses
    IN  /\ managers # <<>>
        /\ tasks' = [tasks EXCEPT ![task].state = state]
        /\ pending_money' = [a \in Address |->
             w256(pending_money[a] + WorkShare(job, payments, a)
                    + ManagementShare(job, managers, a)
                    + (IF a = SenderOf(id) THEN refund(job, managers, payments) ELSE 0))]
        /\ Unlock(id)
        /\ completions' = IF is_job_completed(id, tasks')
                          THEN [completions EXCEPT ![id] = @ + 1] ELSE completions
        /\ UNCHANGED <<jobs, next_nonce, balance>>

set_definitely_failed(sender, task) ==
    /\ sender = oracle
    /\ Incomplete(task)
    /\ Settle(task, "DefinetelyFailed", <<>>)

set_completed(sender, task, payments) ==
    /\ sender = oracle
    /\ Incomplete(task)
    /\ Len(payments) = jobs[task[1]].redundancy
    /\ Settle(task, "Completed", payments)

------------------------------------------------------------------------------
Payment == [worker : Address, worker_price : Price, network_price : Price]
Payments(n) == [1..n -> Payment]

SenderStep(a) ==
    \/ \E v \in Deposit : send_pending_money(a, v) \/ recover_pending_money(a, v)
    \/ create_draft(a)
    \/ \E id \in DOMAIN jobs :
         \/ \E p \in Parameters : set_parameters(a, id, p)
         \/ \E p \in WorkerParameters : set_worker_parameters(a, id, p)
         \/ \E p \in ManParameters : set_management_parameters(a, id, p)
         \/ \E val \in OtherData : set_other_data(a, id, val)
         \/ reset_arguments(a, id) \/ push_argument(a, id)
         \/ delete_draft(a, id) \/ lock(a, id)

OracleStep(a) ==
    \E task \in DOMAIN tasks :
        \/ \E m \in Address : push_manager(a, task, m)
        \/ set_definitely_failed(a, task)
        \/ \E payments \in Payments(jobs[task[1]].redundancy) :
              set_completed(a, task, payments)

Next == \E a \in Address : SenderStep(a) \/ OracleStep(a)

Spec == Init /\ [][Next]_vars
------------------------------------------------------------------------------
(* Properties *)

(* The tasks are those of the locked jobs: none is lost, none belongs to a  *)
(* draft, and a draft that is deleted leaves nothing behind.                *)
WellFormed ==
    /\ DOMAIN jobs \subseteq JobId
    /\ \A id \in DOMAIN jobs :
          /\ DOMAIN jobs[id] = DOMAIN Draft
          /\ \A f \in JobFields : jobs[id][f] \in Nat
          /\ jobs[id].is_draft \in BOOLEAN
          /\ jobs[id].min_checking_interval # 0
          /\ jobs[id].arguments <= MaxArgs
          /\ ~jobs[id].is_draft => jobs[id].arguments > 0
    /\ DOMAIN tasks = UNION {TasksOf(id) : id \in {j \in DOMAIN jobs : ~jobs[j].is_draft}}
    /\ \A t \in DOMAIN tasks :
          tasks[t] \in [state : {"Incomplete", "Completed", "DefinetelyFailed"},
                       managers_addresses : Seq(Address)]

(* Every variable has its type. *)
TypeOK ==
    /\ WellFormed
    /\ next_nonce \in [Address -> Nat]
    /\ pending_money \in [Address -> 0..(Word256 - 1)]
    /\ locked_money \in [Address -> 0..(Word256 - 1)]
    /\ balance \in 0..MaxBalance
    /\ completions \in [JobId -> Nat]

(* The price of every task, and the tasks of a sender still to be paid for *)
PriceOf == [t \in DOMAIN tasks |-> calc_max_price_per_task(jobs[t[1]])]
Unsettled(a) == {t \in DOMAIN tasks : Incomplete(t) /\ SenderOf(t[1]) = a}

(* The locked money of a sender is the price of the tasks that are not      *)
(* settled, so that no settlement takes more than was locked: neither a     *)
(* change of a draft, nor the order of the settlements, can part the two    *)
(* computations of the price, at the lock and at the settlement.            *)
LockedCovers ==
    \A a \in Address : locked_money[a] = SumFunctionOnSet(PriceOf, Unsettled(a))

(* What the users own together *)
Total(m) == SumFunctionOnSet(m, Address)

(* What the users own together is what the contract holds, up to the wrap   *)
(* of a uint256: a settlement pays out exactly what it unlocks.             *)
LedgerBalanced == w256(Total(pending_money) + Total(locked_money)) = w256(balance)

(* The contract holds exactly what its users own and may recover. *)
Solvent == Total(pending_money) + Total(locked_money) = balance

(* Others than its sender earn more with a task than its price and all that *)
(* the sender has pending. Nothing in the contract keeps the number of      *)
(* managers and the prices of the workers within the price.                 *)
Overdraws(task, payments) ==
    LET job == jobs[task[1]]
        managers == tasks[task].managers_addresses
        s == SenderOf(task[1])
    IN  total_actual_cost(job, managers, payments)
          - WorkShare(job, payments, s) - ManagementShare(job, managers, s)
        > pending_money[s] + calc_max_price_per_task(job)

Overdraft(task, payments) ==
    /\ Incomplete(task)
    /\ Settle(task, tasks'[task].state, payments)
    /\ Overdraws(task, payments)

(* Users come to own more than the contract holds only by a settlement that *)
(* overdraws its sender, whose pending account then wraps around: deposits, *)
(* locks, recoveries and every other settlement, also one that costs more   *)
(* than its price, keep the contract solvent.                               *)
MoneyMadeByOverdraft ==
    [][Solvent /\ ~Solvent' =>
         \E task \in DOMAIN tasks :
           \E payments \in {<<>>} \cup Payments(jobs[task[1]].redundancy) :
             Overdraft(task, payments)]_vars

(* JobCompleted is emitted exactly once, by the transaction that settles    *)
(* the last task of a job.                                                  *)
CompletionAnnouncedOnce ==
    \A id \in JobId :
        completions[id] =
            IF id \in DOMAIN jobs /\ ~jobs[id].is_draft /\ is_job_completed(id, tasks)
            THEN 1 ELSE 0

(* A locked job keeps its parameters and its tasks for ever, and a settled  *)
(* task keeps its state and its managers: what the sender agreed to pay,    *)
(* and who was paid, cannot be rewritten by any later transaction.          *)
LockedForGood ==
    [][/\ \A id \in DOMAIN jobs : ~jobs[id].is_draft =>
             id \in DOMAIN jobs' /\ jobs'[id] = jobs[id]
       /\ \A t \in DOMAIN tasks :
             /\ t \in DOMAIN tasks'
             /\ tasks[t].state # "Incomplete" => tasks'[t] = tasks[t]]_vars

(* "pay the managers and workers, and refund the sender with the remaining  *)
(* amount" (balthachain/src/lib.rs:947-948): a settlement never takes money *)
(* from the sender's pending account, where a refund belongs.               *)
SenderRefunded ==
    [][\A t \in DOMAIN tasks :
         t \in DOMAIN tasks' /\ tasks'[t].state # tasks[t].state =>
            pending_money'[SenderOf(t[1])] >= pending_money[SenderOf(t[1])]]_vars
==============================================================================
