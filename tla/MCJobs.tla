------------------------------- MODULE MCJobs -------------------------------
(* Values of the constants of Jobs for TLC. *)
EXTENDS Jobs, TLC

CONSTANTS sender, oracle_account

P(t, r, f) == [timeout |-> t, redundancy |-> r, max_failures |-> f]
W(p, u, n) == [max_worker_price |-> p, max_network_usage |-> u, max_network_price |-> n]
M(i, p) == [min_checking_interval |-> i, management_price |-> p]

(* Other values than those of a new draft, and values the contract refuses *)
SomeParameters == {P(10, 1, 1), P(9, 1, 0), P(10, 0, 0)}
SomeWorker == {W(1, 1, 1), W(0, 1, 1)}
SomeMan == {M(14, 1)}

None == {}
==============================================================================
