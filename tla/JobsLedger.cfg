\* One job of up to two tasks, a sender and an oracle who may also be paid.
SPECIFICATION Spec
CONSTANTS
    sender = sender  oracle_account = oracle_account
    Address = {sender, oracle_account}
    oracle = oracle_account
    Nonce = {0}
    Deposit = {36}
    Parameters <- SomeParameters
    WorkerParameters <- SomeWorker
    ManParameters <- SomeMan
    OtherData = {1}
    Price = {1}
    Word64 = 256
    Word256 = 4096
    MaxBalance = 36
    MaxArgs = 2
    MaxManagers = 2
INVARIANTS TypeOK LedgerBalanced CompletionAnnouncedOnce
CHECK_DEADLOCK FALSE
