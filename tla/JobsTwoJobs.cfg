\* Two jobs of one task and two senders: edits, locks and settlements interleave; workers may ask twice the maximum price (20 for a task priced 14).
SPECIFICATION Spec
CONSTANTS
    sender = sender  oracle_account = oracle_account
    Address = {sender, oracle_account}
    oracle = oracle_account
    Nonce = {0, 1}
    Deposit = {28}
    Parameters <- SomeParameters
    WorkerParameters <- None
    ManParameters <- None
    OtherData = {}
    Price = {1, 2}
    Word64 = 64
    Word256 = 256
    MaxBalance = 28
    MaxArgs = 1
    MaxManagers = 1
INVARIANTS LockedCovers
PROPERTIES LockedForGood MoneyMadeByOverdraft
CHECK_DEADLOCK FALSE
