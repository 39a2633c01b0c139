\* The parameters of a new draft: timeout 10, checking interval 15.
SPECIFICATION Spec
CONSTANTS
    sender = sender  oracle_account = oracle_account
    Address = {sender, oracle_account}
    oracle = oracle_account
    Nonce = {0}
    Deposit = {28}
    Parameters <- None
    WorkerParameters <- None
    ManParameters <- None
    OtherData = {}
    Price = {1}
    Word64 = 256
    Word256 = 4096
    MaxBalance = 28
    MaxArgs = 1
    MaxManagers = 5
PROPERTIES SenderRefunded
CHECK_DEADLOCK FALSE
