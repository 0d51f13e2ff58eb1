\* Every sequence of readings through four stages.
CONSTANTS
    NUM_STAGES = 4
    lock_thresh_count <- MCLock
    lock_fail_count <- MCLockFail
    unlock_thresh_count <- MCUnlock
    HistorySize = 4
    MinHistory = 3
    MaxCount = 7
SPECIFICATION StagesSpec
PROPERTIES UpEarned DownEarned Settles
