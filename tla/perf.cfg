\* Sessions of two seconds and a half, with reports every second.
CONSTANTS
    DhcpRounds = 2
    Second = 2
    REPORT_INTERVAL_TIME = 2
    END_TIME = 5
    Burst = 2
    MaxTime = 6
    MaxChanges = 2
SPECIFICATION FairSpec
INVARIANTS SessionConsistent 
  
CHECK_DEADLOCK FALSE
