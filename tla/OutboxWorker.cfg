SPECIFICATION FairSpec
CONSTANTS
  notify = notify
  email = email
  broken = broken
  NoEvent = NoEvent
  Events = {notify, email, broken}
  Workers = {w1, w2}
  Seq <- MCSeq
  NotifyEvents = {notify}
  EmailEvents = {email, broken}
  Poison = {broken}
  BatchSize = 2
  MaxRetries = 2
  MaxAborts = 1
INVARIANTS CrashConsistency InboxExactlyOnce
PROPERTIES ImplementsContract EventuallySettled
CHECK_DEADLOCK FALSE
