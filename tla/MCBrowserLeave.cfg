CONSTANTS
  Sock = {s1, s2, s3}
  NoSock = NoSock
  MaxAttempts = 2
  MaxRetries = 1
  MaxTimers = 2
SPECIFICATION Spec
PROPERTY LeaveIsFinal
