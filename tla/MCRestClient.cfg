\* Three requests over a pool of two sessions and one that can be made.
CONSTANTS
  Request = {r1, r2, r3}
  NoRequest = none
  Session = {s1, s2, s3}
  s1 = s1
  s2 = s2
  Pooled <- MCPooled
SPECIFICATION FairSpec
CHECK_DEADLOCK FALSE
INVARIANTS
  OneUser
  RightRequest
PROPERTY
  Answered
