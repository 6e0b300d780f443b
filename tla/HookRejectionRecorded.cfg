SPECIFICATION Spec
CONSTANTS
  q1 = q1
  q2 = q2
  Requests = {q1, q2}
  Plans <- MCMetered
  Results <- MCResults
INVARIANT RejectionIsRecorded
