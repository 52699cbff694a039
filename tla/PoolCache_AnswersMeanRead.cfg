SPECIFICATION Spec
CONSTANTS
  Pools = {tank}
  Readers = {r1}
  Requests = {q1}
INVARIANT AnswersMeanRead
