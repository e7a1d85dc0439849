SPECIFICATION Spec
CONSTANTS
  Attempts = {a1, a2, a3}
  NoAttempt = NoAttempt
  StartBudgets <- MCStartBudgets
INVARIANTS
  TypeOK
  NoAttemptIsSubmittedTwice
  WritesAreAccountedFor
  AmbiguityIsReconcilable
  CommitFollowsARead
  AllowanceIsSpentExactly
\* A terminal machine takes no input.
CHECK_DEADLOCK FALSE
