SPECIFICATION FairSpec
CONSTANTS
  NumTasks = 4
  Plans <- AcyclicPlans
INVARIANTS DependenciesFirst OutcomesAreTrue
PROPERTY Terminates
\* run() has returned or the program has ended.
CHECK_DEADLOCK FALSE
