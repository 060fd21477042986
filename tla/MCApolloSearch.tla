--------------------------- MODULE MCApolloSearch ---------------------------
EXTENDS ApolloSearch, TLC

OneOwner == [s \in Searches |-> CHOOSE e \in Employees : TRUE]

WorkerSymmetry == Permutations(Workers)
=============================================================================
