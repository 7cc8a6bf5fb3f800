SPECIFICATION Spec
CONSTANTS
  Accounts = {1, 2}
  ProofSeed = "seed"
  Requests <- MCRequests
  MaxSubmits = 3
INVARIANTS LedgerIsReplay VersionsDense BooksAgree AcceptedMeansApplied
PROPERTY AcceptedIsFinal
