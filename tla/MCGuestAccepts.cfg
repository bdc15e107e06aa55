SPECIFICATION Spec
CONSTANTS
  Keys <- MCKeys
  AccountKeys <- MCAccountKeys
  DataKeys <- MCDataKeys
  MaxU64 = 3
  MaxCuPerTx = 200000
  SenderOf <- MCSenderOf
  InitialBalance = 2
  Instrs <- MCInstructions
  StateRoot <- MCStateRoot
  TraceRoot <- MCMerkleRoot
  MaxBatch = 2
  Senders = {"account_0", "data_0"}
  Values = {2, 3}
INVARIANT GuestAcceptsHostTrace
CHECK_DEADLOCK FALSE
