SPECIFICATION EnqSpec
CONSTANTS
  Calls <- MCCalls
  Txs <- MCTxs
  TxOf <- MCTxOf
  Own <- MCOwn
  KeyOf <- MCKeyOf
  NoKey = NoKey
  Payloads <- MCPayloads
  Offers <- MCOffers
  Hash <- MCHash
  Unhashable <- MCUnhashable
  Unstorable <- MCUnstorable
  Params <- MCParams
  NoTask = NoTask
  NoPayload = NoPayload
  Unset = Unset
  MaxFaults = 1
  MaxDeleted = 1
  Mantissa = 2
  MaxFloat = 8
INVARIANT
  CommitsWithTx
CHECK_DEADLOCK FALSE
