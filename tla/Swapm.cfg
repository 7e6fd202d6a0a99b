SPECIFICATION Spec
CONSTANTS
  NProcs <- MCNProcs
  Ceil2 <- MCCeil2
  Xor <- MCXor
  Patterns <- MCPatterns
  FlowControls <- MCFlowControls
INVARIANTS TypeOK ReadyBeforeSend NotStuck WindowKept ReturnedMeansExchanged
PROPERTY ExchangeEnds
