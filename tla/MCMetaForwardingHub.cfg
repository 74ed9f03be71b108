CONSTANTS
  alice = alice
  bob = bob
  hub = hub
  wallet = wallet
  bobsWallet = bobsWallet
  Key = {alice, bob}
  Forwarder = {hub}
  Wallet = {}
  SignerOf <- NoWallet
  Queue = {0}
  Bit = {0}
  Tx <- HubTx
  Signed <- HubSigned
  NoAccount = NoAccount
  NoOwner = NoOwner
  NoRun = NoRun
  Target = {bob}
  BitsToFlip = {{0}}
  MaxDepth = 5
SPECIFICATION Spec
INVARIANT QueueOrder
INVARIANT BatchAtomic
INVARIANT SpentWhileRunning
INVARIANT OnlySignedUsesBlock
PROPERTY RefinesLedger
