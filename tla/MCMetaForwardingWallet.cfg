CONSTANTS
  alice = alice
  bob = bob
  hub = hub
  wallet = wallet
  bobsWallet = bobsWallet
  Key = {alice, bob}
  Forwarder = {wallet, bobsWallet}
  Wallet = {wallet, bobsWallet}
  SignerOf <- WalletSigner
  Queue = {0}
  Bit = {0, 1}
  Tx <- WalletTx
  Signed <- WalletSigned
  NoAccount = NoAccount
  NoOwner = NoOwner
  NoRun = NoRun
  Target = {alice}
  BitsToFlip = {{1}, {0, 1}}
  MaxDepth = 4
SPECIFICATION Spec
INVARIANT TypeOK
INVARIANT NoReplay
INVARIANT OnlySignedUsesBlock
INVARIANT OnlyAuthorised
INVARIANT BatchAtomic
