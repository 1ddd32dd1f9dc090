--------------------------- MODULE MCWalletNetwork ---------------------------
EXTENDS WalletNetwork
==============================================================================
