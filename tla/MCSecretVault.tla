--------------------------- MODULE MCSecretVault ---------------------------
EXTENDS SecretVault

CONSTANTS a, b, v1, v2, v3, f1, f2
=============================================================================
