------------------------------ MODULE MCAccounts -----------------------------
EXTENDS Accounts
CONSTANTS a, b, x, y
=============================================================================
