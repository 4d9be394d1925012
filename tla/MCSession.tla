----------------------------- MODULE MCSession ------------------------------
EXTENDS Session
CONSTANTS a, b
=============================================================================
