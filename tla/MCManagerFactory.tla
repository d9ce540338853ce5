-------------------------- MODULE MCManagerFactory ---------------------------
\* TLC instance of ManagerFactory: three workers, two rmIds.
EXTENDS ManagerFactory, TLC

CONSTANTS w1, w2, w3, a1, a2
=============================================================================
