------------------------------ MODULE MCArena -------------------------------
\* Values for the constants of Arena, for TLC: a network of 7 weights and the
\* encodings a job may come with.
EXTENDS Arena

MCMLPSizes == <<2, 1, 2>>
MCWeights == {[base64 |-> TRUE, bytes |-> 28],     \* a network
              [base64 |-> TRUE, bytes |-> 27],     \* one byte short of it
              [base64 |-> TRUE, bytes |-> 0]}      \* no tanks
=============================================================================
