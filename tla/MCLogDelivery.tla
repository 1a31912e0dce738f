----------------------------- MODULE MCLogDelivery -----------------------------
EXTENDS LogDelivery, TLC
=============================================================================
