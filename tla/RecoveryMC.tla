------------------------------ MODULE RecoveryMC ------------------------------
EXTENDS Recovery
===============================================================================
