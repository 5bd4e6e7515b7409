------------------------------ MODULE SidecarsMC ------------------------------
EXTENDS Sidecars
===============================================================================
