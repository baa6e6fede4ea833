---------------------------- MODULE MCWebPortal ----------------------------
EXTENDS WebPortal
=============================================================================
