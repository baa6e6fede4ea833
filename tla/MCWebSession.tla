---------------------------- MODULE MCWebSession ----------------------------
EXTENDS WebSession, WebTables
=============================================================================
