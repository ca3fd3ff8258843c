---------------------------- MODULE MCSyncStatus ----------------------------
\* The instances of SyncStatus that are model-checked.
EXTENDS SyncStatus
=============================================================================
