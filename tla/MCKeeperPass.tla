---------------------------- MODULE MCKeeperPass ----------------------------
\* Small instances of KeeperPass for TLC.
EXTENDS KeeperPass
=============================================================================
