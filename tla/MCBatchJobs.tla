---------------------------- MODULE MCBatchJobs ----------------------------
EXTENDS BatchJobs, TLC
=============================================================================
