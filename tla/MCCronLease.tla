----------------------------- MODULE MCCronLease -----------------------------
EXTENDS CronLease

\* sync_installations every 3 units, rag_index_tick every 2, the lease 2 units.
MCEvery == <<3, 2>>
=============================================================================
