------------------------------- MODULE MCQuota -------------------------------
EXTENDS Quota
=============================================================================
