-------------------------- MODULE MCMasternodeList --------------------------
EXTENDS MasternodeList

CONSTANTS h, a
=============================================================================
