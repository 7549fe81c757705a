--------------------------------- MODULE MCStats ---------------------------------
EXTENDS Stats
=============================================================================
