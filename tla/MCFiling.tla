------------------------------ MODULE MCFiling ------------------------------
EXTENDS Filing
=============================================================================
