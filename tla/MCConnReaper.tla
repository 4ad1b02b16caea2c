----------------------------- MODULE MCConnReaper -----------------------------
\* Instances of ConnReaper for TLC.
EXTENDS ConnReaper
=============================================================================
