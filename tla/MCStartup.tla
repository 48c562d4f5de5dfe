------------------------------ MODULE MCStartup ------------------------------
EXTENDS Startup, TLC

\* The image being replaced and the one that replaces it.
MCImage(i) == IF i = "old" THEN 1 ELSE 2
=============================================================================
