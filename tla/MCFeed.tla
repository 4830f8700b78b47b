------------------------------- MODULE MCFeed -------------------------------
EXTENDS Feed
==============================================================================
