-------------------------- MODULE MCRequestLifecycle --------------------------
EXTENDS RequestRefinement
===============================================================================
