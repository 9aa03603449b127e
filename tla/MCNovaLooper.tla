---------------------------- MODULE MCNovaLooper ----------------------------
EXTENDS NovaLooper
=============================================================================
