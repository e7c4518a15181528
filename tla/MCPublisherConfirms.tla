-------------------------- MODULE MCPublisherConfirms --------------------------
EXTENDS PublisherConfirms, TLC
===============================================================================
