-------------------------- MODULE MCReferenceProbe --------------------------
EXTENDS ReferenceProbe
=============================================================================
