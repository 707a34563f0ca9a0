-------------------------- MODULE MCControlSession --------------------------
EXTENDS ControlSession

MCKinds == {"node", "layer"}
=============================================================================
