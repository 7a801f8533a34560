------------------------------ MODULE MCSettle ------------------------------
EXTENDS Simulator, DesignFamilies

MCDesigns == LoopDesigns
MCChainDesigns == ChainDesigns
=============================================================================
