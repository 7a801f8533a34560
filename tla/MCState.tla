------------------------------ MODULE MCState ------------------------------
EXTENDS StateSufficiency, DesignFamilies

MCDesigns == StateDesigns \cup SampleDesigns
MCLatchDesigns == LatchDesigns
=============================================================================
