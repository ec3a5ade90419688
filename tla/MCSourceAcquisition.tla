------------------------ MODULE MCSourceAcquisition -------------------------
EXTENDS SourceAcquisition
=============================================================================
