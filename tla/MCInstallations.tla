--------------------------- MODULE MCInstallations ---------------------------
EXTENDS Installations
=============================================================================
