-------------------------- MODULE MCManifestStore ---------------------------
EXTENDS ManifestStore
=============================================================================
