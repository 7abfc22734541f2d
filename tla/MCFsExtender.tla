---------------------------- MODULE MCFsExtender ----------------------------
EXTENDS FsExtender

=============================================================================
