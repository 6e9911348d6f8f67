---------------------------- MODULE MCVimEngine ---------------------------
\* VimEngine on a small instance.
EXTENDS VimEngine
===========================================================================
