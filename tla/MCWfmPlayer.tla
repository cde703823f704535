----------------------------- MODULE MCWfmPlayer -----------------------------
EXTENDS WfmPlayer

\* Even and odd files, and one whose last word comes in a packet of its own.
MCFiles == {<<2>>, <<3>>, <<4, 1>>, <<6>>}
=============================================================================
