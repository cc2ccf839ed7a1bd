--------------------------- MODULE MCRelaySync ---------------------------
EXTENDS RelaySync

\* Damaged chunks and the deadline's retrieval, in worlds of their own.
MCWorlds ==
  [filesystems : {1, 2}, damage : {1}, crashes : {1}, deadline : {FALSE}]
    \cup [filesystems : {1}, damage : {0}, crashes : {0}, deadline : {TRUE}]
=============================================================================
