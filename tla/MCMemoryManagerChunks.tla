------------------------ MODULE MCMemoryManagerChunks ------------------------
EXTENDS MemoryManagerChunks
===============================================================================
