------------------------------ MODULE MCBatch ------------------------------
EXTENDS Batch

\* Two messages of one dialog, no album.
MCDialogs == <<<<1, 2>>>>
MCAlbum == [m \in 1 .. 2 |-> <<>>]
=============================================================================
