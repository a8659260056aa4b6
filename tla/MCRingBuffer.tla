---------------------------- MODULE MCRingBuffer ----------------------------
EXTENDS RingBuffer

\* One size or two of them, on buffers they fill and on buffers they do not.
MixedUses ==
    {u \in [size : 4 .. 10, chunks : {{c, d} : c, d \in 1 .. 5}, keep : 0 .. 1] :
        \A c \in u.chunks : c <= u.size}

=============================================================================
