--------------------------- MODULE MCTextureUpload ---------------------------
EXTENDS TextureUpload

\* One texel of one byte, so that later loads begin at odd offsets.
Texel == [w |-> 1, h |-> 1, d |-> 1, mips |-> 1, layers |-> 1, bytes |-> <<1>>, bw |-> 1, bh |-> 1]

\* Two layers with three mip levels of two-byte texels, not square.
Array == [w |-> 5, h |-> 3, d |-> 1, mips |-> 3, layers |-> 2, bytes |-> <<2>>, bw |-> 1, bh |-> 1]

\* A volume whose slices have two rows.
Volume == [w |-> 3, h |-> 2, d |-> 3, mips |-> 2, layers |-> 1, bytes |-> <<1>>, bw |-> 1, bh |-> 1]

\* Compressed blocks of 4 by 4 texels, at sizes that are no multiple of 4.
Blocks == [w |-> 6, h |-> 9, d |-> 1, mips |-> 3, layers |-> 1, bytes |-> <<8>>, bw |-> 4, bh |-> 4]

\* Depth and stencil, which the file loader refuses.
DepthStencil == [w |-> 2, h |-> 2, d |-> 1, mips |-> 1, layers |-> 1, bytes |-> <<4, 1>>, bw |-> 1, bh |-> 1]

SomeTextures == {Texel, Array, Volume, Blocks, DepthStencil}

\* Alignments are powers of two; blocks of 8 bytes meet rows of 16.
SomeLimits == [offset : {1, 4}, row : {1, 4, 16}]
=============================================================================
