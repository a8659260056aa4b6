-------------------------- MODULE TextureFootprints --------------------------
(***************************************************************************)
(* Where the subresources of a texture go in the staging buffer:           *)
(* gfx_texture_vk::get_copyable_footprints (src/src/pt_gfx_texture_vk.cpp) *)
(* and the rows that load_dds_data_from_input_stream writes by it.         *)
(*                                                                         *)
(* A texture is [w, h, d, mips, layers, bytes, bw, bh]: the header's       *)
(* dimensions, the bytes of a texel block for each aspect of the format,   *)
(* and the size of the block in texels (1 by 1 unless compressed).  Limits *)
(* are [offset, row], the device's optimal buffer copy alignments.         *)
(***************************************************************************)
EXTENDS Integers, Sequences

\* internal_round_up
RoundUp(value, alignment) ==
    LET temp == value + alignment - 1 IN temp - (temp % alignment)

\* The loops run by aspect, layer and mip level, which is the order of
\* calc_subresource, so a subresource is its number.
NumSubresources(tex) == Len(tex.bytes) * tex.layers * tex.mips
MipLevel(tex, i)  == i % tex.mips
BlockBytes(tex, i) == tex.bytes[i \div (tex.mips * tex.layers) + 1]

\* w, h and d are halved from one mip level to the next, down to 1.
AtMip(size, mip) ==
    LET halved[n \in 0 .. mip] ==
            IF n = 0 THEN size
            ELSE IF halved[n - 1] \div 2 = 0 THEN 1 ELSE halved[n - 1] \div 2
    IN  halved[mip]
Width(tex, i)  == AtMip(tex.w, MipLevel(tex, i))
Height(tex, i) == AtMip(tex.h, MipLevel(tex, i))
Depth(tex, i)  == AtMip(tex.d, MipLevel(tex, i))

BlocksWide(tex, i) == (Width(tex, i) + tex.bw - 1) \div tex.bw
NumRows(tex, i)    == (Height(tex, i) + tex.bh - 1) \div tex.bh
RowSize(tex, i)    == BlocksWide(tex, i) * BlockBytes(tex, i)
RowPitch(tex, limits, i)   == RoundUp(RowSize(tex, i), limits.row)
SlicePitch(tex, limits, i) == RowPitch(tex, limits, i) * NumRows(tex, i)

\* An allocation of one slice.
AllocationOfOneSlice(tex, limits, i) == RoundUp(SlicePitch(tex, limits, i), limits.offset)

AllocationSize(tex, limits, i) ==
    RoundUp(SlicePitch(tex, limits, i) * Depth(tex, i), limits.offset)

\* The row length from the image's width, as in the lines commented out.
RowLengthOfImage(tex, limits, i) == RoundUp(tex.w, tex.bw)

\* bufferRowLength and bufferImageHeight, in texels.
BufferRowLength(tex, limits, i) ==
    (RowPitch(tex, limits, i) \div BlockBytes(tex, i)) * tex.bw
BufferImageHeight(tex, i) == NumRows(tex, i) * tex.bh

\* stagingOffset as the loops reach subresource i; the last value is its end.
StagingOffset(tex, limits, base, i) ==
    LET offset[n \in 0 .. i] ==
            IF n = 0 THEN RoundUp(base, limits.row)
                     ELSE offset[n - 1] + AllocationSize(tex, limits, n - 1)
    IN  offset[i]

TotalBytes(tex, limits, base) ==
    StagingOffset(tex, limits, base, NumSubresources(tex)) - base

\* The elements of out_cmdcopy_dest.
Regions(tex, limits, base) ==
    {[sub |-> i, offset |-> StagingOffset(tex, limits, base, i),
      rowLength |-> BufferRowLength(tex, limits, i),
      imageHeight |-> BufferImageHeight(tex, i)] : i \in 0 .. NumSubresources(tex) - 1}

\* What the loader writes of subresource i: its rows, each where the element
\* of out_memcpy_dest says.  The branches for equal pitches write the same
\* bytes with fewer reads.
Rows(tex, limits, base, i) ==
    {[sub |-> i, z |-> z, y |-> y, len |-> RowSize(tex, i),
      at |-> StagingOffset(tex, limits, base, i)
                + SlicePitch(tex, limits, i) * z + RowPitch(tex, limits, i) * y] :
        z \in 0 .. Depth(tex, i) - 1, y \in 0 .. NumRows(tex, i) - 1}
=============================================================================
