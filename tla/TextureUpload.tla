---------------------------- MODULE TextureUpload ----------------------------
(***************************************************************************)
(* gfx_texture_vk::read_input_stream (src/src/pt_gfx_texture_vk.cpp):      *)
(* threads that load textures take a range of the staging ring, fill it    *)
(* from the file and record the copies into an image.  A load that ends    *)
(* before it locks the ring (bad header, format not supported) changes     *)
(* nothing here and is left out, and so are the image and its memory.      *)
(*                                                                         *)
(* The build is the one with asserts: lock asserts that nobody is inside,  *)
(* and the program stops there otherwise.  Nothing frees a staging range,  *)
(* and the recorded copies read it after this code has returned.           *)
(***************************************************************************)
EXTENDS Ring, TextureFootprints

CONSTANTS
    Threads,        \* the threads that load textures
    Textures,       \* what the files hold, as TextureFootprints describes it
    Limits,         \* the alignments a device may report, both powers of two
    RingSize,       \* the size of the staging buffer
    MaxLoads        \* bound: how many loads are begun

ASSUME TextureUploadAssumption ==
    /\ RingSize \in Nat \ {0}
    /\ MaxLoads \in Nat
    /\ Textures \subseteq [w : Nat \ {0}, h : Nat \ {0}, d : Nat \ {0},
                           mips : Nat \ {0}, layers : Nat \ {0},
                           bytes : Seq(Nat \ {0}) \ {<<>>}, bw : Nat \ {0}, bh : Nat \ {0}]
    /\ Limits \subseteq [offset : Nat \ {0}, row : Nat \ {0}]
    /\ \A l \in Limits : l.offset % l.row = 0 \/ l.row % l.offset = 0

None == [w |-> 0, h |-> 0, d |-> 0, mips |-> 0, layers |-> 0, bytes |-> <<>>,
         bw |-> 0, bh |-> 0]

Idle == [at |-> "idle", load |-> 0, tex |-> None, base |-> 0, size |-> 0]

VARIABLES
    limits,         \* the device's optimal buffer copy alignments
    ring,           \* the fields of the staging ring
    locked,         \* m_buffer_lock
    call,           \* for each thread, its call of read_input_stream
    loads,          \* ghost: how many loads were begun
    granted,        \* ghost: the ranges that the ring gave out
    staged,         \* the rows written to the staging buffer
    copies          \* the regions that command buffers copy from it

vars == <<limits, ring, locked, call, loads, granted, staged, copies>>

Init ==
    /\ limits \in Limits
    /\ ring = NewRing(RingSize)
    /\ locked = FALSE
    /\ call = [t \in Threads |-> Idle]
    /\ loads = 0
    /\ granted = {}
    /\ staged = {}
    /\ copies = {}

-----------------------------------------------------------------------------

(* The load locks the ring and computes the footprints, for the place that *)
(* offset and validate_offset announce.                                    *)
Announce(t, tex) ==
    /\ call[t].at = "idle"
    /\ ~locked
    /\ loads < MaxLoads
    /\ loads' = loads + 1
    /\ locked' = TRUE
    /\ LET begun == TotalBytes(tex, limits, ring.begin)
           base  == IF ValidateOffset(ring, begun) THEN ring.begin ELSE 0
       IN  call' = [call EXCEPT ![t] = [at |-> "announced", load |-> loads + 1, tex |-> tex,
                                        base |-> base,
                                        size |-> TotalBytes(tex, limits, base)]]
    /\ UNCHANGED <<limits, ring, granted, staged, copies>>

(* The ring gives the range and is unlocked.                               *)
Allocate(t) ==
    /\ call[t].at = "announced"
    /\ CanAlloc(ring, call[t].size)
    /\ ring' = AfterAlloc(ring, call[t].size)
    /\ granted' = granted \cup
          {[load |-> call[t].load, offset |-> OutOffset(ring, call[t].size), size |-> call[t].size]}
    /\ locked' = FALSE
    /\ call' = [call EXCEPT ![t].at = "allocated"]
    /\ UNCHANGED <<limits, loads, staged, copies>>

(* The ring has no room: the load returns false, and leaves it locked.     *)
AllocateFails(t) ==
    /\ call[t].at = "announced"
    /\ ~CanAlloc(ring, call[t].size)
    /\ call' = [call EXCEPT ![t] = Idle]
    /\ UNCHANGED <<limits, ring, locked, loads, granted, staged, copies>>

\* The rows of the first n subresources, in the order of the file.
RowsOf(c, n) ==
    {[load |-> c.load, row |-> r] : r \in UNION {Rows(c.tex, limits, c.base, i) : i \in 0 .. n - 1}}

(* The file has one plane per subresource and is read to its end.          *)
LoadData(t) ==
    /\ call[t].at = "allocated"
    /\ Len(call[t].tex.bytes) = 1
    /\ staged' = staged \cup RowsOf(call[t], NumSubresources(call[t].tex))
    /\ call' = [call EXCEPT ![t].at = "loaded"]
    /\ UNCHANGED <<limits, ring, locked, loads, granted, copies>>

(* The file ends early, or its format has two planes and is refused before *)
(* the first byte: the load returns false and keeps its range.             *)
LoadDataFails(t) ==
    /\ call[t].at = "allocated"
    /\ \E n \in 0 .. NumSubresources(call[t].tex) - 1 :
          /\ Len(call[t].tex.bytes) > 1 => n = 0
          /\ staged' = staged \cup RowsOf(call[t], n)
    /\ call' = [call EXCEPT ![t] = Idle]
    /\ UNCHANGED <<limits, ring, locked, loads, granted, copies>>

(* The image exists and the copies into it are recorded.                   *)
CopyBufferToImage(t) ==
    /\ call[t].at = "loaded"
    /\ copies' = copies \cup
          {[load |-> call[t].load, tex |-> call[t].tex, region |-> r] :
              r \in Regions(call[t].tex, limits, call[t].base)}
    /\ call' = [call EXCEPT ![t] = Idle]
    /\ UNCHANGED <<limits, ring, locked, loads, granted, staged>>

Next ==
    \E t \in Threads :
        \/ \E tex \in Textures : Announce(t, tex)
        \/ Allocate(t)
        \/ AllocateFails(t)
        \/ LoadData(t)
        \/ LoadDataFails(t)
        \/ CopyBufferToImage(t)

Spec == Init /\ [][Next]_vars

-----------------------------------------------------------------------------

(* The ring, what it gave out, the rows and the regions stay within the    *)
(* staging buffer: no load goes on without the range it asked for.         *)
TypeOK ==
    /\ limits \in Limits
    /\ ring \in [size : {RingSize}, begin : 0 .. RingSize, end : 0 .. 2 * RingSize,
                 rem : 0 .. RingSize]
    /\ locked \in BOOLEAN
    /\ loads \in 0 .. MaxLoads
    /\ \A t \in Threads :
          /\ call[t].at \in {"idle", "announced", "allocated", "loaded"}
          /\ call[t].load \in 0 .. loads
          /\ call[t].tex \in Textures \cup {None}
          /\ call[t].base \in 0 .. RingSize
          /\ call[t].size \in Nat
    /\ \A g \in granted : g.load \in 1 .. loads /\ g.offset + g.size <= RingSize
    /\ \A s \in staged : s.load \in 1 .. loads /\ s.row.at + s.row.len <= RingSize
    /\ \A c \in copies : c.load \in 1 .. loads /\ c.region.offset < RingSize

(* The footprints are computed before the range is allocated, for an       *)
(* offset that is only announced: alloc returns that offset (assert        *)
(* base_offset == ret_offset), and the rows of a load lie in its range.    *)
StagedWhereAnnounced ==
    /\ TypeOK
    /\ \A t \in Threads : call[t].at \in {"allocated", "loaded"} =>
          \E g \in granted : g.load = call[t].load /\ g.offset = call[t].base
    /\ \A s \in staged : \E g \in granted :
          /\ g.load = s.load
          /\ g.offset <= s.row.at
          /\ s.row.at + s.row.len <= g.offset + g.size

\* Where the device finds the first block of row y, slice z, by the rules of
\* Vulkan for buffer and image addressing that the code quotes.
DeviceAddress(c, y, z) ==
    LET rowLength   == c.region.rowLength \div c.tex.bw
        imageHeight == c.region.imageHeight \div c.tex.bh
    IN  c.region.offset
          + (z * imageHeight + y) * rowLength * BlockBytes(c.tex, c.region.sub)

Disjoint(r, s) == r.at + r.len <= s.at \/ s.at + s.len <= r.at

(* Each row of blocks that a recorded copy will read is, at the address    *)
(* the device computes from pitches given in texels, the row that the      *)
(* loader wrote there for this load, mip level and layer; and no other row *)
(* of any load touches these bytes, although the copies run much later.    *)
DeviceReadsWhatWasWritten ==
    \A c \in copies :
        LET i == c.region.sub
        IN  \A z \in 0 .. Depth(c.tex, i) - 1, y \in 0 .. NumRows(c.tex, i) - 1 :
              \E s \in staged :
                 /\ s.load = c.load
                 /\ s.row.sub = i /\ s.row.z = z /\ s.row.y = y
                 /\ s.row.at = DeviceAddress(c, y, z)
                 /\ s.row.len = BlocksWide(c.tex, i) * BlockBytes(c.tex, i)
                 /\ \A other \in staged \ {s} : Disjoint(s.row, other.row)

=============================================================================
