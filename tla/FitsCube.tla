------------------------------ MODULE FitsCube ------------------------------
(***************************************************************************)
(* utility::umap_fits_file: a cube of tiles, each the image of a FITS      *)
(* file, mapped with umap over a store of its own that reads a page from   *)
(* the tile the page begins in.  A byte of the data is named by its tile   *)
(* and its place in it.  A fill worker keeps its buffer of one page from   *)
(* one read to the next.                                                   *)
(***************************************************************************)
EXTENDS Integers, FiniteSets

CONSTANTS Files,        \* what the directories may hold: the number of tiles, and of each the
                        \* start of its data in its file and the bytes of an image
          PageSizes,    \* of umap
          SystemPage,   \* 4096 in Tile::Tile
          Block         \* of which an O_DIRECT read is to be a multiple

VARIABLES
  fits,         \* a member of Files
  psize,
  cube_size,
  buf,          \* the worker's buffer, and a page of the memory after it
  page,         \* the page that it has read last
  rval,         \* what read_from_store has returned for it
  asked,        \* how many bytes it has asked pread for
  accepted,     \* pread has not failed
  phase         \* "start", "mapped", "read", "freed" or "failed"

vars == <<fits, psize, cube_size, buf, page, rval, asked, accepted, phase>>

\* Bytes that are none of a tile's.
NaN == <<-1, 0>>
Junk == <<-2, 0>>
tile_size == fits.size

-----------------------------------------------------------------------------
(* Tile *)

pgaligned(start) == start - (start % SystemPage)

\* The start of the data in what is read.
map_start == fits.start - pgaligned(fits.start)
map_size == tile_size + map_start

\* Byte b of the file of tile z.
FileByte(z, b) == IF b >= fits.start THEN <<z, b - fits.start>> ELSE <<-3, b>>

\* Mutant: the data are left where pread has put them.
NotMoved(b, nb) == b

\* memmove of nb bytes to the front of the buffer.
Realigned(b, nb) == [k \in DOMAIN b |-> IF k < nb THEN b[k + map_start] ELSE b[k]]

\* The bytes past the end of the tile in a request of nb bytes at off.
eof(nb, off) == LET req_end == off + nb + map_start
                IN IF req_end >= map_size THEN req_end - map_size ELSE 0

\* What pread is asked for.
Length(nb, off) == nb + map_start - eof(nb, off)

\* The file is opened with O_DIRECT: a length that is not a multiple of a block may be refused.
Outcomes(length) == IF length % Block = 0 THEN {TRUE} ELSE BOOLEAN

\* The buffer after it.  The result of pread is not looked at: where it has failed, what the
\* buffer held is moved.
buffered_read(z, nb, off, ok) ==
  LET got == [k \in DOMAIN buf |-> IF ok /\ k < Length(nb, off)
                                   THEN FileByte(z, pgaligned(fits.start) + k) ELSE buf[k]]
  IN Realigned(got, nb)

-----------------------------------------------------------------------------

Init ==
  /\ fits \in Files /\ psize \in PageSizes
  /\ cube_size = 0
  /\ buf = [k \in 0..(2 * psize - 1) |-> Junk]
  /\ page = 0 /\ rval = 0 /\ asked = 0 /\ accepted = TRUE /\ phase = "start"

Padded(size) == IF size % psize = 0 THEN size ELSE size + (psize - (size % psize))

\* Every file is opened and measured before the cube is mapped; without a first file, or
\* when a file cannot be read, there is no cube.
PerFits_alloc_cube ==
  /\ phase = "start"
  /\ \/ /\ fits.tiles > 0
        /\ cube_size' = Padded(fits.tiles * tile_size) /\ phase' = "mapped"
     \/ phase' = "failed" /\ UNCHANGED cube_size
  /\ UNCHANGED <<fits, psize, buf, page, rval, asked, accepted>>

tileno(off) == off \div tile_size
tileoffset(off) == off % tile_size

\* A fill worker reads page p.
read_from_store(p) ==
  /\ phase \in {"mapped", "read"} /\ p < cube_size \div psize
  /\ page' = p
  /\ LET off == p * psize
         read == psize - eof(psize, tileoffset(off))
         b == buffered_read(tileno(off), psize, tileoffset(off), accepted')
     IN /\ rval' = read
        /\ asked' = Length(psize, tileoffset(off))
        /\ accepted' \in Outcomes(asked')
        /\ buf' = [k \in DOMAIN b |-> IF read <= k /\ k < psize - 1 THEN NaN ELSE b[k]]
  /\ phase' = "read"
  /\ UNCHANGED <<fits, psize, cube_size>>

PerFits_free_cube ==
  /\ phase \in {"mapped", "read"}
  /\ phase' = "freed" /\ cube_size' = 0
  /\ UNCHANGED <<fits, psize, buf, page, rval, asked, accepted>>

Ended == phase \in {"freed", "failed"} /\ UNCHANGED vars

MaxPages == 64     \* a bound: no cube of the instances has more pages

Next ==
  \/ PerFits_alloc_cube \/ PerFits_free_cube \/ Ended
  \/ \E p \in 0..(MaxPages - 1) : read_from_store(p)

Spec == Init /\ [][Next]_vars

-----------------------------------------------------------------------------

Bytes == fits.tiles * tile_size

\* No read asks for bytes past the end of the image, nor for none; and its tile is one of the
\* cube's, though the cube is padded.
ReadsInside ==
  phase = "read" =>
    /\ asked <= map_size
    /\ 0 < rval /\ rval <= psize
    /\ tileno(page * psize) < fits.tiles

\* A read stays inside the buffer that the worker has allocated.  Does not hold for a tile
\* whose data do not begin at a page of the file.
ReadFitsBuffer == phase = "read" => asked <= psize

\* What a read that pread accepted reports are bytes of the tile that the page begins in, none
\* of the file's header and none left over from another page, wherever the header ends; and a
\* page that begins with a tile has the tile's bytes in their places.
BytesOfTile ==
  phase = "read" /\ accepted =>
    \A k \in 0..(rval - 1) :
      /\ buf[k][1] = tileno(page * psize)
      /\ (page * psize) % tile_size = 0 => buf[k][2] = k

\* What is reported was read.  Does not hold when pread refuses the length.
ReportedIsRead == phase = "read" => \A k \in 0..(rval - 1) : buf[k][1] = tileno(page * psize)

\* Every page has its bytes of the cube, cube[Z][Y][X].  Does not hold for a page that
\* begins inside of a tile: it gets the bytes of the tile's first page.
CubeRight ==
  phase = "read" =>
    \A k \in 0..(psize - 1) :
      page * psize + k < Bytes =>
        buf[k] = <<tileno(page * psize + k), tileoffset(page * psize + k)>>

\* What a read does not fill is NaN.  Does not hold for the last byte of the page.
RestIsNaN == phase = "read" => \A k \in rval..(psize - 1) : buf[k] = NaN
=============================================================================
