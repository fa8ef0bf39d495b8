------------------------------- MODULE Bitmap -------------------------------
(***************************************************************************)
(* The images of project3/bitmap.c and the bytes bitmap_save() makes of    *)
(* them.  A colour has three bytes, told apart by their names.             *)
(***************************************************************************)
EXTENDS Integers, Sequences, SequencesExt

bitmap_create(w, h, value) ==
    [width |-> w, height |-> h, data |-> [k \in 0 .. w * h - 1 |-> value]]

\* The loops of bitmap_get() and bitmap_set() wrap x and y around.
Index(m, x, y) == (y % m.height) * m.width + (x % m.width)

bitmap_get(m, x, y) == m.data[Index(m, x, y)]

bitmap_set(m, x, y, value) == [m EXCEPT !.data[Index(m, x, y)] = value]

PixelBytes(c) == << <<c, "blue">>, <<c, "green">>, <<c, "red">> >>

\* Mutant: pads a line that needs no padding
PaddingAlways(w) == 4 - ((w * 3) % 4)

Padding(w) ==
    LET padlength == 4 - ((w * 3) % 4)
    IN  IF padlength = 4 THEN 0 ELSE padlength

Scanline(m, j) ==
    FlattenSeq([i \in 1 .. m.width |-> PixelBytes(bitmap_get(m, i - 1, j))])

\* The padding repeats the beginning of the line.
PaddedLine(m, j) ==
    Scanline(m, j) \o SubSeq(Scanline(m, j), 1, Padding(m.width))

\* The file: of the header, what a reader needs to find the pixels.
bitmap_save(m) ==
    [width |-> m.width,
     height |-> m.height,
     bytes |-> FlattenSeq([j \in 1 .. m.height |-> PaddedLine(m, j - 1)])]

\* bitmap(): the colours' bytes it finds for each pixel, line after line; it
\* does not skip the padding.
bitmap_load(f) ==
    [k \in 0 .. f.width * f.height - 1 |-> SubSeq(f.bytes, 3 * k + 1, 3 * k + 3)]

=============================================================================
