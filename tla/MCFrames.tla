------------------------------ MODULE MCFrames ------------------------------
(* Small pictures.  Raw ones of 7 by 6, of 8 by 8 and, for the tiles of    *)
(* AHD (8 by 8 here), of 9 by 10: of each tile, without detail, with one   *)
(* bright sample, and of high contrast; in 8 bits and, of 10 bits, in 16.  *)
(* Pictures of 4 by 2 in every coding, with and without padding; of 3 by 2 *)
(* and 3 by 3, whose rows, and whose pixels, do not go into pairs.         *)
EXTENDS Frames

Filled(w, h, coding, filter, depth, padding, B(_)) ==
    LET bytes == (w * h * BitSize(coding)) \div 8
    IN  [image |-> [i \in 0 .. bytes + padding - 1 |-> IF i < bytes THEN B(i) ELSE 201 + i - bytes],
         fresh |-> {}, allocated |-> bytes + padding, size |-> <<w, h>>, position |-> <<4, 2>>,
         coding |-> coding, filter |-> filter, order |-> "UYVY", depth |-> depth,
         image_bytes |-> bytes, padding |-> padding]

\* A value for each sample; those of 16 bits with the high byte first, or last.
Raw(w, h, tile, V(_, _)) ==
    LET B(i) == V(i \div w, i % w) IN Filled(w, h, "RAW8", tile, 8, 1, B)
Raw16(w, h, tile, big, V(_, _)) ==
    LET B(i) == LET v == 4 * V((i \div 2) \div w, (i \div 2) % w) + 3
                IN  IF (i % 2 = 0) = big THEN v \div 256 ELSE v % 256
    IN  Filled(w, h, "RAW16", tile, 10, 0, B)

Flat(tile, y, x) == <<250, 90, 20>>[Mosaic[tile][2 * (y % 2) + (x % 2) + 1] + 1]
Spot(y, x) == IF y = 3 /\ x = 2 THEN 255 ELSE 16
Harsh(y, x) == IF (y * y + 3 * x) % 5 < 2 THEN 255 ELSE 7 * x

RawPictures(w, h) ==
    UNION {LET F(y, x) == Flat(t, y, x)
           IN  {Raw(w, h, t, F), Raw(w, h, t, Spot), Raw(w, h, t, Harsh),
                Raw16(w, h, t, TRUE, F), Raw16(w, h, t, TRUE, Harsh), Raw16(w, h, t, FALSE, Harsh)} :
           t \in Tiles}

Sized(w, h, coding, padding) ==
    LET deep == coding \in {"MONO16", "RAW16", "RGB16"}
        B(i) == IF deep /\ i % 2 = 0 THEN i % 4 ELSE (i * 67 + 29) % 256
    IN  Filled(w, h, coding, "none", IF deep THEN 10 ELSE 8, padding, B)
Small(coding, padding) == Sized(4, 2, coding, padding)

SmallPictures == {Small(c, p) : c \in Convertible, p \in {0, 3}}
OddPictures == {Sized(3, h, c, 3) : h \in {2, 3}, c \in Convertible \ {"YUV411"}}

Blank == LET Z(i) == 9 IN Filled(6, 6, "MONO8", "none", 8, 0, Z)
Pictures == RawPictures(7, 6) \cup RawPictures(8, 8) \cup RawPictures(9, 10)
              \cup SmallPictures \cup OddPictures \cup {Blank}

\* Only the small pictures, and the blank one, see a second call, on frames that
\* the first has described and given memory (enough for longer rows, or too little).
IsSmall(f) == f.size[1] < 5
Two(f) == IF IsSmall(f) \/ f = Blank THEN 2 ELSE 1
After(f) ==
    IF IsSmall(f) THEN {Small("RAW8", 0), Small("RGB16", 3), Small("YUV422", 3), Sized(3, 2, "MONO8", 3)}
    ELSE {}
=============================================================================
