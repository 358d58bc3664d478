------------------------------ MODULE LibegImage ------------------------------
(***************************************************************************)
(* libeg's images (libeg/image.c, load_icns.c, load_bmp.c): how the pixels   *)
(* of a file or of the data compiled into rEFIt become an image, and how     *)
(* images are put on top of each other. Bytes of pixels are numbers; what is *)
(* around them in a file (tags, lengths, padding) is a record.               *)
(***************************************************************************)
EXTENDS Integers, SequencesExt, FiniteSetsExt, TLC

CONSTANTS
    NULL,
    Side    \* by a length in the code's pixels: the pixels it has in the model

(* PixelData, by column and row *)
Points(width, height) == (0 .. width - 1) \X (0 .. height - 1)

(* What pixels and images are: their channels are bytes.                       *)
Byte  == 0 .. 255
Pixel == [r : Byte, g : Byte, b : Byte, a : Byte]

IsImage(image, alpha) ==
    /\ image.Width \in Nat \ {0} /\ image.Height \in Nat \ {0} /\ image.HasAlpha = alpha
    /\ image.PixelData \in [Points(image.Width, image.Height) -> Pixel]

Opaque(pixel) == [pixel EXCEPT !.a = 0]

CreateFilledImage(width, height, alpha, color) ==
    [Width |-> width, Height |-> height, HasAlpha |-> alpha,
     PixelData |-> [p \in Points(width, height) |-> IF alpha THEN color ELSE Opaque(color)]]

------------------------------------------------------------------------------
(* From bytes to planes *)

(* One round of the decoder at s.at: a byte from 128 on repeats the byte after *)
(* it, any other copies the bytes after it; it stops when the bytes end or a    *)
(* run is longer than the plane.                                                *)
DecodeRun(data, count, s) ==
    LET head   == data[s.at]
        repeat == head >= 128
        len    == IF repeat THEN head - 125 ELSE head + 1
        size   == IF repeat THEN 1 ELSE len
        run    == [i \in 1 .. len |-> data[s.at + IF repeat THEN 1 ELSE i]]
    IN  IF s.stop \/ s.at + 1 > Len(data) \/ Len(s.out) = count THEN s
        ELSE IF len > count - Len(s.out) \/ (~repeat /\ s.at + len > Len(data))
             THEN [s EXCEPT !.at = @ + 1, !.stop = TRUE]
        ELSE [s EXCEPT !.at = @ + 1 + size, !.out = @ \o run]

(* A plane of count bytes, and where the next one begins                        *)
DecompressIcnsRLE(data, from, count) ==
    LET s[n \in 0 .. count] == IF n = 0 THEN [at |-> from, out |-> <<>>, stop |-> FALSE]
                               ELSE DecodeRun(data, count, s[n - 1])
    IN  s[count]

InsertPlane(data, from, count) ==
    [at |-> from + count, out |-> SubSeq(data, from, from + count - 1)]

WithPlane(planes, plane) == [at |-> plane.at, planes |-> Append(planes, plane.out)]

(* The planes that follow each other in the data                                *)
Planes(data, count, rle, number) ==
    LET s[k \in 0 .. number] ==
            IF k = 0 THEN [at |-> 1, planes |-> <<>>]
            ELSE WithPlane(s[k - 1].planes,
                           IF rle THEN DecompressIcnsRLE(data, s[k - 1].at, count)
                           ELSE InsertPlane(data, s[k - 1].at, count))
    IN  s[number].planes

FromPlanes(width, height, alpha, red, green, blue, mask) ==
    [Width |-> width, Height |-> height, HasAlpha |-> alpha,
     PixelData |-> [p \in Points(width, height) |->
                        LET i == p[2] * width + p[1] + 1
                        IN  [r |-> red[i], g |-> green[i], b |-> blue[i], a |-> mask[i]]]]

Plane(count, value) == [i \in 1 .. count |-> value]

NoMask(count, wantAlpha) == Plane(count, IF wantAlpha THEN 255 ELSE 0)

------------------------------------------------------------------------------
(* Images from files and from the data in the program *)

(* Gray is one plane, color three, and the mask the plane behind them.          *)
Arrange(embedded, wantAlpha, planes, colors, masked, count) ==
    LET red == IF colors = 0 THEN Plane(count, 0) ELSE planes[1]
    IN  FromPlanes(embedded.Width, embedded.Height, wantAlpha, red,
                   IF colors = 3 THEN planes[2] ELSE red, IF colors = 3 THEN planes[3] ELSE red,
                   IF masked THEN planes[colors + 1] ELSE NoMask(count, wantAlpha))

PrepareEmbeddedImage(embedded, wantAlpha) ==
    LET count  == embedded.Width * embedded.Height
        colors == CASE embedded.PixelMode \in {"gray", "gray alpha"}   -> 1
                    [] embedded.PixelMode \in {"color", "color alpha"} -> 3
                    [] OTHER -> 0
        masked == wantAlpha /\ embedded.PixelMode \in {"gray alpha", "color alpha", "alpha"}
    IN  Arrange(embedded, wantAlpha,
                Planes(embedded.Data, count, embedded.CompressMode = "rle",
                       colors + IF masked THEN 1 ELSE 0), colors, masked, count)

DataType == 128 :> "it32" @@ 48 :> "ih32" @@ 32 :> "il32" @@ 16 :> "is32"
MaskType == 128 :> "t8mk" @@ 48 :> "h8mk" @@ 32 :> "l8mk" @@ 16 :> "s8mk"

(* Seeded fault: the first block of a type is used, not the last.              *)
FirstBlock(blocks, type) ==
    LET skip  == IF type = "it32" THEN 4 ELSE 0
        found == {i \in DOMAIN blocks : blocks[i].type = type}
    IN  IF found = {} THEN NULL
        ELSE SubSeq(blocks[Min(found)].data, skip + 1, Len(blocks[Min(found)].data))

(* Every block of the file is looked at; a later one replaces an earlier one.   *)
(* The data of the big icon begin with four zeros. Each block has a length of 8   *)
(* or more, which the code takes for granted: a smaller one is not in the model.   *)
Block(blocks, type) ==
    LET skip  == IF type = "it32" THEN 4 ELSE 0
        found == {i \in DOMAIN blocks : /\ blocks[i].type = type
                                        /\ \A k \in 1 .. skip : blocks[i].data[k] = 0}
    IN  IF found = {} THEN NULL
        ELSE SubSeq(blocks[Max(found)].data, skip + 1, Len(blocks[Max(found)].data))

(* Compressed planes, or pixels when there are enough bytes for all of them      *)
Colors(data, count) ==
    IF Len(data) < 3 * count THEN Planes(data, count, TRUE, 3)
    ELSE [c \in 1 .. 3 |-> [i \in 1 .. count |-> data[3 * (i - 1) + c]]]

MaskOrNone(mask, count, wantAlpha) ==
    IF wantAlpha /\ mask # NULL /\ Len(mask) >= count THEN mask ELSE NoMask(count, wantAlpha)

Square(side, alpha, color, mask) ==
    FromPlanes(side, side, alpha, color[1], color[2], color[3], mask)

FromBlocks(data, mask, side, wantAlpha) ==
    IF data = NULL THEN NULL
    ELSE Square(side, wantAlpha, Colors(data, side * side), MaskOrNone(mask, side * side, wantAlpha))

DecodeICNS(file, size, wantAlpha) ==
    IF file.magic # "icns" THEN NULL
    ELSE FromBlocks(Block(file.blocks, DataType[size]), Block(file.blocks, MaskType[size]),
                    Side[size], wantAlpha)

(* A positive height means that the last row comes first. An image of 4 bits per  *)
(* pixel has two columns or more; with one, the code runs over the end of the row,  *)
(* which is not in the model.                                                     *)
DecodeBMP(file, wantAlpha) ==
    LET height == IF file.PixelHeight < 0 THEN -file.PixelHeight ELSE file.PixelHeight
        row(y) == file.rows[IF file.PixelHeight > 0 THEN height - y ELSE y + 1]
        alpha  == IF wantAlpha THEN 255 ELSE 0
        color(value) == IF file.BitPerPixel = 24 THEN value ELSE file.colors[value + 1]
    IN  IF \/ file.magic # "BM" \/ file.CompressionType # 0 \/ file.BitPerPixel \notin {1, 4, 8, 24}
           \/ file.PixelWidth \notin 1 .. 4096 \/ height \notin 1 .. 4096
           \/ Len(file.rows) < height
        THEN NULL
        ELSE [Width |-> file.PixelWidth, Height |-> height, HasAlpha |-> wantAlpha,
              PixelData |-> [p \in Points(file.PixelWidth, height) |->
                                 color(row(p[2])[p[1] + 1]) @@ [a |-> alpha]]]

(* The extension of its name decides what a file is taken for, and magic, what it  *)
(* begins with, whether it is that.                                               *)
DecodeAny(file, size, wantAlpha) ==
    CASE file.ext = "bmp"  -> DecodeBMP(file, wantAlpha)
      [] file.ext = "icns" -> DecodeICNS(file, size, wantAlpha)
      [] OTHER             -> NULL

(* All that can be had from some files                                           *)
DecodeFiles(files) ==
    [name \in DOMAIN files |->
        [size \in {128, 48, 32} |-> [wantAlpha \in BOOLEAN |-> DecodeAny(files[name], size, wantAlpha)]]]

------------------------------------------------------------------------------
(* Images on top of images *)

(* The part of an area of width and height at x and y that is in the image.     *)
RestrictImageArea(image, x, y, width, height) ==
    IF x >= image.Width \/ y >= image.Height THEN <<0, 0>>
    ELSE <<Min({width, image.Width - x}), Min({height, image.Height - y})>>

(* Seeded fault: the quotient is not rounded.                                   *)
BlendDown(below, above, alpha) ==
    LET temp == below * (255 - alpha) + above * alpha
    IN  (temp + (temp \div 256)) \div 256

Blend(below, above, alpha) ==
    LET temp == below * (255 - alpha) + above * alpha + 128
    IN  ((temp + (temp \div 256)) \div 256) % 256

RawCompose(below, above) ==
    [below EXCEPT !.r = Blend(@, above.r, above.a), !.g = Blend(@, above.g, above.a),
                  !.b = Blend(@, above.b, above.a)]

(* egComposeImage, with egRawCompose or egRawCopy on the part that both have    *)
ComposeImage(comp, top, x, y) ==
    LET area  == RestrictImageArea(comp, x, y, top.Width, top.Height)
        plain == [comp EXCEPT !.HasAlpha = FALSE,
                              !.PixelData = IF comp.HasAlpha
                                            THEN [p \in DOMAIN @ |-> Opaque(@[p])] ELSE @]
        under(p) == <<p[1] - x, p[2] - y>> \in Points(area[1], area[2])
        over(p)  == top.PixelData[<<p[1] - x, p[2] - y>>]
    IN  IF area[1] = 0 THEN comp
        ELSE [plain EXCEPT !.PixelData =
                [p \in DOMAIN @ |-> IF ~under(p) THEN @[p]
                                    ELSE IF top.HasAlpha THEN RawCompose(@[p], over(p))
                                    ELSE over(p)]]

EnsureImageSize(image, width, height, color) ==
    IF image = NULL THEN NULL
    ELSE IF image.Width = width /\ image.Height = height THEN image
    ELSE ComposeImage(CreateFilledImage(width, height, image.HasAlpha, color), image, 0, 0)
================================================================================
