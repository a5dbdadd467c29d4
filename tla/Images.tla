------------------------------- MODULE Images -------------------------------
(***************************************************************************)
(* Images, bitmap files, cursors and colors (xlib/Image.cpp, Pixmap.cpp,   *)
(* Cursor.cpp, Color.cpp, xlib/xorg/WrBitF.c, RdBitF.c).                   *)
(*                                                                         *)
(* A pixel is its four bytes, least first, as memory has it.               *)
(***************************************************************************)
EXTENDS Integers, Sequences, FiniteSets, FiniteSetsExt

CONSTANTS Depths, Widths, Heights,      \* of images
          Pads,                         \* bitmap_pad
          Bits,                         \* bitmaps: rows of 0 and 1
          Memories                      \* what new memory has in it, 0 after its end

(* The depths that images of this library have (Image.cpp:50).             *)
ASSUME ImagesAssumption ==
  /\ Depths \subseteq {1, 8, 15, 16, 24, 32}
  /\ Widths \subseteq Nat /\ Heights \subseteq Nat /\ Pads \subseteq Nat
  /\ \A bits \in Bits :
       /\ bits \in Seq(Seq({0, 1})) /\ bits # <<>>
       /\ \A row \in DOMAIN bits : bits[row] # <<>> /\ Len(bits[row]) = Len(bits[1])
  /\ Memories \subseteq Seq(0 .. 255)

ROUNDUP(a, b) == ((a + b - 1) \div b) * b

(* XInitImage, of no given bytes per line.                                 *)
BytesPerLine(width, unit, pad) ==
  LET line == width * (unit \div 8) IN IF pad \div 8 = 0 THEN line ELSE ROUNDUP(line, pad \div 8)

(* XCreateImage, in ZPixmap; the data is the caller's.                     *)
XCreateImage(depth, width, height, pad) ==
  LET unit == ROUNDUP(depth, 8)
      line == BytesPerLine(width, unit, pad)
  IN [depth |-> depth, unit |-> unit, width |-> width, height |-> height,
      bytes_per_line |-> line, data |-> [i \in 0 .. height * line - 1 |-> 0]]

XListPixmapFormats ==
  {[depth |-> 32, bits_per_pixel |-> 32, scanline_pad |-> 32],
   [depth |-> 24, bits_per_pixel |-> 24, scanline_pad |-> 32],
   [depth |-> 16, bits_per_pixel |-> 16, scanline_pad |-> 16]}

GetImageDataPointer(image, x, y) == y * image.bytes_per_line + (x * image.unit) \div 8
BytesOf(image) == image.unit \div 8
Bit(x) == 2 ^ (7 - (x % 8))               \* 0x80 >> (x % 8)

ImageGetPixel(image, x, y) ==
  LET at == GetImageDataPointer(image, x, y)
  IN IF image.depth = 1 THEN <<(image.data[at] \div Bit(x)) % 2, 0, 0, 0>>
     ELSE [b \in 1 .. 4 |-> IF b <= BytesOf(image) THEN image.data[at + b - 1] ELSE 0]

(* Mutant: a pixel of three bytes is written as four.                      *)
ImagePutPixelWhole(image, x, y, pixel) ==
  LET at == GetImageDataPointer(image, x, y)
      n == IF BytesOf(image) = 3 THEN 4 ELSE BytesOf(image)
  IN IF image.depth = 1
     THEN [image EXCEPT !.data[at] =
             IF pixel = <<0, 0, 0, 0>>
             THEN @ - Bit(x) * ((@ \div Bit(x)) % 2)
             ELSE @ + Bit(x) * (1 - ((@ \div Bit(x)) % 2))]
     ELSE [image EXCEPT !.data = [i \in DOMAIN @ |->
             IF i \in at .. at + n - 1 THEN pixel[i - at + 1] ELSE @[i]]]

ImagePutPixel(image, x, y, pixel) ==
  LET at == GetImageDataPointer(image, x, y)
  IN IF image.depth = 1
     THEN [image EXCEPT !.data[at] =
             IF pixel = <<0, 0, 0, 0>>
             THEN @ - Bit(x) * ((@ \div Bit(x)) % 2)
             ELSE @ + Bit(x) * (1 - ((@ \div Bit(x)) % 2))]
     ELSE [image EXCEPT !.data = [i \in DOMAIN @ |->
             IF i \in at .. at + BytesOf(image) - 1 THEN pixel[i - at + 1] ELSE @[i]]]

-----------------------------------------------------------------------------
(* Format_Image: rows of eight pixels a byte, the first the least bit.     *)
Width(bits) == Len(bits[1])
Format_Image(bits) ==
  LET line == (Width(bits) + 7) \div 8
      Byte(row, k) == [b \in 1 .. 8 |->
                         IF 8 * (k - 1) + b <= Len(row) THEN row[8 * (k - 1) + b] ELSE 0]
  IN [i \in 1 .. line * Len(bits) |-> Byte(bits[((i - 1) \div line) + 1], ((i - 1) % line) + 1)]

(* A byte is its bits here; a file is its header and its numbers, of one   *)
(* byte each, or of two in the older format (static short).                *)
XWriteBitmapFile(bits, hot) ==
  [width |-> Width(bits), height |-> Len(bits), version10p |-> FALSE,
   hot |-> IF hot[1] = -1 THEN <<-1, -1>> ELSE hot,
   values |-> [i \in DOMAIN Format_Image(bits) |-> <<Format_Image(bits)[i]>>]]

(* In the older format a row whose last number has no use for its second   *)
(* byte is padded, and the padding is left out.                            *)
XReadBitmapFileData(file) ==
  LET rest == file.width % 16
      padding == IF file.version10p /\ rest # 0 /\ rest < 9 THEN 1 ELSE 0
      line == (file.width + 7) \div 8 + padding
      numbers == line \div 2            \* of a row, in the older format
      kept == line - padding
      all == IF file.version10p
             THEN [i \in 1 .. kept * file.height |->
                     LET row == (i - 1) \div kept  k == (i - 1) % kept
                     IN file.values[row * numbers + (k \div 2) + 1][(k % 2) + 1]]
             ELSE [i \in 1 .. line * file.height |-> file.values[i][1]]
  IN [width |-> file.width, height |-> file.height, hot |-> file.hot, bits |-> all]

-----------------------------------------------------------------------------
(* Pixmaps have eight bits a pixel or more.                                *)
Zero == <<0, 0, 0, 0>>
Places(width, height) == (0 .. width - 1) \X (0 .. height - 1)
XPixmap(depth, width, height) ==
  [depth |-> IF depth < 8 THEN 8 ELSE depth, width |-> width, height |-> height,
   at |-> [p \in Places(width, height) |-> Zero]]

(* XCreateBitmapFromData: in B_GRAY1 the first pixel is the greatest bit,  *)
(* and a 1 is black.                                                       *)
ReversedBits(byte) == [b \in 1 .. 8 |-> byte[9 - b]]
Inverted(byte) == [b \in 1 .. 8 |-> 1 - byte[b]]
ImportGray1(pixmap, data, line) ==
  [pixmap EXCEPT !.at = [p \in DOMAIN @ |->
     IF data[p[2] * line + (p[1] \div 8) + 1][8 - (p[1] % 8)] = 1 THEN Zero ELSE <<255, 0, 0, 0>>]]

XCreateBitmapFromData(data, width, height) ==
  LET converted == [i \in DOMAIN data |-> Inverted(ReversedBits(data[i]))]
  IN ImportGray1(XPixmap(1, width, height), converted, (width + 7) \div 8)

(* Pixels that are put one after another, each at its point.               *)
PutPixels(image, pixels) ==
  LET Put(p, i) == ImagePutPixel(i, p[1], p[2], pixels[p]) IN FoldSet(Put, image, DOMAIN pixels)

(* XGetSubImage reads into a new bitmap, which the image becomes: of what  *)
(* the image had besides, nothing stays.  Nothing has cleared the bitmap:  *)
(* where nothing is read into it, it has what its memory had before.       *)
Left(memory, i) == IF i < Len(memory) THEN memory[i + 1] ELSE 0
XGetSubImage(pixmap, x, y, width, height, image, destX, destY, memory) ==
  LET Source(p) == <<p[1] - destX + x, p[2] - destY + y>>
      read == {p \in Places(image.width, image.height) :
                 /\ <<p[1] - destX, p[2] - destY>> \in Places(width, height)
                 /\ Source(p) \in DOMAIN pixmap.at}
  IN PutPixels([image EXCEPT !.data = [i \in DOMAIN @ |-> Left(memory, i)]],
               [p \in read |-> pixmap.at[Source(p)]])

XGetImage(pixmap, x, y, width, height, memory) ==
  XGetSubImage(pixmap, x, y, width, height, XCreateImage(pixmap.depth, width, height, 32), 0, 0, memory)

(* XCreatePixmapCursor, of a source with a mask; without one there is none. *)
Transparent == <<0, 0, 0, 0>>
XCreatePixmapCursor(source, mask, fg, bg, memory, memory2) ==
  LET w == source.width  h == source.height
      srcImg == XGetImage(source, 0, 0, w, h, memory)
      maskImg == XGetImage(mask, 0, 0, w, h, memory2)
      Color(p) == IF ImageGetPixel(maskImg, p[1], p[2]) = Zero THEN Transparent
                  ELSE IF ImageGetPixel(srcImg, p[1], p[2]) = Zero THEN bg ELSE fg
  IN PutPixels(XCreateImage(32, w, h, 32), [p \in Places(w, h) |-> Color(p)])

-----------------------------------------------------------------------------
(* One component of a color.  Numbers of n hexadecimal digits, and those of *)
(* the table of names, are shifted by eight bits into sixteen.             *)
Parsed(v) == (256 * v) % 65536
FromPixel(p) == 257 * p                 \* XQueryColors
ToPixel(c) == c \div 257                \* XParseColor, XAllocColor

(* FindColor: binary search, of the range from range[1] to range[2].       *)
FindColor(table, name) ==
  LET found[range \in (1 .. Len(table) + 1) \X (0 .. Len(table))] ==
        LET i == (range[1] + range[2]) \div 2
        IN IF range[1] > range[2] THEN 0
           ELSE IF table[i] = name THEN i
           ELSE IF name < table[i] THEN found[<<range[1], i - 1>>]
           ELSE found[<<i + 1, range[2]>>]
  IN found[<<1, Len(table)>>]

-----------------------------------------------------------------------------
Truncated(image, pixel) ==
  IF image.depth = 1 THEN <<IF pixel = <<0, 0, 0, 0>> THEN 0 ELSE 1, 0, 0, 0>>
  ELSE [b \in 1 .. 4 |-> IF b <= BytesOf(image) THEN pixel[b] ELSE 0]

(* Pixels written one after the other over a whole image of any depth, in   *)
(* any padding, are all read back, and each within the image's data.        *)
KeepsPixels(image) ==
  \A a, b \in Places(image.width, image.height),
     p, q \in {<<0, 0, 0, 0>>, <<1, 2, 3, 4>>, <<255, 255, 255, 255>>} :
    LET once == ImagePutPixel(image, a[1], a[2], p)
        twice == ImagePutPixel(once, b[1], b[2], q)
    IN /\ DOMAIN twice.data = DOMAIN image.data
       /\ ImageGetPixel(twice, b[1], b[2]) = Truncated(image, q)
       /\ a # b => ImageGetPixel(twice, a[1], a[2]) = Truncated(image, p)
PixelsAreKept ==
  \A depth \in Depths, width \in Widths, height \in Heights, pad \in Pads :
    KeepsPixels(XCreateImage(depth, width, height, pad))

(* Images of the formats that are listed are of those formats; a part of a *)
(* pixmap that is read is the pixmap's, wherever in an image it goes and   *)
(* whatever the memory had that it is read into.                           *)
FormatsAreTold ==
  /\ \A f \in XListPixmapFormats, width \in Widths :
       LET image == XCreateImage(f.depth, width, 1, f.scanline_pad)
       IN image.unit = f.bits_per_pixel /\ (8 * image.bytes_per_line) % f.scanline_pad = 0
  /\ \A bits \in Bits, x \in 0 .. 1, destX \in {0, 2}, memory \in Memories : Len(bits) > 1 =>
       LET pixmap == XCreateBitmapFromData(Format_Image(bits), Width(bits), Len(bits))
           image == XGetSubImage(pixmap, x, 1, 4, 1, XCreateImage(8, 7, 3, 32), destX, 2, memory)
       IN \A i \in 0 .. 3 : i + x < Width(bits) =>
            ImageGetPixel(image, i + destX, 2)[1] = 255 * bits[2][i + x + 1]

(* A cursor of two bitmaps (Cursor.cpp:95) has, at each point of the mask,  *)
(* the color of the source's bit where the mask has a 1, and nothing where  *)
(* it has a 0: the bits' orders, padding and inversion come to nothing.     *)
(* Where the mask does not reach, what memory had decides (Image.cpp:205)   *)
(* whether there is the source's color or nothing; there is no other.       *)
CursorsAreMasked == \A bits, mask \in Bits, memory, memory2 \in Memories :
  LET Bitmap(b) == XCreateBitmapFromData(Format_Image(b), Width(b), Len(b))
      fg == <<1, 2, 3, 255>>  bg == <<0, 0, 0, 255>>
      cursor == XCreatePixmapCursor(Bitmap(bits), Bitmap(mask), fg, bg, memory, memory2)
  IN \A p \in Places(Width(bits), Len(bits)) :
       LET pixel == ImageGetPixel(cursor, p[1], p[2])
           color == IF bits[p[2] + 1][p[1] + 1] = 1 THEN fg ELSE bg
       IN IF p \in Places(Width(mask), Len(mask))
          THEN pixel = IF mask[p[2] + 1][p[1] + 1] = 1 THEN color ELSE Transparent
          ELSE pixel \in {color, Transparent}

(* The same bitmap in the older format, as other programs write it: numbers *)
(* of two bytes, each row beginning with one of its own.                   *)
Older(bits, hot) ==
  LET line == (Width(bits) + 7) \div 8
      numbers == (Width(bits) + 15) \div 16
      bytes == Format_Image(bits)
      none == [b \in 1 .. 8 |-> 0]
      Byte(row, k) == IF k < line THEN bytes[row * line + k + 1] ELSE none
  IN [width |-> Width(bits), height |-> Len(bits), version10p |-> TRUE, hot |-> hot,
      values |-> [i \in 1 .. numbers * Len(bits) |->
                    LET row == (i - 1) \div numbers  k == 2 * ((i - 1) % numbers)
                    IN <<Byte(row, k), Byte(row, k + 1)>>]]

(* A bitmap that XWriteBitmapFile writes, or another program in either      *)
(* format, is read by XReadBitmapFileData with its size, its hot spot and   *)
(* every pixel, whatever width it has.                                     *)
BitmapsAreKept == \A bits \in Bits, hot \in {<<-1, -1>>, <<0, 1>>} :
  \A file \in {XWriteBitmapFile(bits, hot), Older(bits, hot)} :
    XReadBitmapFileData(file) =
      [width |-> Width(bits), height |-> Len(bits), hot |-> hot, bits |-> Format_Image(bits)]

(* Reading the color of a pixel and allocating it again gives the pixel;    *)
(* a color of two digits a component, or of the table, comes out at most    *)
(* one less; a name that is in the table is found, and no other.            *)
ColorsAreKept ==
  /\ \A p \in 0 .. 255 : ToPixel(FromPixel(p)) = p
  /\ \A v \in 0 .. 255 : ToPixel(Parsed(v)) \in {v - 1, v} \cap Nat
  /\ \A n \in 0 .. 8, name \in 0 .. 17 :
       LET table == [i \in 1 .. n |-> 2 * i]
           i == FindColor(table, name)
       IN IF \E j \in 1 .. n : table[j] = name THEN i \in 1 .. n /\ table[i] = name ELSE i = 0
=============================================================================
