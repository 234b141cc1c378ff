------------------------ MODULE FrameProcessorProofs ------------------------
(***************************************************************************)
(* Delta encoding for every screen and tile size, every set of colours and *)
(* every length of the queue.  First the arithmetic of tiles: they cover   *)
(* each pixel once, and copy_tile_to_frame puts back what extract_tile     *)
(* took.  Then the invariant: InStep speaks of the end of a recursion over *)
(* the queue, so Chain names the frames on the way.  Last, what the server *)
(* and the window make of it (FrameStream).                                *)
(***************************************************************************)
EXTENDS FrameStream, TLAPS, SequenceTheorems, WellFoundedInduction

-----------------------------------------------------------------------------
(* Division with remainder,                                                *)
LEMMA DivMod ==
  ASSUME NEW a \in Nat, NEW b \in Nat \ {0}
  PROVE  /\ a \div b \in Nat /\ a % b \in 0..(b - 1)
         /\ a = (a \div b) * b + (a % b)
OBVIOUS

(* and that there is only one.                                             *)
LEMMA DivUnique ==
  ASSUME NEW b \in Nat \ {0}, NEW q \in Nat, NEW r \in 0..(b - 1)
  PROVE  (q * b + r) \div b = q /\ (q * b + r) % b = r
<1> PICK a \in Nat : a = q * b + r
  OBVIOUS
<1> PICK p \in Nat, s \in 0..(b - 1) : p = a \div b /\ s = a % b
  BY DivMod
<1>1. p * b + s = q * b + r
  BY DivMod
<1>2. ASSUME NEW m \in Nat, NEW n \in Nat, NEW u \in 0..(b - 1), NEW v \in 0..(b - 1),
             m * b + u = n * b + v, m < n
      PROVE  FALSE
  <2>1. PICK k \in Nat : n = m + 1 + k
    <3>1. n - m - 1 \in Nat /\ n = m + 1 + (n - m - 1)
      BY <1>2
    <3> QED
      BY <3>1
  <2>2. n * b = m * b + b + k * b /\ k * b \in Nat /\ m * b \in Nat
    BY <2>1
  <2> QED
    BY <1>2, <2>2
<1>3. ~(p < q) /\ ~(q < p)
  BY <1>1, <1>2
<1>4. p = q
  BY <1>3
<1> QED
  BY <1>1, <1>4

(* Column and row of an index into w columns and h rows,                   *)
LEMMA CellOf ==
  ASSUME NEW w \in Nat \ {0}, NEW h \in Nat \ {0}, NEW k \in 0..(w * h - 1)
  PROVE  /\ k \in Nat /\ k % w \in 0..(w - 1) /\ k \div w \in 0..(h - 1)
         /\ k = (k \div w) * w + (k % w)
<1>1. k \in Nat /\ k < w * h
  OBVIOUS
<1>2. k % w \in 0..(w - 1) /\ k \div w \in Nat /\ k = (k \div w) * w + (k % w)
  BY <1>1, DivMod
<1> PICK q \in Nat : q = k \div w
  BY <1>2
<1>3. ASSUME q >= h PROVE FALSE
  <2>1. PICK d \in Nat : q = h + d
    <3>1. q - h \in Nat /\ q = h + (q - h)
      BY <1>3
    <3> QED
      BY <3>1
  <2>2. q * w = w * h + d * w /\ d * w \in Nat /\ w * h \in Nat
    BY <2>1
  <2> QED
    BY <1>1, <1>2, <2>2
<1>4. q \in 0..(h - 1)
  BY <1>3
<1> QED
  BY <1>1, <1>2, <1>4

(* and back.                                                               *)
LEMMA IndexOf ==
  ASSUME NEW w \in Nat \ {0}, NEW h \in Nat \ {0}, NEW i \in 0..(w - 1), NEW j \in 0..(h - 1)
  PROVE  /\ j * w + i \in 0..(w * h - 1)
         /\ (j * w + i) % w = i /\ (j * w + i) \div w = j
<1>1. PICK d \in Nat : h = j + 1 + d
  <2>1. h - j - 1 \in Nat /\ h = j + 1 + (h - j - 1)
    OBVIOUS
  <2> QED
    BY <2>1
<1>2. w * h = j * w + w + d * w /\ d * w \in Nat /\ j * w \in Nat
  BY <1>1
<1>3. j * w + i \in 0..(w * h - 1)
  BY <1>2
<1> QED
  BY <1>3, DivUnique

(* The same for the pixels of the screen.                                  *)
LEMMA PixelOf ==
  ASSUME NEW o \in Offsets
  PROVE  /\ o \in Nat
         /\ o % Width \in 0..(Width - 1) /\ o \div Width \in 0..(Height - 1)
         /\ Offset(o % Width, o \div Width) = o
  BY SizeAssumption, CellOf DEF Offsets, Offset

LEMMA OffsetOf ==
  ASSUME NEW px \in 0..(Width - 1), NEW py \in 0..(Height - 1)
  PROVE  /\ Offset(px, py) \in Offsets
         /\ Offset(px, py) % Width = px /\ Offset(px, py) \div Width = py
  BY SizeAssumption, IndexOf DEF Offset, Offsets

-----------------------------------------------------------------------------
(* Tiles in a row of n pixels: those that begin within it.                 *)
LEMMA TilesAcross ==
  ASSUME NEW n \in Nat \ {0}, NEW t \in Nat
  PROVE  /\ (n + TILE_SIZE - 1) \div TILE_SIZE \in Nat
         /\ t \in 0..((n + TILE_SIZE - 1) \div TILE_SIZE - 1) <=> t * TILE_SIZE < n
<1>1. TILE_SIZE \in Nat \ {0} /\ n + TILE_SIZE - 1 \in Nat
  BY SizeAssumption
<1> PICK c \in Nat, s \in 0..(TILE_SIZE - 1) :
        /\ c = (n + TILE_SIZE - 1) \div TILE_SIZE
        /\ n + TILE_SIZE - 1 = c * TILE_SIZE + s
  BY <1>1, DivMod
<1>2. CASE t < c
  <2>1. PICK k \in Nat : c = t + 1 + k
    <3>1. c - t - 1 \in Nat /\ c = t + 1 + (c - t - 1)
      BY <1>2
    <3> QED
      BY <3>1
  <2>2. /\ c * TILE_SIZE = t * TILE_SIZE + TILE_SIZE + k * TILE_SIZE
        /\ k * TILE_SIZE \in Nat /\ t * TILE_SIZE \in Nat
    BY <1>1, <2>1
  <2>3. t * TILE_SIZE < n
    BY <1>1, <2>2
  <2> QED
    BY <1>2, <2>3
<1>3. CASE ~(t < c)
  <2>1. PICK k \in Nat : t = c + k
    <3>1. t - c \in Nat /\ t = c + (t - c)
      BY <1>3
    <3> QED
      BY <3>1
  <2>2. /\ t * TILE_SIZE = c * TILE_SIZE + k * TILE_SIZE
        /\ k * TILE_SIZE \in Nat /\ c * TILE_SIZE \in Nat
    BY <1>1, <2>1
  <2>3. ~(t * TILE_SIZE < n)
    BY <1>1, <2>2
  <2> QED
    BY <1>3, <2>3
<1> QED
  BY <1>2, <1>3

(* The tile of a pixel begins within the row, at or before the pixel.      *)
LEMMA TileAt ==
  ASSUME NEW n \in Nat \ {0}, NEW p \in 0..(n - 1)
  PROVE  /\ p \div TILE_SIZE \in 0..((n + TILE_SIZE - 1) \div TILE_SIZE - 1)
         /\ p \div TILE_SIZE \in Nat /\ p % TILE_SIZE \in 0..(TILE_SIZE - 1)
         /\ p = (p \div TILE_SIZE) * TILE_SIZE + (p % TILE_SIZE)
<1>1. TILE_SIZE \in Nat \ {0} /\ p \in Nat
  BY SizeAssumption
<1> PICK t \in Nat, s \in 0..(TILE_SIZE - 1) :
        t = p \div TILE_SIZE /\ s = p % TILE_SIZE /\ p = t * TILE_SIZE + s
  BY <1>1, DivMod
<1>2. t * TILE_SIZE < n
  <2>1. t * TILE_SIZE \in Nat
    BY <1>1
  <2> QED
    BY <2>1
<1> QED
  BY <1>2, TilesAcross

(* A rectangle find_changed_tiles visits lies within the screen.           *)
LEMMA RectFacts ==
  ASSUME NEW tx \in 0..(tile_width - 1), NEW ty \in 0..(tile_height - 1)
  PROVE  LET r == Rect(tx, ty)
         IN  /\ tx \in Nat /\ ty \in Nat
             /\ r.x = tx * TILE_SIZE /\ r.y = ty * TILE_SIZE /\ r.x \in Nat /\ r.y \in Nat
             /\ r.w = AtMost(TILE_SIZE, Width - r.x) /\ r.h = AtMost(TILE_SIZE, Height - r.y)
             /\ r.w \in 1..TILE_SIZE /\ r.h \in 1..TILE_SIZE
             /\ r.x + r.w <= Width /\ r.y + r.h <= Height
<1> DEFINE r == Rect(tx, ty)
<1>1. tx \in Nat /\ ty \in Nat
  BY TilesAcross, SizeAssumption DEF tile_width, tile_height
<1>2. tx * TILE_SIZE < Width /\ ty * TILE_SIZE < Height
  BY <1>1, TilesAcross, SizeAssumption DEF tile_width, tile_height
<1> PICK x \in Nat, y \in Nat : x = tx * TILE_SIZE /\ y = ty * TILE_SIZE
  BY <1>1, SizeAssumption
<1>3. /\ r.x = x /\ r.y = y
      /\ r.w = AtMost(TILE_SIZE, Width - x) /\ r.h = AtMost(TILE_SIZE, Height - y)
  BY DEF Rect
<1> HIDE DEF r
<1>4. /\ r.w \in 1..TILE_SIZE /\ x + r.w <= Width
      /\ r.h \in 1..TILE_SIZE /\ y + r.h <= Height
  BY <1>2, <1>3, SizeAssumption DEF AtMost
<1> QED
  BY <1>1, <1>3, <1>4 DEF r

(* The same, without the place in the grid.                                *)
LEMMA RectType ==
  ASSUME NEW r \in Rects
  PROVE  /\ r.x \in Nat /\ r.y \in Nat /\ r.w \in 1..TILE_SIZE /\ r.h \in 1..TILE_SIZE
         /\ r.x + r.w <= Width /\ r.y + r.h <= Height
<1> PICK tx \in 0..(tile_width - 1), ty \in 0..(tile_height - 1) : r = Rect(tx, ty)
  BY DEF Rects
<1> QED
  BY RectFacts

(* A pixel of the row that is within TILE_SIZE of a tile's begin is within *)
(* the tile, be it cut off.                                                *)
LEMMA WithinTile ==
  ASSUME NEW n \in Nat, NEW x \in Nat, NEW i \in 0..(TILE_SIZE - 1), x + i \in 0..(n - 1)
  PROVE  /\ i < AtMost(TILE_SIZE, n - x) /\ x + i >= x
         /\ x + i < x + AtMost(TILE_SIZE, n - x)
  BY SizeAssumption DEF AtMost

(* The tile of pixel o.                                                    *)
TileOf(o) == Rect((o % Width) \div TILE_SIZE, (o \div Width) \div TILE_SIZE)

(* Every pixel is in the tile its column and row give,                     *)
LEMMA TileCovers ==
  ASSUME NEW o \in Offsets
  PROVE  /\ TileOf(o) \in Rects /\ Covers(TileOf(o), o)
         /\ o % Width = TileOf(o).x + ((o % Width) % TILE_SIZE)
         /\ o \div Width = TileOf(o).y + ((o \div Width) % TILE_SIZE)
         /\ TileOf(o).w = AtMost(TILE_SIZE, Width - TileOf(o).x)
         /\ TileOf(o).h = AtMost(TILE_SIZE, Height - TileOf(o).y)
<1> DEFINE r == TileOf(o)
<1>1. PICK px \in 0..(Width - 1), py \in 0..(Height - 1) : px = o % Width /\ py = o \div Width
  BY PixelOf
<1>2. Width \in Nat \ {0} /\ Height \in Nat \ {0} /\ TILE_SIZE \in Nat \ {0}
  BY SizeAssumption
<1>3. PICK tx \in 0..(tile_width - 1), i \in 0..(TILE_SIZE - 1) :
         tx = px \div TILE_SIZE /\ i = px % TILE_SIZE /\ px = tx * TILE_SIZE + i
  BY <1>2, TileAt DEF tile_width
<1>4. PICK ty \in 0..(tile_height - 1), j \in 0..(TILE_SIZE - 1) :
         ty = py \div TILE_SIZE /\ j = py % TILE_SIZE /\ py = ty * TILE_SIZE + j
  BY <1>2, TileAt DEF tile_height
<1>5. r = Rect(tx, ty)
  BY <1>1, <1>3, <1>4 DEF TileOf
<1>6. r \in Rects
  BY <1>5 DEF Rects
<1> HIDE DEF r
<1>7. /\ r.x = tx * TILE_SIZE /\ r.y = ty * TILE_SIZE /\ r.x \in Nat /\ r.y \in Nat
      /\ r.w = AtMost(TILE_SIZE, Width - r.x) /\ r.h = AtMost(TILE_SIZE, Height - r.y)
  BY <1>5, RectFacts
<1>8. px = r.x + i /\ py = r.y + j
  BY <1>3, <1>4, <1>7
<1>9. px >= r.x /\ px < r.x + r.w
  <2>1. r.x + i \in 0..(Width - 1)
    BY <1>8
  <2> QED
    BY <1>2, <1>7, <1>8, <2>1, WithinTile
<1>10. py >= r.y /\ py < r.y + r.h
  <2>1. r.y + j \in 0..(Height - 1)
    BY <1>8
  <2> QED
    BY <1>2, <1>7, <1>8, <2>1, WithinTile
<1>11. Covers(r, o)
  BY <1>1, <1>9, <1>10 DEF Covers
<1> QED
  BY <1>1, <1>3, <1>4, <1>6, <1>7, <1>8, <1>11 DEF r

(* and in no other: the order in which tiles are copied does not matter.   *)
LEMMA TileUnique ==
  ASSUME NEW o \in Offsets, NEW r \in Rects, Covers(r, o)
  PROVE  r = TileOf(o)
<1> PICK tx \in 0..(tile_width - 1), ty \in 0..(tile_height - 1) : r = Rect(tx, ty)
  BY DEF Rects
<1>1. /\ tx \in Nat /\ ty \in Nat
      /\ r.x = tx * TILE_SIZE /\ r.y = ty * TILE_SIZE /\ r.x \in Nat /\ r.y \in Nat
      /\ r.w \in 1..TILE_SIZE /\ r.h \in 1..TILE_SIZE
  BY RectFacts
<1> PICK px \in 0..(Width - 1), py \in 0..(Height - 1) : px = o % Width /\ py = o \div Width
  BY PixelOf
<1>2. px >= r.x /\ px < r.x + r.w /\ py >= r.y /\ py < r.y + r.h
  BY DEF Covers
<1>0. TILE_SIZE \in Nat \ {0} /\ px \in Nat /\ py \in Nat
  BY SizeAssumption
<1>3. PICK i \in 0..(TILE_SIZE - 1), j \in 0..(TILE_SIZE - 1) : px = r.x + i /\ py = r.y + j
  <2>1. /\ px - r.x \in 0..(TILE_SIZE - 1) /\ px = r.x + (px - r.x)
        /\ py - r.y \in 0..(TILE_SIZE - 1) /\ py = r.y + (py - r.y)
    BY <1>0, <1>1, <1>2
  <2> QED
    BY <2>1
<1>4. px \div TILE_SIZE = tx /\ py \div TILE_SIZE = ty
  <2>1. (tx * TILE_SIZE + i) \div TILE_SIZE = tx /\ (ty * TILE_SIZE + j) \div TILE_SIZE = ty
    BY <1>0, <1>1, DivUnique
  <2>2. px = tx * TILE_SIZE + i /\ py = ty * TILE_SIZE + j
    BY <1>1, <1>3
  <2> QED
    BY <2>1, <2>2
<1> QED
  BY <1>4 DEF TileOf
-----------------------------------------------------------------------------
(* Where a pixel of the screen is in the data of a tile that covers it.    *)
IndexIn(r, o) == RowStart(r, o) + ((o % Width) - r.x)

(* extract_tile takes as many pixels as the tile has, so that the row of a *)
(* pixel is there, and at the index where copy_tile_to_frame looks for a   *)
(* pixel is that pixel.                                                    *)
LEMMA ExtractTile ==
  ASSUME NEW frame \in Frames, NEW r \in Rects
  PROVE  /\ extract_tile(frame, r) \in [0..(r.w * r.h - 1) -> Colors]
         /\ \A o \in Offsets : Covers(r, o) =>
              /\ RowStart(r, o) + (r.w - 1) \in DOMAIN extract_tile(frame, r)
              /\ extract_tile(frame, r)[IndexIn(r, o)] = frame[o]
<1>1. /\ r.x \in Nat /\ r.y \in Nat /\ r.w \in Nat \ {0} /\ r.h \in Nat \ {0}
      /\ r.x + r.w <= Width /\ r.y + r.h <= Height
  BY RectType, SizeAssumption
<1>2. PICK x \in Nat, y \in Nat, w \in Nat \ {0}, h \in Nat \ {0} :
        x = r.x /\ y = r.y /\ w = r.w /\ h = r.h
  BY <1>1
<1>3. ASSUME NEW i \in 0..(w - 1), NEW j \in 0..(h - 1)
      PROVE  x + i \in 0..(Width - 1) /\ y + j \in 0..(Height - 1)
  <2>1. x + w <= Width /\ y + h <= Height
    BY <1>1, <1>2
  <2> QED
    BY <2>1, SizeAssumption
<1>4. extract_tile(frame, r) \in [0..(w * h - 1) -> Colors]
  <2> SUFFICES ASSUME NEW k \in 0..(w * h - 1)
               PROVE  frame[Offset(x + (k % w), y + (k \div w))] \in Colors
    BY <1>2 DEF extract_tile
  <2>1. k % w \in 0..(w - 1) /\ k \div w \in 0..(h - 1)
    BY CellOf
  <2>2. Offset(x + (k % w), y + (k \div w)) \in Offsets
    BY <1>3, <2>1, OffsetOf
  <2> QED
    BY <2>2 DEF Frames
<1>5. ASSUME NEW o \in Offsets, Covers(r, o)
      PROVE  /\ RowStart(r, o) + (r.w - 1) \in DOMAIN extract_tile(frame, r)
             /\ extract_tile(frame, r)[IndexIn(r, o)] = frame[o]
  <2>1. PICK px \in 0..(Width - 1), py \in 0..(Height - 1) : px = o % Width /\ py = o \div Width
    BY PixelOf
  <2>2. PICK i \in 0..(w - 1), j \in 0..(h - 1) : px = x + i /\ py = y + j
    <3>1. px >= x /\ px < x + w /\ py >= y /\ py < y + h
      BY <1>2, <1>5, <2>1 DEF Covers
    <3>2. /\ px - x \in 0..(w - 1) /\ px = x + (px - x)
          /\ py - y \in 0..(h - 1) /\ py = y + (py - y)
      BY <3>1, SizeAssumption
    <3> QED
      BY <3>2
  <2>3. IndexIn(r, o) = j * w + i /\ RowStart(r, o) = j * w
    <3>1. py - y = j /\ px - x = i
      BY <2>2
    <3> QED
      BY <1>2, <2>1, <3>1 DEF IndexIn, RowStart
  <2>4. /\ j * w + i \in 0..(w * h - 1)
        /\ (j * w + i) % w = i /\ (j * w + i) \div w = j
    BY IndexOf
  <2>5. extract_tile(frame, r)[j * w + i] = frame[Offset(x + i, y + j)]
    BY <1>2, <2>4 DEF extract_tile
  <2>6. Offset(x + i, y + j) = o
    BY <2>1, <2>2, PixelOf
  <2>7. RowStart(r, o) + (r.w - 1) \in DOMAIN extract_tile(frame, r)
    <3>1. w - 1 \in 0..(w - 1)
      OBVIOUS
    <3>2. j * w + (w - 1) \in 0..(w * h - 1)
      BY <3>1, IndexOf
    <3> QED
      BY <1>2, <1>4, <2>3, <3>2
  <2> QED
    BY <2>3, <2>5, <2>6, <2>7
<1> QED
  BY <1>2, <1>4, <1>5

(* find_changed_tiles makes tiles.                                         *)
LEMMA ChangedTiles ==
  ASSUME NEW prev, NEW curr \in Frames
  PROVE  find_changed_tiles(prev, curr) \in SUBSET Tiles
<1> SUFFICES ASSUME NEW r \in Rects
             PROVE  [rect |-> r, data |-> extract_tile(curr, r)] \in Tiles
  BY DEF find_changed_tiles
<1>1. extract_tile(curr, r) \in [0..(r.w * r.h - 1) -> Colors]
  BY ExtractTile
<1>2. [rect |-> r, data |-> extract_tile(curr, r)]
          \in [rect : {r}, data : [0..(r.w * r.h - 1) -> Colors]]
  BY <1>1
<1> QED
  BY <1>2 DEF Tiles

(* The changed tiles, copied into any frame: the pixels of the tiles that  *)
(* have changed are those of the new frame, the others stay.               *)
LEMMA CopyChanged ==
  ASSUME NEW frame \in Frames, NEW prev, NEW curr \in Frames
  PROVE  LET copy == copy_tiles(frame, find_changed_tiles(prev, curr))
         IN  /\ copy \in Frames
             /\ \A o \in Offsets :
                  copy[o] = IF is_tile_changed(prev, curr, TileOf(o)) THEN curr[o] ELSE frame[o]
<1> DEFINE tiles == find_changed_tiles(prev, curr)
           copy == copy_tiles(frame, tiles)
<1>1. ASSUME NEW t \in tiles
      PROVE  /\ t.rect \in Rects /\ is_tile_changed(prev, curr, t.rect)
             /\ t.data = extract_tile(curr, t.rect)
  BY DEF find_changed_tiles
<1>2. ASSUME NEW r \in Rects, is_tile_changed(prev, curr, r)
      PROVE  \E t \in tiles : t.rect = r
  <2>1. [rect |-> r, data |-> extract_tile(curr, r)] \in tiles
    BY <1>2 DEF find_changed_tiles
  <2> QED
    BY <2>1
<1> HIDE DEF tiles
<1>3. ASSUME NEW o \in Offsets
      PROVE  copy[o] = IF is_tile_changed(prev, curr, TileOf(o)) THEN curr[o] ELSE frame[o]
  <2> DEFINE onto == {t \in tiles : /\ Covers(t.rect, o)
                                   /\ RowStart(t.rect, o) + (t.rect.w - 1) \in DOMAIN t.data}
             tile == CHOOSE t \in onto : TRUE
  <2>0. copy[o] = IF onto # {} THEN tile.data[IndexIn(tile.rect, o)] ELSE frame[o]
    BY DEF copy_tiles, IndexIn
  <2> HIDE DEF copy
  <2>1. CASE onto # {}
    <3>1. tile \in onto
      BY <2>1
    <3>2. tile \in tiles /\ Covers(tile.rect, o)
      BY <3>1
    <3> HIDE DEF tile, onto
    <3>3. tile.rect \in Rects /\ is_tile_changed(prev, curr, tile.rect)
      BY <1>1, <3>2
    <3>4. tile.rect = TileOf(o)
      BY <3>2, <3>3, TileUnique
    <3>5. tile.data[IndexIn(tile.rect, o)] = curr[o]
      BY <1>1, <3>2, <3>3, ExtractTile
    <3> QED
      BY <2>0, <2>1, <3>3, <3>4, <3>5
  <2>2. CASE onto = {}
    <3>1. ASSUME is_tile_changed(prev, curr, TileOf(o)) PROVE FALSE
      <4>1. TileOf(o) \in Rects /\ Covers(TileOf(o), o)
        BY TileCovers
      <4>2. PICK t \in tiles : t.rect = TileOf(o)
        BY <1>2, <3>1, <4>1
      <4>3. t.data = extract_tile(curr, TileOf(o))
        BY <1>1, <4>2
      <4>4. RowStart(TileOf(o), o) + (TileOf(o).w - 1) \in DOMAIN extract_tile(curr, TileOf(o))
        BY <4>1, ExtractTile
      <4>5. t \in onto
        BY <4>1, <4>2, <4>3, <4>4
      <4> QED
        BY <2>2, <4>5
    <3> QED
      BY <2>0, <2>2, <3>1
  <2> QED
    BY <2>1, <2>2
<1>4. copy = [o \in Offsets |-> copy[o]]
  BY DEF copy_tiles
<1> HIDE DEF copy
<1>5. \A o \in Offsets : copy[o] \in Colors
  BY <1>3 DEF Frames
<1>6. copy \in Frames
  BY <1>4, <1>5 DEF Frames
<1> QED
  BY <1>3, <1>6 DEF copy, tiles
-----------------------------------------------------------------------------
(* The shortcut of is_tile_changed: a difference it does not see is at no  *)
(* corner of its tile.                                                     *)
Inside(o) ==
    LET x == (o % Width) % TILE_SIZE
        y == (o \div Width) % TILE_SIZE
    IN  /\ TILE_SIZE > 2
        /\ \/ x # 0 /\ x # TILE_SIZE - 1 /\ o % Width # Width - 1
           \/ y # 0 /\ y # TILE_SIZE - 1 /\ o \div Width # Height - 1

LEMMA SampledCorners ==
  ASSUME NEW prev, NEW curr, NEW o \in Offsets, ~is_tile_changed(prev, curr, TileOf(o)),
         prev[o] # curr[o]
  PROVE  Inside(o)
<1> DEFINE r == TileOf(o)
<1>1. r \in Rects /\ Covers(r, o)
  BY TileCovers
<1>2. PICK px \in 0..(Width - 1), py \in 0..(Height - 1) : px = o % Width /\ py = o \div Width
  BY PixelOf
<1>3. PICK x \in Nat, y \in Nat, w \in 1..TILE_SIZE, h \in 1..TILE_SIZE :
         /\ x = r.x /\ y = r.y /\ w = r.w /\ h = r.h
         /\ x + w <= Width /\ y + h <= Height
  BY <1>1, RectType
<1>4. TILE_SIZE \in Nat \ {0} /\ Width \in Nat \ {0} /\ Height \in Nat \ {0}
  BY SizeAssumption
<1>5. PICK i \in 0..(TILE_SIZE - 1), j \in 0..(TILE_SIZE - 1) :
         i = px % TILE_SIZE /\ j = py % TILE_SIZE
  <2>1. px \in Nat /\ py \in Nat
    BY <1>4
  <2>2. px % TILE_SIZE \in 0..(TILE_SIZE - 1) /\ py % TILE_SIZE \in 0..(TILE_SIZE - 1)
    BY <1>4, <2>1, DivMod
  <2> QED
    BY <2>2
<1>6. px = x + i /\ py = y + j
  BY <1>2, <1>3, <1>5, TileCovers
<1>7. i < w /\ j < h
  <2>1. px < x + w /\ py < y + h
    BY <1>1, <1>2, <1>3 DEF Covers
  <2> QED
    BY <1>4, <1>6, <2>1
<1>8. ~(i \in {0, w - 1} /\ j \in {0, h - 1})
  <2> SUFFICES ASSUME i \in {0, w - 1}, j \in {0, h - 1} PROVE FALSE
    OBVIOUS
  <2>1. <<i, j>> \in SamplePoints(r)
    BY <1>3 DEF SamplePoints
  <2>2. r.x + <<i, j>>[1] = px /\ r.y + <<i, j>>[2] = py
    BY <1>3, <1>6
  <2>3. px < Width /\ py < Height
    BY <1>4
  <2>4. Offset(px, py) \in Samples(r)
    BY <2>1, <2>2, <2>3 DEF Samples
  <2>5. o \in Samples(r)
    BY <1>2, <2>4, PixelOf
  <2> QED
    BY <2>5 DEF is_tile_changed
<1> HIDE DEF r
<1>9. x + w <= Width /\ y + h <= Height
  BY <1>3
<1>10. /\ i = TILE_SIZE - 1 \/ px = Width - 1 => i = w - 1
       /\ j = TILE_SIZE - 1 \/ py = Height - 1 => j = h - 1
  BY <1>4, <1>6, <1>7, <1>9
<1>11. \/ i # 0 /\ i # TILE_SIZE - 1 /\ px # Width - 1
       \/ j # 0 /\ j # TILE_SIZE - 1 /\ py # Height - 1
  BY <1>8, <1>10
<1>12. TILE_SIZE > 2
  BY <1>4, <1>11
<1> QED
  BY <1>2, <1>5, <1>11, <1>12 DEF Inside

-----------------------------------------------------------------------------
(* A set of natural numbers that is not empty has a smallest element.  The *)
(* induction over the queue rests on this.                                 *)
LEMMA Smallest ==
  ASSUME NEW T \in SUBSET Nat, T # {}
  PROVE  \E x \in T : \A y \in T : x <= y
<1> DEFINE R == {ss \in Nat \X Nat : ss[1] < ss[2]}
<1>1. IsWellFoundedOn(R, Nat)
  BY NatLessThanWellFounded DEF OpToRel
<1>2. PICK x \in T : \A y \in T : ~(<<y, x>> \in R)
  BY <1>1, WFMin
<1>3. ASSUME NEW y \in T PROVE x <= y
  <2>1. x \in Nat /\ y \in Nat
    OBVIOUS
  <2>2. ASSUME y < x PROVE FALSE
    <3>1. <<y, x>> \in Nat \X Nat /\ <<y, x>>[1] = y /\ <<y, x>>[2] = x
      BY <2>1
    <3>2. <<y, x>> \in R
      BY <2>2, <3>1
    <3> QED
      BY <1>2, <3>2
  <2> QED
    BY <2>1, <2>2
<1> QED
  BY <1>3

(* f lists the receiver's frames while it applies the messages of q.       *)
Lists(f, frame, q) ==
    f = [i \in 0..Len(q) |-> IF i = 0 THEN frame ELSE Apply(f[i - 1], q[i])]

(* There is only one such list, and Applied is its end.                    *)
LEMMA AppliedIs ==
  ASSUME NEW frame, NEW q, Len(q) \in Nat, NEW f, Lists(f, frame, q)
  PROVE  Applied(frame, q) = f[Len(q)]
<1> DEFINE g == CHOOSE g : Lists(g, frame, q)
<1>1. Applied(frame, q) = g[Len(q)]
  BY DEF Applied, Lists
<1>2. Lists(g, frame, q)
  OBVIOUS
<1> HIDE DEF g
<1> PICK n \in Nat : n = Len(q)
  OBVIOUS
<1> DEFINE T == {i \in 0..n : g[i] # f[i]}
<1>3. T = {}
  <2> SUFFICES ASSUME T # {} PROVE FALSE
    OBVIOUS
  <2>1. PICK m \in T : \A i \in T : m <= i
    <3>1. T \in SUBSET Nat
      OBVIOUS
    <3> HIDE DEF T
    <3> QED
      BY <3>1, Smallest
  <2>2. m \in 0..n /\ g[m] # f[m]
    OBVIOUS
  <2>3. m # 0
    BY <1>2, <2>2 DEF Lists
  <2>4. m - 1 \in 0..n /\ ~(m <= m - 1)
    BY <2>2, <2>3
  <2>5. g[m - 1] = f[m - 1]
    BY <2>1, <2>4
  <2> QED
    BY <1>2, <2>2, <2>3, <2>5 DEF Lists
<1> QED
  BY <1>1, <1>3
-----------------------------------------------------------------------------
(* The frames the receiver will have, from the one it has to the sender's  *)
(* copy: InStep with the steps in between.                                 *)
Chain ==
    \E f \in [0..Len(queue) -> Frames \cup {None}] :
        Lists(f, received, queue) /\ f[Len(queue)] = last_frame

Inv == TypeOK /\ Chain /\ StaleOnlyInside

(* Before the first frame there is nothing on either side.                 *)
LEMMA InitInv ==
  ASSUME Init
  PROVE  Inv
<1>1. TypeOK
  BY DEF Init, TypeOK
<1>2. Chain
  <2> DEFINE f == [i \in 0..0 |-> None]
  <2>1. Len(queue) = 0
    BY DEF Init
  <2>2. f \in [0..Len(queue) -> Frames \cup {None}] /\ f[Len(queue)] = last_frame
    BY <2>1 DEF Init
  <2>3. Lists(f, received, queue)
    <3>1. \A i \in 0..0 : i = 0
      OBVIOUS
    <3> QED
      BY <2>1, <3>1 DEF Init, Lists
  <2> QED
    BY <2>2, <2>3 DEF Chain
<1>3. StaleOnlyInside
  BY DEF Init, StaleOnlyInside
<1> QED
  BY <1>1, <1>2, <1>3 DEF Inv

(* process_frame: the message is well-formed, it turns the sender's copy   *)
(* into the new one, and the copy misses the screen only inside of tiles.  *)
LEMMA Processed ==
  ASSUME TypeOK, NEW frame \in Frames, NEW force_keyframe \in BOOLEAN
  PROVE  LET p == process_frame(frame, force_keyframe)
         IN  /\ p.out \in Messages /\ p.last_frame = Apply(last_frame, p.out)
             /\ p.last_frame \in Frames
             /\ \A o \in Offsets : frame[o] # p.last_frame[o] => Inside(o)
<1> DEFINE changed == find_changed_tiles(last_frame, frame)
           key == \/ last_frame = None \/ force_keyframe
                  \/ Cardinality(changed) > (tile_width * tile_height * 6) \div 10
           p == process_frame(frame, force_keyframe)
<1>1. CASE key
  <2>1. KeyFrame(frame) \in Messages
    BY DEF KeyFrame, Messages
  <2>2. p.out = KeyFrame(frame) /\ p.last_frame = frame
    BY <1>1 DEF process_frame
  <2>3. Apply(last_frame, KeyFrame(frame)) = frame
    BY DEF Apply, KeyFrame
  <2> QED
    BY <2>1, <2>2, <2>3
<1>2. CASE ~key
  <2>1. last_frame \in Frames /\ last_frame # None
    BY <1>2 DEF TypeOK
  <2>2. DeltaFrame(changed) \in Messages
    BY ChangedTiles DEF DeltaFrame, Messages
  <2>3. p.out = DeltaFrame(changed) /\ p.last_frame = copy_tiles(last_frame, changed)
    BY <1>2 DEF process_frame
  <2>4. Apply(last_frame, DeltaFrame(changed)) = copy_tiles(last_frame, changed)
    BY <2>1 DEF Apply, DeltaFrame
  <2>5. /\ p.last_frame \in Frames
        /\ \A o \in Offsets :
             p.last_frame[o] = IF is_tile_changed(last_frame, frame, TileOf(o))
                               THEN frame[o] ELSE last_frame[o]
    BY <2>1, <2>3, CopyChanged
  <2>6. \A o \in Offsets : frame[o] # p.last_frame[o] => Inside(o)
    BY <2>5, SampledCorners
  <2> QED
    BY <2>2, <2>3, <2>4, <2>5, <2>6
<1> QED
  BY <1>1, <1>2

(* A processed frame puts one more step at the end of the chain.            *)
LEMMA ProcessInv ==
  ASSUME Inv, Process
  PROVE  Inv'
<1>0. TypeOK /\ queue \in Seq(Messages) /\ UNCHANGED received
  BY DEF Inv, TypeOK, Process
<1>1. PICK frame \in Screens, force_keyframe \in BOOLEAN :
         LET processed == process_frame(frame, force_keyframe)
         IN  /\ screen' = frame
             /\ last_frame' = processed.last_frame
             /\ queue' = Append(queue, processed.out)
  BY DEF Process
<1>2. frame \in Frames
  BY ScreensAssumption
<1>3. PICK m \in Messages :
         /\ queue' = Append(queue, m) /\ last_frame' = Apply(last_frame, m)
         /\ last_frame' \in Frames
         /\ \A o \in Offsets : frame[o] # last_frame'[o] => Inside(o)
  BY <1>0, <1>1, <1>2, Processed
<1>4. PICK n \in Nat : n = Len(queue)
  BY <1>0, LenProperties
<1>5. /\ queue' \in Seq(Messages) /\ Len(queue') = n + 1
      /\ \A i \in 1..n : queue'[i] = queue[i]
      /\ queue'[n + 1] = m
  BY <1>0, <1>3, <1>4, AppendProperties
<1>6. TypeOK'
  BY <1>0, <1>1, <1>2, <1>3, <1>5 DEF TypeOK
<1>7. Chain'
  <2>1. PICK f \in [0..n -> Frames \cup {None}] :
           Lists(f, received, queue) /\ f[n] = last_frame
    BY <1>4 DEF Inv, Chain
  <2> DEFINE g == [i \in 0..(n + 1) |-> IF i = n + 1 THEN last_frame' ELSE f[i]]
  <2>2. g \in [0..(n + 1) -> Frames \cup {None}] /\ g[n + 1] = last_frame'
    BY <1>3
  <2>3. ASSUME NEW i \in 0..(n + 1)
        PROVE  g[i] = IF i = 0 THEN received ELSE Apply(g[i - 1], queue'[i])
    <3>1. CASE i = 0
      BY <1>4, <2>1, <3>1 DEF Lists
    <3>2. CASE i \in 1..n
      <4>1. g[i] = f[i] /\ g[i - 1] = f[i - 1] /\ i # 0
        BY <3>2
      <4>2. f[i] = Apply(f[i - 1], queue[i])
        BY <1>4, <2>1, <3>2 DEF Lists
      <4> QED
        BY <1>5, <3>2, <4>1, <4>2
    <3>3. CASE i = n + 1
      <4>1. g[i] = last_frame' /\ g[i - 1] = f[n] /\ i # 0
        BY <3>3
      <4> QED
        BY <1>3, <1>5, <2>1, <3>3, <4>1
    <3> QED
      BY <3>1, <3>2, <3>3
  <2> HIDE DEF g
  <2>4. Lists(g, received', queue')
    BY <1>0, <1>5, <2>2, <2>3 DEF Lists
  <2> QED
    BY <1>5, <2>2, <2>4 DEF Chain
<1>8. StaleOnlyInside'
  BY <1>1, <1>3 DEF StaleOnlyInside, Inside
<1> QED
  BY <1>6, <1>7, <1>8 DEF Inv

(* A received one takes the first step of it.                              *)
LEMMA ReceiveInv ==
  ASSUME Inv, Receive
  PROVE  Inv'
<1>0. /\ queue \in Seq(Messages) /\ queue # <<>> /\ UNCHANGED <<screen, last_frame>>
      /\ received' = Apply(received, Head(queue)) /\ queue' = Tail(queue)
  BY DEF Inv, TypeOK, Receive
<1>1. PICK n \in Nat : Len(queue) = n + 1
  <2>1. Len(queue) \in Nat /\ Len(queue) # 0
    BY <1>0, LenProperties, EmptySeq
  <2>2. Len(queue) - 1 \in Nat /\ Len(queue) = (Len(queue) - 1) + 1
    BY <2>1
  <2> QED
    BY <2>2
<1>2. /\ queue' \in Seq(Messages) /\ Len(queue') = n /\ Head(queue) = queue[1]
      /\ \A i \in 1..n : queue'[i] = queue[i + 1]
  BY <1>0, <1>1, HeadTailProperties
<1>3. PICK f \in [0..(n + 1) -> Frames \cup {None}] :
         Lists(f, received, queue) /\ f[n + 1] = last_frame
  BY <1>1 DEF Inv, Chain
<1>4. f[0] = received /\ \A i \in 1..(n + 1) : f[i] = Apply(f[i - 1], queue[i])
  BY <1>1, <1>3 DEF Lists
<1>5. received' = f[1] /\ f[1] \in Frames \cup {None}
  BY <1>0, <1>2, <1>4
<1> DEFINE g == [i \in 0..n |-> f[i + 1]]
<1>6. g \in [0..n -> Frames \cup {None}] /\ g[n] = last_frame'
  BY <1>0, <1>3
<1>7. ASSUME NEW i \in 0..n
      PROVE  g[i] = IF i = 0 THEN received' ELSE Apply(g[i - 1], queue'[i])
  <2>1. CASE i = 0
    BY <1>5, <2>1
  <2>2. CASE i # 0
    <3>1. /\ i \in 1..n /\ i + 1 \in 1..(n + 1) /\ (i + 1) - 1 = i
          /\ g[i] = f[i + 1] /\ g[i - 1] = f[i]
      BY <2>2
    <3>2. f[i + 1] = Apply(f[(i + 1) - 1], queue[i + 1])
      BY <1>4, <3>1
    <3> QED
      BY <1>2, <2>2, <3>1, <3>2
  <2> QED
    BY <2>1, <2>2
<1> HIDE DEF g
<1>8. Lists(g, received', queue')
  BY <1>2, <1>6, <1>7 DEF Lists
<1>9. Chain'
  BY <1>2, <1>6, <1>8 DEF Chain
<1>10. TypeOK'
  BY <1>0, <1>2, <1>5 DEF Inv, TypeOK
<1>11. StaleOnlyInside'
  BY <1>0 DEF Inv, StaleOnlyInside
<1> QED
  BY <1>9, <1>10, <1>11 DEF Inv
-----------------------------------------------------------------------------
(* Every reachable state satisfies the invariant.                          *)
LEMMA Invariance == Spec => []Inv
<1>1. Init => Inv
  BY InitInv
<1>2. Inv /\ [Next]_vars => Inv'
  <2> SUFFICES ASSUME Inv, [Next]_vars PROVE Inv'
    OBVIOUS
  <2>1. CASE Process
    BY <2>1, ProcessInv
  <2>2. CASE Receive
    BY <2>2, ReceiveInv
  <2>3. CASE UNCHANGED vars
    BY <2>3 DEF vars, Inv, TypeOK, Chain, Lists, StaleOnlyInside
  <2> QED
    BY <2>1, <2>2, <2>3 DEF Next
<1> QED
  BY <1>1, <1>2, PTL DEF Spec

(* Frames are frames on both sides and every tile under way has the data   *)
(* of its rectangle (frame_processor.rs), for every size of screen and     *)
(* tile.                                                                   *)
THEOREM TypeCorrect == Spec => []TypeOK
<1>1. Inv => TypeOK
  BY DEF Inv
<1> QED
  BY <1>1, Invariance, PTL

(* Once a receiver has applied what is under way it has the sender's copy, *)
(* for every mixture of key and delta frames: process_frame and            *)
(* apply_delta (frame_processor.rs) fit, as long as tiles are handed over  *)
(* as they are.                                                            *)
THEOREM StayInStep == Spec => []InStep
<1>1. Inv => InStep
  <2> SUFFICES ASSUME Inv PROVE InStep
    OBVIOUS
  <2>1. Len(queue) \in Nat
    BY LenProperties DEF Inv, TypeOK
  <2>2. PICK f : Lists(f, received, queue) /\ f[Len(queue)] = last_frame
    BY DEF Inv, Chain
  <2> QED
    BY <2>1, <2>2, AppliedIs DEF InStep
<1> QED
  BY <1>1, Invariance, PTL

(* The sampling of is_tile_changed overlooks nothing but pixels that are   *)
(* no corner of their tile.                                                *)
THEOREM StaleInside == Spec => []StaleOnlyInside
<1>1. Inv => StaleOnlyInside
  BY DEF Inv
<1> QED
  BY <1>1, Invariance, PTL

(* The rectangles find_changed_tiles visits cover every pixel of the       *)
(* screen once, the cut off ones at the right and lower edge included:     *)
(* no pixel is left out of the deltas, and the order in which              *)
(* copy_tile_to_frame is called for the tiles of one does not matter.      *)
THEOREM TilesPartition ==
  \A o \in Offsets : \E r \in Rects : \A q \in Rects : Covers(q, o) <=> q = r
<1> SUFFICES ASSUME NEW o \in Offsets
             PROVE  \E r \in Rects : \A q \in Rects : Covers(q, o) <=> q = r
  OBVIOUS
<1>1. TileOf(o) \in Rects /\ Covers(TileOf(o), o)
  BY TileCovers
<1>2. \A q \in Rects : Covers(q, o) => q = TileOf(o)
  BY TileUnique
<1> QED
  BY <1>1, <1>2
-----------------------------------------------------------------------------
(* What is under way to the window: whole frames only.                     *)
StreamInv ==
    /\ queue \in Seq({KeyFrame(f) : f \in Screens})
    /\ WholeFrames

(* The server and the window (screen_capture.rs 100-101 and 148-201,       *)
(* app.rs 468-551): what the window has is always a frame as it was        *)
(* captured, for every size of screen and tile and whatever compression    *)
(* makes of a tile.                                                        *)
THEOREM StreamWhole == StreamSpec => []WholeFrames
<1> DEFINE Keys == {KeyFrame(f) : f \in Screens}
<1>1. Init => StreamInv
  BY DEF Init, StreamInv, WholeFrames
<1>2. StreamInv /\ [StreamNext]_vars => StreamInv'
  <2> SUFFICES ASSUME StreamInv, [StreamNext]_vars PROVE StreamInv'
    OBVIOUS
  <2>0. queue \in Seq(Keys)
    BY DEF StreamInv
  <2>1. CASE CaptureFrame
    <3>1. PICK frame \in Screens :
             queue' = Append(queue, Compressed(process_frame(frame, TRUE).out))
      BY <2>1 DEF CaptureFrame
    <3>2. process_frame(frame, TRUE).out = KeyFrame(frame)
      BY DEF process_frame
    <3>3. Compressed(KeyFrame(frame)) = KeyFrame(frame)
      BY DEF Compressed, KeyFrame
    <3>4. KeyFrame(frame) \in Keys
      OBVIOUS
    <3> HIDE DEF Keys
    <3>5. queue' \in Seq(Keys)
      BY <2>0, <3>1, <3>2, <3>3, <3>4, AppendProperties
    <3> QED
      BY <2>1, <3>5 DEF CaptureFrame, StreamInv, WholeFrames, Keys
  <2>2. CASE PassBy
    <3>1. queue' \in Seq(Keys)
      BY <2>0, <2>2, HeadTailProperties DEF PassBy
    <3> QED
      BY <2>2, <3>1 DEF PassBy, StreamInv, WholeFrames
  <2>3. CASE Update
    <3>1. queue # <<>> /\ queue' = Tail(queue) /\ received' = Apply(received, Head(queue))
      BY <2>3 DEF Update, Receive
    <3>2. queue' \in Seq(Keys) /\ Head(queue) \in Keys
      BY <2>0, <3>1, HeadTailProperties
    <3>3. received' \in Screens
      BY <3>1, <3>2 DEF Apply, KeyFrame
    <3> QED
      BY <3>2, <3>3 DEF StreamInv, WholeFrames
  <2>4. CASE NewClient
    BY <2>4 DEF NewClient, StreamInv, WholeFrames
  <2>5. CASE UNCHANGED vars
    BY <2>5 DEF vars, StreamInv, WholeFrames
  <2> QED
    BY <2>1, <2>2, <2>3, <2>4, <2>5 DEF StreamNext
<1>3. StreamInv => WholeFrames
  BY DEF StreamInv
<1> QED
  BY <1>1, <1>2, <1>3, PTL DEF StreamSpec
=============================================================================
