--------------------------- MODULE FrameProcessor ---------------------------
(***************************************************************************)
(* common/frame_processor.rs by itself: process_frame compares each frame  *)
(* with the last one, tile by tile, and produces a key frame or the        *)
(* changed tiles; a receiver keeps a frame and applies what it gets        *)
(* (apply_delta), in order and as it is.  What screen_capture.rs and       *)
(* app.rs make of it is in FrameStream.                                    *)
(*                                                                         *)
(* A frame is the flat array of the code with one entry per pixel (the     *)
(* three bytes of a pixel always travel together) and without padding of   *)
(* its rows; offsets are computed as in the code, row by row.              *)
(***************************************************************************)
EXTENDS Integers, Sequences, FiniteSets

CONSTANTS Width, Height,   \* of the screen
          TILE_SIZE,
          Colors,          \* values of a pixel
          Screens,         \* what may be captured
          MaxQueue         \* frames on their way to the receiver, at most

ASSUME SizeAssumption ==
    Width \in Nat \ {0} /\ Height \in Nat \ {0} /\ TILE_SIZE \in Nat \ {0}
ASSUME QueueAssumption == MaxQueue \in Nat \ {0}

Offsets == 0..(Width * Height - 1)
Frames == [Offsets -> Colors]
Offset(px, py) == py * Width + px
None == <<>>

ASSUME ScreensAssumption == Screens \subseteq Frames

AtMost(a, b) == IF a <= b THEN a ELSE b

-----------------------------------------------------------------------------
(* Wrong variant: a partial last column is forgotten.                      *)
tile_width_floor == Width \div TILE_SIZE

(* FrameProcessor::new, and the rectangles find_changed_tiles visits.      *)
tile_width == (Width + TILE_SIZE - 1) \div TILE_SIZE
tile_height == (Height + TILE_SIZE - 1) \div TILE_SIZE

Rect(tx, ty) ==
    LET x == tx * TILE_SIZE
        y == ty * TILE_SIZE
    IN  [x |-> x, y |-> y,
         w |-> AtMost(TILE_SIZE, Width - x), h |-> AtMost(TILE_SIZE, Height - y)]

Rects == {Rect(tx, ty) : tx \in 0..(tile_width - 1), ty \in 0..(tile_height - 1)}

(* is_tile_changed looks at the corners and the centre only.               *)
SamplePoints(r) ==
    {<<0, 0>>, <<r.w - 1, 0>>, <<0, r.h - 1>>, <<r.w - 1, r.h - 1>>,
     <<r.w \div 2, r.h \div 2>>}

Samples(r) ==
    {Offset(r.x + s[1], r.y + s[2]) :
        s \in {p \in SamplePoints(r) : r.x + p[1] < Width /\ r.y + p[2] < Height}}

is_tile_changed(prev, curr, r) == \E o \in Samples(r) : prev[o] # curr[o]

extract_tile(frame, r) ==
    [k \in 0..(r.w * r.h - 1) |-> frame[Offset(r.x + (k % r.w), r.y + (k \div r.w))]]

find_changed_tiles(prev, curr) ==
    {[rect |-> r, data |-> extract_tile(curr, r)] :
        r \in {q \in Rects : is_tile_changed(prev, curr, q)}}

Covers(r, o) ==
    /\ o % Width >= r.x /\ o % Width < r.x + r.w
    /\ o \div Width >= r.y /\ o \div Width < r.y + r.h

(* Wrong variant: rows are taken from the tile with the stride of a full   *)
(* tile.                                                                   *)
copy_tiles_full_stride(frame, tiles) ==
    [o \in Offsets |->
        IF \E t \in tiles : Covers(t.rect, o)
        THEN LET t == CHOOSE t \in tiles : Covers(t.rect, o)
                 k == ((o \div Width) - t.rect.y) * TILE_SIZE + ((o % Width) - t.rect.x)
             IN  IF k \in DOMAIN t.data THEN t.data[k] ELSE 2
        ELSE frame[o]]

(* Where a row of the screen begins in the data of a tile.                 *)
RowStart(r, o) == ((o \div Width) - r.y) * r.w

(* copy_tile_to_frame row by row, for every tile of a delta, each row only *)
(* if the data has all of it; the rectangles do not overlap, so the order  *)
(* of the tiles does not matter.                                           *)
copy_tiles(frame, tiles) ==
    [o \in Offsets |->
        LET onto == {t \in tiles : /\ Covers(t.rect, o)
                                   /\ RowStart(t.rect, o) + (t.rect.w - 1) \in DOMAIN t.data}
            tile == CHOOSE t \in onto : TRUE
        IN  IF onto # {} THEN tile.data[RowStart(tile.rect, o) + ((o % Width) - tile.rect.x)]
            ELSE frame[o]]

KeyFrame(frame) == [type |-> "KeyFrame", data |-> frame, tiles |-> {}]
DeltaFrame(tiles) == [type |-> "DeltaFrame", data |-> None, tiles |-> tiles]

(* A key frame replaces the receiver's frame, apply_delta patches it.      *)
Apply(frame, m) ==
    IF m.type = "KeyFrame" THEN m.data
    ELSE IF frame = None THEN None
    ELSE copy_tiles(frame, m.tiles)

-----------------------------------------------------------------------------
VARIABLES screen,      \* what was captured last
          last_frame,  \* the sender's copy
          queue,       \* frames on their way
          received     \* the receiver's frame

vars == <<screen, last_frame, queue, received>>

Init ==
    /\ screen = None
    /\ last_frame = None
    /\ queue = <<>>
    /\ received = None

(* Wrong variant: the sender's copy takes over the whole frame although    *)
(* only the changed tiles are sent.                                        *)
process_frame_whole(frame, force_keyframe) ==
    LET changed == find_changed_tiles(last_frame, frame)
        total == tile_width * tile_height
    IN  [last_frame |-> frame,
         out |-> IF \/ last_frame = None \/ force_keyframe
                    \/ Cardinality(changed) > (total * 6) \div 10
                 THEN KeyFrame(frame) ELSE DeltaFrame(changed)]

(* process_frame: a key frame for the first frame, on request, or when     *)
(* more than 60% of the tiles have changed; else the changed tiles, which  *)
(* the sender's copy takes over as well.                                   *)
process_frame(frame, force_keyframe) ==
    LET changed == find_changed_tiles(last_frame, frame)
        total == tile_width * tile_height
    IN  IF \/ last_frame = None \/ force_keyframe
           \/ Cardinality(changed) > (total * 6) \div 10
        THEN [last_frame |-> frame, out |-> KeyFrame(frame)]
        ELSE [last_frame |-> copy_tiles(last_frame, changed), out |-> DeltaFrame(changed)]

Process ==
    /\ Len(queue) < MaxQueue
    /\ \E frame \in Screens, force_keyframe \in BOOLEAN :
         LET processed == process_frame(frame, force_keyframe)
         IN  /\ screen' = frame
             /\ last_frame' = processed.last_frame
             /\ queue' = Append(queue, processed.out)
    /\ UNCHANGED received

(* The next frame is taken over.                                           *)
Receive ==
    /\ queue # <<>>
    /\ received' = Apply(received, Head(queue))
    /\ queue' = Tail(queue)
    /\ UNCHANGED <<screen, last_frame>>

Next == Process \/ Receive

Spec == Init /\ [][Next]_vars

-----------------------------------------------------------------------------
(* A tile carries as many pixels as its rectangle has.                     *)
Tiles == UNION {[rect : {r}, data : [0..(r.w * r.h - 1) -> Colors]] : r \in Rects}

Messages ==
    [type : {"KeyFrame"}, data : Frames, tiles : {{}}]
        \cup [type : {"DeltaFrame"}, data : {None}, tiles : SUBSET Tiles]

TypeOK ==
    /\ {screen, last_frame, received} \subseteq Frames \cup {None}
    /\ queue \in Seq(Messages)

(* What the receiver has after the messages of q, one after the other.     *)
Applied(frame, q) ==
    LET after[i \in 0..Len(q)] == IF i = 0 THEN frame ELSE Apply(after[i - 1], q[i])
    IN  after[Len(q)]

(* process_frame and apply_delta stay in step: once everything on its way  *)
(* is applied, the receiver has exactly the sender's copy, so that the     *)
(* next delta is relative to what the receiver has, for every mixture of   *)
(* key and delta frames and for tiles cut off at the right and lower edge. *)
InStep == Applied(received, queue) = last_frame

(* How far the sampling shortcut can be wrong: the sender's copy differs   *)
(* from the screen only at pixels that are no corner of their tile, and    *)
(* only in tiles at least three pixels wide or high.  (PERFORMANCE_FEATURES*)
(* .md, "Only sends changed screen regions", and the comment "Quick        *)
(* sampling first" promise more: that there is no such difference.)        *)
StaleOnlyInside ==
    screen # None =>
        \A o \in Offsets : screen[o] # last_frame[o] =>
            LET x == (o % Width) % TILE_SIZE
                y == (o \div Width) % TILE_SIZE
            IN  /\ TILE_SIZE > 2
                /\ \/ x # 0 /\ x # TILE_SIZE - 1 /\ o % Width # Width - 1
                   \/ y # 0 /\ y # TILE_SIZE - 1 /\ o \div Width # Height - 1
=============================================================================
