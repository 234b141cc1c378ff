------------------------- MODULE InputEventsProofs -------------------------
(***************************************************************************)
(* What the remote input promises, for every size of the screens and of    *)
(* the image, every set of buttons and keys, and any number of messages    *)
(* under way.                                                              *)
(***************************************************************************)
EXTENDS InputEvents, SequenceTheorems, TLAPS

Moves == [type : {"MouseMove"}, at : AllPoints]
ButtonClicks == [type : {"MouseClick"}, button : Buttons, pressed : BOOLEAN, at : AllPoints]
KeyMessages == {KeyEvent(e) : e \in KeyEvents}
Messages == Moves \cup ButtonClicks \cup KeyMessages

(* The last click of button b in s is message i.                           *)
ClickOf(m, b) == m.type = "MouseClick" /\ m.button = b
LastClick(s, b, i) ==
    /\ i \in DOMAIN s /\ ClickOf(s[i], b)
    /\ \A j \in DOMAIN s : ClickOf(s[j], b) => j <= i

(* The messages of s leave button b, which was held before iff h, held iff *)
(* d: the last click says so or, where there is none, it was already.      *)
Leaves(s, b, h, d) ==
    /\ \A i \in DOMAIN s : LastClick(s, b, i) => (s[i].pressed <=> d)
    /\ (\A i \in DOMAIN s : ~ClickOf(s[i], b)) => (h <=> d)

(* What is under way will bring each remote button into the state of the   *)
(* user's, unless it lapsed.                                               *)
Mirror == \A b \in Buttons \ lapsed : Leaves(chan, b, b \in held, b \in down)

(* The places that need not be sent again.                                 *)
ClosePlaces == {at \in AllPoints : Distance2(at, last_mouse_pos) <= 1}

(* Message i is the last one that moves the cursor.                        *)
LastMove(s, i) ==
    /\ i \in DOMAIN s /\ s[i].type # "KeyEvent"
    /\ \A j \in DOMAIN s : s[j].type # "KeyEvent" => j <= i

(* The messages of s bring the cursor to a place of C, or leave it where   *)
(* stay says.                                                              *)
Brings(s, C, stay) ==
    /\ \A i \in DOMAIN s : LastMove(s, i) => s[i].at \in C
    /\ (\A i \in DOMAIN s : s[i].type = "KeyEvent") => stay

(* Once a move was sent, the cursor is, or will be, at a place close to    *)
(* last_mouse_pos.                                                         *)
Trail ==
    connected /\ aimed =>
        Brings(chan, ClosePlaces, \E at \in ClosePlaces : cursor = move_mouse(at))

(* The pointer of a connected client is close to last_mouse_pos.           *)
Followed ==
    pointer # Outside => connected /\ OnScreen(pointer, screen_size) \in ClosePlaces

(* The last key event made is one the user's key stands for.               *)
KeyMade == typed # NoKey => typed[1] = Meaning[typed[3]]

Inv == TypeOK /\ chan \in Seq(Messages) /\ Mirror /\ Trail /\ Followed /\ KeyMade
-----------------------------------------------------------------------------
(* Arithmetic.  A fraction of a size, rounded, is at most the size.        *)
LEMMA RoundBound ==
  ASSUME NEW g \in Nat \ {0}, NEW p \in 0..g, NEW s \in Nat
  PROVE  Round(p * s, g) \in 0..s
<1> DEFINE a == 2 * (p * s) + g
           h == 2 * g
           q == a \div h
<1>1. p * s \in Nat /\ p * s <= g * s /\ g * s \in Nat
  OBVIOUS
<1>2. a \in Nat /\ h \in Nat /\ h > 0 /\ a < 2 * (g * s) + h
  BY <1>1
<1>3. h * (s + 1) = 2 * (g * s) + h
  OBVIOUS
<1> HIDE DEF a, h
<1>4. q \in Nat /\ h * q <= a
  BY <1>2
<1> HIDE DEF q
<1>5. ASSUME q >= s + 1 PROVE FALSE
  <2>1. h * q >= h * (s + 1) /\ h * q \in Nat /\ h * (s + 1) \in Nat
    BY <1>2, <1>4, <1>5
  <2> QED
    BY <1>1, <1>2, <1>3, <1>4, <2>1
<1>6. q \in 0..s
  BY <1>4, <1>5
<1> QED
  BY <1>6 DEF Round, q, a, h

(* A place over the image is a point of the screen, its edges included.    *)
LEMMA OnScreenType ==
  ASSUME NEW place \in Places, NEW size \in Screens \cup {Assumed}
  PROVE  OnScreen(place, size) \in AllPoints
<1>1. size \in Sizes /\ Grid \in Sizes
  BY SizesAssumption
<1>2. /\ size[1] \in Nat /\ size[2] \in Nat /\ Grid[1] \in Nat \ {0} /\ Grid[2] \in Nat \ {0}
      /\ place[1] \in 0..Grid[1] /\ place[2] \in 0..Grid[2]
  BY <1>1 DEF Sizes, Places, Points
<1>3. /\ Round(place[1] * size[1], Grid[1]) \in 0..size[1]
      /\ Round(place[2] * size[2], Grid[2]) \in 0..size[2]
  BY <1>2, RoundBound
<1>4. OnScreen(place, size) \in Points(size)
  BY <1>3 DEF OnScreen, Points
<1> QED
  BY <1>4 DEF AllPoints

(* Points have two coordinates, which are numbers.                         *)
LEMMA PointType ==
  ASSUME NEW at \in AllPoints
  PROVE  at = <<at[1], at[2]>> /\ at[1] \in Nat /\ at[2] \in Nat
<1>1. PICK size \in Screens \cup {Assumed} : at \in Points(size)
  BY DEF AllPoints
<1>2. size[1] \in Nat /\ size[2] \in Nat
  BY SizesAssumption DEF Sizes
<1> QED
  BY <1>1, <1>2 DEF Points

(* A point at most one pixel away is off in one coordinate at most, by one.*)
LEMMA UnitDistance ==
  ASSUME NEW x \in Int, NEW y \in Int, x * x + y * y <= 1
  PROVE  x \in -1..1 /\ y \in -1..1 /\ (x = 0 \/ y = 0)
<1>1. x * x \in Nat /\ y * y \in Nat
  OBVIOUS
<1>2. x * x <= 1 /\ y * y <= 1
  BY <1>1
<1>3. x \in -1..1
  <2>1. x >= 2 => x * x >= 2
    OBVIOUS
  <2>2. x <= -2 => x * x >= 2
    OBVIOUS
  <2> QED
    BY <1>2, <2>1, <2>2
<1>4. y \in -1..1
  <2>1. y >= 2 => y * y >= 2
    OBVIOUS
  <2>2. y <= -2 => y * y >= 2
    OBVIOUS
  <2> QED
    BY <1>2, <2>1, <2>2
<1> QED
  BY <1>3, <1>4

(* So is a place close to last_mouse_pos.                                 *)
LEMMA CloseTo ==
  ASSUME TypeOK, NEW at \in ClosePlaces
  PROVE  /\ at[1] \in Nat /\ at[2] \in Nat
         /\ last_mouse_pos[1] \in Nat /\ last_mouse_pos[2] \in Nat
         /\ at[1] - last_mouse_pos[1] \in -1..1 /\ at[2] - last_mouse_pos[2] \in -1..1
         /\ at[1] = last_mouse_pos[1] \/ at[2] = last_mouse_pos[2]
<1>1. /\ at[1] \in Nat /\ at[2] \in Nat
      /\ last_mouse_pos[1] \in Nat /\ last_mouse_pos[2] \in Nat
  BY PointType DEF TypeOK, ClosePlaces
<1> PICK x \in Int : x = at[1] - last_mouse_pos[1]
  BY <1>1
<1> PICK y \in Int : y = at[2] - last_mouse_pos[2]
  BY <1>1
<1>2. x * x + y * y <= 1
  BY DEF ClosePlaces, Distance2
<1>3. x \in -1..1 /\ y \in -1..1 /\ (x = 0 \/ y = 0)
  BY <1>2, UnitDistance
<1> QED
  BY <1>1, <1>3

(* Two points close to a third are at most two pixels from each other, and *)
(* stay so where the system keeps them on the screen.                      *)
LEMMA CloseToEachOther ==
  ASSUME TypeOK, NEW p \in ClosePlaces, NEW q \in ClosePlaces
  PROVE  Distance2(move_mouse(p), move_mouse(q)) <= 4
<1> DEFINE l == last_mouse_pos
<1>1. /\ p[1] \in Nat /\ p[2] \in Nat /\ l[1] \in Nat /\ l[2] \in Nat
      /\ p[1] - l[1] \in -1..1 /\ p[2] - l[2] \in -1..1
      /\ p[1] = l[1] \/ p[2] = l[2]
  BY CloseTo
<1>2. /\ q[1] \in Nat /\ q[2] \in Nat
      /\ q[1] - l[1] \in -1..1 /\ q[2] - l[2] \in -1..1
      /\ q[1] = l[1] \/ q[2] = l[2]
  BY CloseTo
<1>4. remote[1] \in Nat /\ remote[2] \in Nat
  BY SizesAssumption DEF TypeOK, Sizes
<1> DEFINE x == move_mouse(p)[1] - move_mouse(q)[1]
           y == move_mouse(p)[2] - move_mouse(q)[2]
<1>5. /\ x = Inside(p[1], remote[1]) - Inside(q[1], remote[1])
      /\ y = Inside(p[2], remote[2]) - Inside(q[2], remote[2])
  BY DEF move_mouse
<1> HIDE DEF x, y
<1>6. /\ x \in -2..2 /\ (p[1] = l[1] \/ q[1] = l[1] => x \in -1..1)
      /\ p[1] = q[1] => x = 0
  BY <1>1, <1>2, <1>4, <1>5 DEF Inside
<1>7. /\ y \in -2..2 /\ (p[2] = l[2] \/ q[2] = l[2] => y \in -1..1)
      /\ p[2] = q[2] => y = 0
  BY <1>1, <1>2, <1>4, <1>5 DEF Inside
<1>8. x = 0 \/ y = 0 \/ (x \in -1..1 /\ y \in -1..1)
  BY <1>1, <1>2, <1>6, <1>7
<1>9. x * x + y * y <= 4
  BY <1>6, <1>7, <1>8
<1> QED
  BY <1>9 DEF Distance2, x, y

-----------------------------------------------------------------------------
(* The keyboard: a name the server knows gives the key of its entry, and   *)
(* each name the client uses is one of them or a single character.         *)
LEMMA KeyOfEntry ==
  ASSUME NEW n, NEW k, <<n, k>> \in KeyTable,
         \A e \in KeyTable : e[1] = n => e = <<n, k>>
  PROVE  KeyFor(n) = k
<1> DEFINE c == CHOOSE e \in KeyTable : e[1] = n
<1>1. \E e \in KeyTable : e[1] = n
  <2>1. <<n, k>>[1] = n
    OBVIOUS
  <2> QED
    BY <2>1
<1>2. c \in KeyTable /\ c[1] = n
  BY <1>1
<1>3. c = <<n, k>>
  BY <1>2
<1>4. KeyFor(n) = c[2]
  BY <1>1 DEF KeyFor
<1> QED
  BY <1>3, <1>4

(* A blank and the empty rest are none of the other strings.               *)
LEMMA BlankDiffers ==
  /\ Blank \notin {"R", "E", "T", "S", "B", "U", "D", "L", "a", "0"}
  /\ NoRest \notin {"eturn", "nter", "ab", "pace", "scape", "ackSpace", "p", "own", "eft", "ight"}
BY Zenon DEF Blank, NoRest

(* Every name format_key gives out is read back by the server's table as   *)
(* the key that was pressed.                                               *)
LEMMA KeyNames ==
  \A k \in DOMAIN Named : KeyFor(format_key(k)) = Meaning[k]
<1>1. KeyFor(<<"R", "eturn">>) = "Return"
  BY KeyOfEntry, BlankDiffers DEF KeyTable
<1>2. KeyFor(<<"E", "scape">>) = "Escape"
  BY KeyOfEntry, BlankDiffers DEF KeyTable
<1>3. KeyFor(<<"B", "ackSpace">>) = "Backspace"
  BY KeyOfEntry, BlankDiffers DEF KeyTable
<1>4. KeyFor(<<"T", "ab">>) = "Tab"
  BY KeyOfEntry, BlankDiffers DEF KeyTable
<1>5. KeyFor(<<"D", "own">>) = "DownArrow"
  BY KeyOfEntry, BlankDiffers DEF KeyTable
<1>6. KeyFor(<<"L", "eft">>) = "LeftArrow"
  BY KeyOfEntry, BlankDiffers DEF KeyTable
<1>7. KeyFor(<<"R", "ight">>) = "RightArrow"
  BY KeyOfEntry, BlankDiffers DEF KeyTable
<1>8. KeyFor(<<"U", "p">>) = "UpArrow"
  BY KeyOfEntry, BlankDiffers DEF KeyTable
<1>9. KeyFor(<<Blank, NoRest>>) = "Space"
  BY KeyOfEntry, BlankDiffers DEF KeyTable
<1>10. KeyFor(<<"a", NoRest>>) = "a" /\ KeyFor(<<"0", NoRest>>) = "0"
  BY BlankDiffers DEF KeyFor, KeyTable
<1> QED
  BY <1>1, <1>2, <1>3, <1>4, <1>5, <1>6, <1>7, <1>8, <1>9, <1>10
     DEF Named, Meaning, format_key

-----------------------------------------------------------------------------
(* Messages in a row.                                                      *)
LEMMA Row ==
  ASSUME NEW M, NEW s \in Seq(M), NEW t \in Seq(M)
  PROVE  /\ s \o t \in Seq(M) /\ Len(s) \in Nat /\ Len(t) \in Nat
         /\ DOMAIN s = 1..Len(s) /\ DOMAIN t = 1..Len(t) /\ DOMAIN (s \o t) = 1..(Len(s) + Len(t))
         /\ \A i \in 1..Len(s) : (s \o t)[i] = s[i]
         /\ \A i \in 1..Len(t) : (s \o t)[Len(s) + i] = t[i]
<1> DEFINE r == s \o t
<1>1. /\ r \in Seq(M) /\ Len(r) = Len(s) + Len(t)
      /\ \A i \in 1..(Len(s) + Len(t)) : r[i] = IF i <= Len(s) THEN s[i] ELSE t[i - Len(s)]
  BY ConcatProperties, Zenon
<1>2. /\ Len(s) \in Nat /\ Len(t) \in Nat /\ DOMAIN s = 1..Len(s) /\ DOMAIN t = 1..Len(t)
      /\ DOMAIN r = 1..Len(r)
  BY <1>1, LenProperties
<1> HIDE DEF r
<1> PICK n \in Nat, m \in Nat : n = Len(s) /\ m = Len(t)
  BY <1>2
<1>3. \A i \in 1..n : r[i] = s[i]
  BY <1>1
<1>4. \A i \in 1..m : r[n + i] = t[i]
  <2> SUFFICES ASSUME NEW i \in 1..m PROVE r[n + i] = t[i]
    OBVIOUS
  <2>1. n + i \in 1..(n + m) /\ ~(n + i <= n) /\ (n + i) - n = i
    OBVIOUS
  <2> QED
    BY <1>1, <2>1
<1> QED
  BY <1>1, <1>2, <1>3, <1>4 DEF r

(* What two rows of messages one after the other leave a button in.        *)
LEMMA LeavesRow ==
  ASSUME NEW M, NEW s \in Seq(M), NEW t \in Seq(M),
         NEW b, NEW h \in BOOLEAN, NEW c \in BOOLEAN, NEW d \in BOOLEAN,
         Leaves(s, b, h, c), Leaves(t, b, c, d)
  PROVE  Leaves(s \o t, b, h, d)
<1> DEFINE r == s \o t
<1>1. /\ Len(s) \in Nat /\ Len(t) \in Nat
      /\ DOMAIN s = 1..Len(s) /\ DOMAIN t = 1..Len(t) /\ DOMAIN r = 1..(Len(s) + Len(t))
      /\ \A i \in 1..Len(s) : r[i] = s[i]
      /\ \A i \in 1..Len(t) : r[Len(s) + i] = t[i]
  BY Row
<1> HIDE DEF r
<1> PICK n \in Nat, m \in Nat : n = Len(s) /\ m = Len(t)
  BY <1>1
<1>0. \A j \in 1..m : n + j \in DOMAIN r /\ r[n + j] = t[j]
  <2> SUFFICES ASSUME NEW j \in 1..m PROVE n + j \in DOMAIN r /\ r[n + j] = t[j]
    OBVIOUS
  <2>1. n + j \in 1..(n + m)
    OBVIOUS
  <2> QED
    BY <1>1, <2>1
<1>2. ASSUME \A i \in 1..m : ~ClickOf(t[i], b) PROVE c <=> d
  BY <1>1, <1>2 DEF Leaves
<1>3. ASSUME NEW i \in DOMAIN r, LastClick(r, b, i) PROVE r[i].pressed <=> d
  <2>1. CASE i \in 1..n
    <3>1. ASSUME NEW j \in 1..m, ClickOf(t[j], b) PROVE FALSE
      <4>1. n + j \in DOMAIN r /\ r[n + j] = t[j]
        BY <1>0
      <4>2. ~(n + j <= i)
        BY <2>1
      <4> QED
        BY <1>3, <3>1, <4>1, <4>2 DEF LastClick
    <3>2. LastClick(s, b, i)
      <4>1. \A j \in 1..n : j \in DOMAIN r /\ r[j] = s[j]
        BY <1>1
      <4> QED
        BY <1>1, <1>3, <2>1, <4>1 DEF LastClick
    <3>3. s[i].pressed <=> c
      BY <1>1, <2>1, <3>2 DEF Leaves
    <3>4. r[i] = s[i]
      BY <1>1, <2>1
    <3> QED
      BY <1>2, <3>1, <3>3, <3>4
  <2>2. CASE i \notin 1..n
    <3> PICK k \in 1..m : i = n + k
      <4>1. i - n \in 1..m /\ i = n + (i - n)
        BY <1>1, <2>2
      <4> QED
        BY <4>1
    <3>1. LastClick(t, b, k)
      <4>1. ASSUME NEW j \in 1..m, ClickOf(t[j], b) PROVE j <= k
        <5>1. n + j \in DOMAIN r /\ r[n + j] = t[j]
          BY <1>0
        <5>2. n + j <= n + k
          BY <1>3, <4>1, <5>1 DEF LastClick
        <5> QED
          BY <5>2
      <4>2. ClickOf(t[k], b)
        BY <1>1, <1>3 DEF LastClick
      <4> QED
        BY <1>1, <4>1, <4>2 DEF LastClick
    <3>2. t[k].pressed <=> d
      BY <1>1, <3>1 DEF Leaves
    <3> QED
      BY <1>1, <3>2
  <2> QED
    BY <2>1, <2>2
<1>4. ASSUME \A i \in DOMAIN r : ~ClickOf(r[i], b) PROVE h <=> d
  <2>1. \A i \in 1..n : ~ClickOf(s[i], b)
    BY <1>1, <1>4
  <2>2. \A i \in 1..m : ~ClickOf(t[i], b)
    <3> SUFFICES ASSUME NEW i \in 1..m PROVE ~ClickOf(t[i], b)
      OBVIOUS
    <3>1. n + i \in DOMAIN r /\ r[n + i] = t[i]
      BY <1>0
    <3> QED
      BY <1>4, <3>1
  <2>3. h <=> c
    BY <1>1, <2>1 DEF Leaves
  <2> QED
    BY <1>2, <2>2, <2>3
<1> QED
  BY <1>3, <1>4 DEF Leaves, r

(* Messages that leave a button held iff d however it was before, do so    *)
(* whatever goes before them.                                              *)
LEMMA LeavesTold ==
  ASSUME NEW M, NEW s \in Seq(M), NEW t \in Seq(M),
         NEW b, NEW h \in BOOLEAN, NEW d \in BOOLEAN,
         Leaves(t, b, TRUE, d), Leaves(t, b, FALSE, d)
  PROVE  Leaves(s \o t, b, h, d)
<1> DEFINE r == s \o t
<1>1. /\ Len(s) \in Nat /\ Len(t) \in Nat
      /\ DOMAIN s = 1..Len(s) /\ DOMAIN t = 1..Len(t) /\ DOMAIN r = 1..(Len(s) + Len(t))
      /\ \A i \in 1..Len(t) : r[Len(s) + i] = t[i]
  BY Row
<1> HIDE DEF r
<1> PICK n \in Nat, m \in Nat : n = Len(s) /\ m = Len(t)
  BY <1>1
<1>2. \A j \in 1..m : n + j \in 1..(n + m)
  OBVIOUS
<1>3. \A j \in 1..m : n + j \in DOMAIN r /\ r[n + j] = t[j]
  BY <1>1, <1>2
<1>4. PICK k \in 1..m : ClickOf(t[k], b)
  BY <1>1 DEF Leaves
<1>5. ASSUME NEW i \in DOMAIN r, LastClick(r, b, i) PROVE r[i].pressed <=> d
  <2>1. n + k <= i
    BY <1>3, <1>4, <1>5 DEF LastClick
  <2>2. i - n \in 1..m /\ n + (i - n) = i
    BY <1>1, <2>1
  <2> PICK l \in 1..m : i = n + l
    BY <2>2
  <2>3. r[i] = t[l]
    BY <1>3
  <2>4. ASSUME NEW j \in 1..m, ClickOf(t[j], b) PROVE j <= l
    <3>1. n + j <= n + l
      BY <1>3, <1>5, <2>4 DEF LastClick
    <3> QED
      BY <3>1
  <2>5. LastClick(t, b, l)
    BY <1>1, <1>5, <2>3, <2>4 DEF LastClick
  <2> QED
    BY <1>1, <2>3, <2>5 DEF Leaves
<1>6. ~(\A i \in DOMAIN r : ~ClickOf(r[i], b))
  BY <1>3, <1>4
<1> QED
  BY <1>5, <1>6 DEF Leaves, r

(* No message leaves a button as it was.                                   *)
LEMMA LeavesNone ==
  ASSUME NEW b, NEW h \in BOOLEAN
  PROVE  Leaves(<<>>, b, h, h)
BY DEF Leaves

(* One message leaves it as it says, if it is a click of that button.      *)
LEMMA LeavesOne ==
  ASSUME NEW m, NEW b, NEW h \in BOOLEAN, NEW d \in BOOLEAN,
         IF ClickOf(m, b) THEN m.pressed = d ELSE h = d
  PROVE  Leaves(<<m>>, b, h, d)
<1>1. DOMAIN <<m>> = {1} /\ <<m>>[1] = m
  OBVIOUS
<1>2. ASSUME NEW i \in {1}, LastClick(<<m>>, b, i) PROVE <<m>>[i].pressed <=> d
  <2>1. ClickOf(m, b)
    BY <1>1, <1>2 DEF LastClick
  <2> QED
    BY <1>1, <1>2, <2>1
<1>3. ASSUME ~ClickOf(m, b) PROVE h <=> d
  BY <1>3
<1> QED
  BY <1>1, <1>2, <1>3 DEF Leaves

(* What an update of the mouse puts into the channel: the clicks of a      *)
(* button leave it as it is after one change, or released after more; they *)
(* do not concern other buttons, and all point to the same place.          *)
Press(b, n, at) == IF Pressed(b, n) THEN << Click(b, TRUE, at) >> ELSE <<>>
Release(b, n, at) == IF Released(b, n) THEN << Click(b, FALSE, at) >> ELSE <<>>

(* Rows of one and of no message.                                          *)
LEMMA OneType ==
  ASSUME NEW M, NEW m \in M
  PROVE  <<m>> \in Seq(M) /\ <<>> \in Seq(M)
OBVIOUS

(* The messages of a click are messages, and are those of its press        *)
(* followed by those of its release.                                       *)
LEMMA ClickType ==
  ASSUME NEW b, NEW n \in 0..2, n # 0 => b \in Buttons, NEW at \in AllPoints
  PROVE  /\ Press(b, n, at) \in Seq(Messages) /\ Release(b, n, at) \in Seq(Messages)
         /\ Clicks(b, n, at) = Press(b, n, at) \o Release(b, n, at)
         /\ Clicks(b, n, at) \in Seq(Messages)
<1>0. n # 0 => Click(b, TRUE, at) \in Messages /\ Click(b, FALSE, at) \in Messages
  BY DEF Click, Messages, ButtonClicks
<1>1. /\ Pressed(b, n) => n # 0
      /\ Released(b, n) => n # 0
  BY DEF Pressed, Released
<1>2. Press(b, n, at) \in Seq(Messages)
  BY <1>0, <1>1, OneType, EmptySeq, Zenon DEF Press
<1>3. Release(b, n, at) \in Seq(Messages)
  BY <1>0, <1>1, OneType, EmptySeq, Zenon DEF Release
<1>4. Clicks(b, n, at) = Press(b, n, at) \o Release(b, n, at)
  BY DEF Clicks, Press, Release
<1> QED
  BY <1>2, <1>3, <1>4, Row

(* They all name the place of the click.                                   *)
LEMMA ClicksPlace ==
  ASSUME NEW b, NEW n \in 0..2, n # 0 => b \in Buttons, NEW at \in AllPoints
  PROVE  \A i \in DOMAIN Clicks(b, n, at) : Clicks(b, n, at)[i].at = at
<1> DEFINE p == Press(b, n, at)
           r == Release(b, n, at)
           c == Clicks(b, n, at)
<1>1. Click(b, TRUE, at).at = at /\ Click(b, FALSE, at).at = at
  BY DEF Click
<1>2. (\A i \in DOMAIN p : p[i].at = at) /\ (\A i \in DOMAIN r : r[i].at = at)
  <2>1. \A m : m.at = at => \A i \in DOMAIN <<m>> : <<m>>[i].at = at
    OBVIOUS
  <2>2. \A i \in DOMAIN <<>> : <<>>[i].at = at
    OBVIOUS
  <2>3. p = << Click(b, TRUE, at) >> \/ p = <<>>
    BY DEF Press
  <2>4. r = << Click(b, FALSE, at) >> \/ r = <<>>
    BY DEF Release
  <2> HIDE DEF p, r
  <2> QED
    BY <1>1, <2>1, <2>2, <2>3, <2>4
<1>3. p \in Seq(Messages) /\ r \in Seq(Messages) /\ c = p \o r
  BY ClickType
<1> HIDE DEF p, r, c
<1>4. /\ Len(p) \in Nat /\ Len(r) \in Nat
      /\ DOMAIN p = 1..Len(p) /\ DOMAIN r = 1..Len(r) /\ DOMAIN c = 1..(Len(p) + Len(r))
      /\ \A i \in 1..Len(p) : c[i] = p[i]
      /\ \A i \in 1..Len(r) : c[Len(p) + i] = r[i]
  BY <1>3, Row
<1>5. ASSUME NEW i \in DOMAIN c PROVE c[i].at = at
  <2>1. CASE i \in 1..Len(p)
    BY <1>2, <1>4, <2>1
  <2>2. CASE i \notin 1..Len(p)
    <3>1. i - Len(p) \in 1..Len(r) /\ Len(p) + (i - Len(p)) = i
      BY <1>4, <2>2
    <3>2. c[i] = r[i - Len(p)]
      BY <1>4, <3>1
    <3> QED
      BY <1>2, <1>4, <3>1, <3>2
  <2> QED
    BY <2>1, <2>2
<1> QED
  BY <1>5 DEF c

(* They leave the button as the user's is, and the other buttons alone: a  *)
(* press and a release within one update go out in this order.             *)
LEMMA ClicksLeave ==
  ASSUME NEW b, NEW n \in 0..2, n # 0 => b \in Buttons, NEW at \in AllPoints,
         NEW o, NEW h \in BOOLEAN
  PROVE  Leaves(Clicks(b, n, at), o, h,
                IF o = b /\ n > 0 THEN n = 1 /\ b \notin down ELSE h)
<1> DEFINE c == h \/ (o = b /\ Pressed(b, n))
           d == c /\ ~(o = b /\ Released(b, n))
<1>1. /\ ClickOf(Click(b, TRUE, at), o) <=> o = b
      /\ ClickOf(Click(b, FALSE, at), o) <=> o = b
      /\ Click(b, TRUE, at).pressed = TRUE /\ Click(b, FALSE, at).pressed = FALSE
  BY DEF ClickOf, Click
<1>2. Leaves(Press(b, n, at), o, h, c)
  <2>1. CASE Pressed(b, n)
    <3>1. Press(b, n, at) = << Click(b, TRUE, at) >>
      BY <2>1 DEF Press
    <3>2. IF ClickOf(Click(b, TRUE, at), o) THEN Click(b, TRUE, at).pressed = c ELSE h = c
      BY <1>1, <2>1
    <3> HIDE DEF c
    <3> QED
      BY <3>1, <3>2, LeavesOne DEF c
  <2>2. CASE ~Pressed(b, n)
    <3>1. Press(b, n, at) = <<>> /\ c = h
      BY <2>2 DEF Press
    <3> QED
      BY <3>1, LeavesNone
  <2> QED
    BY <2>1, <2>2
<1>3. c \in BOOLEAN /\ d \in BOOLEAN
  OBVIOUS
<1>4. Leaves(Release(b, n, at), o, c, d)
  <2>1. CASE Released(b, n)
    <3>1. Release(b, n, at) = << Click(b, FALSE, at) >>
      BY <2>1 DEF Release
    <3>2. IF ClickOf(Click(b, FALSE, at), o) THEN Click(b, FALSE, at).pressed = d ELSE c = d
      BY <1>1, <2>1
    <3> HIDE DEF c, d
    <3> QED
      BY <1>3, <3>1, <3>2, LeavesOne
  <2>2. CASE ~Released(b, n)
    <3>1. Release(b, n, at) = <<>> /\ d = c
      BY <2>2 DEF Release
    <3> HIDE DEF c, d
    <3> QED
      BY <1>3, <3>1, LeavesNone
  <2> QED
    BY <2>1, <2>2
<1>5. d = IF o = b /\ n > 0 THEN n = 1 /\ b \notin down ELSE h
  BY DEF Pressed, Released
<1> HIDE DEF c, d
<1>6. Leaves(Clicks(b, n, at), o, h, d)
  <2>1. /\ Press(b, n, at) \in Seq(Messages) /\ Release(b, n, at) \in Seq(Messages)
        /\ Clicks(b, n, at) = Press(b, n, at) \o Release(b, n, at)
    BY ClickType
  <2>2. Leaves(Press(b, n, at) \o Release(b, n, at), o, h, d)
    BY <1>2, <1>3, <1>4, <2>1, LeavesRow, Zenon
  <2> QED
    BY <2>1, <2>2
<1> QED
  BY <1>5, <1>6

(* A message that moves the cursor, or none, put behind others.            *)
LEMMA BringsRow ==
  ASSUME NEW M, NEW s \in Seq(M), NEW t \in Seq(M), NEW C, NEW stay \in BOOLEAN,
         Brings(s, C, stay), \A i \in DOMAIN t : t[i].type # "KeyEvent" => t[i].at \in C
  PROVE  Brings(s \o t, C, stay)
<1> DEFINE r == s \o t
<1>1. /\ Len(s) \in Nat /\ Len(t) \in Nat
      /\ DOMAIN s = 1..Len(s) /\ DOMAIN t = 1..Len(t) /\ DOMAIN r = 1..(Len(s) + Len(t))
      /\ \A i \in 1..Len(s) : r[i] = s[i]
      /\ \A i \in 1..Len(t) : r[Len(s) + i] = t[i]
  BY Row
<1> HIDE DEF r
<1> PICK n \in Nat, m \in Nat : n = Len(s) /\ m = Len(t)
  BY <1>1
<1>2. \A i \in 1..n : i \in DOMAIN r /\ r[i] = s[i]
  BY <1>1
<1>3. ASSUME NEW i \in DOMAIN r, LastMove(r, i) PROVE r[i].at \in C
  <2>1. CASE i \in 1..n
    <3>1. LastMove(s, i)
      BY <1>1, <1>2, <1>3, <2>1 DEF LastMove
    <3> QED
      BY <1>1, <1>2, <2>1, <3>1 DEF Brings
  <2>2. CASE i \notin 1..n
    <3>1. i - n \in 1..m /\ n + (i - n) = i
      BY <1>1, <2>2
    <3>2. r[i] = t[i - n]
      BY <1>1, <3>1
    <3> QED
      BY <1>1, <1>3, <3>1, <3>2 DEF LastMove
  <2> QED
    BY <2>1, <2>2
<1>4. ASSUME \A i \in DOMAIN r : r[i].type = "KeyEvent" PROVE stay
  BY <1>1, <1>2, <1>4 DEF Brings
<1> QED
  BY <1>3, <1>4 DEF Brings, r

(* A move or a click at the end of a row brings the cursor to its place.   *)
LEMMA BringsOne ==
  ASSUME NEW M, NEW s \in Seq(M), NEW m \in M, m.type # "KeyEvent",
         NEW C, NEW stay \in BOOLEAN, m.at \in C
  PROVE  Brings(s \o <<m>>, C, stay)
<1> DEFINE r == s \o <<m>>
<1>0. <<m>> \in Seq(M) /\ Len(<<m>>) = 1 /\ <<m>>[1] = m
  BY OneType
<1>1. /\ Len(s) \in Nat /\ DOMAIN r = 1..(Len(s) + Len(<<m>>))
      /\ \A i \in 1..Len(<<m>>) : r[Len(s) + i] = <<m>>[i]
  BY <1>0, Row
<1> HIDE DEF r
<1> PICK n \in Nat : n = Len(s)
  BY <1>1
<1>2. n + 1 \in DOMAIN r /\ r[n + 1] = m /\ \A i \in DOMAIN r : i \in Nat /\ i <= n + 1
  BY <1>0, <1>1
<1>3. ASSUME NEW i \in DOMAIN r, LastMove(r, i) PROVE r[i].at \in C
  <2>1. n + 1 <= i
    BY <1>2, <1>3 DEF LastMove
  <2>2. i = n + 1
    BY <1>2, <2>1
  <2> QED
    BY <1>2, <2>2
<1>4. ~(\A i \in DOMAIN r : r[i].type = "KeyEvent")
  BY <1>2
<1> QED
  BY <1>3, <1>4 DEF Brings, r

(* The first message is applied.                                           *)
LEMMA First ==
  ASSUME NEW M, NEW s \in Seq(M), s # <<>>
  PROVE  /\ Head(s) = s[1] /\ Head(s) \in M /\ Tail(s) \in Seq(M) /\ 1 \in DOMAIN s
         /\ \A i \in DOMAIN s : i = 1 \/ (i - 1 \in DOMAIN Tail(s) /\ Tail(s)[i - 1] = s[i])
         /\ \A i \in DOMAIN Tail(s) : i \in Nat /\ i + 1 \in DOMAIN s /\ Tail(s)[i] = s[i + 1]
<1> DEFINE t == Tail(s)
<1>1. /\ Head(s) \in M /\ t \in Seq(M) /\ Len(t) = Len(s) - 1
      /\ \A i \in 1..Len(t) : t[i] = s[i + 1]
  BY HeadTailProperties
<1>2. /\ Len(s) \in Nat /\ Len(t) \in Nat /\ DOMAIN s = 1..Len(s) /\ DOMAIN t = 1..Len(t)
  BY <1>1, LenProperties
<1>3. Head(s) = s[1]
  OBVIOUS
<1> HIDE DEF t
<1>4. \A i \in 1..Len(s) : i = 1 \/ i - 1 \in 1..Len(t)
  BY <1>1, <1>2
<1>5. \A i \in 1..Len(s) : i = 1 \/ t[i - 1] = s[i]
  <2> SUFFICES ASSUME NEW i \in 1..Len(s), i # 1 PROVE t[i - 1] = s[i]
    OBVIOUS
  <2>1. i - 1 \in 1..Len(t) /\ (i - 1) + 1 = i
    BY <1>4
  <2> QED
    BY <1>1, <2>1
<1>6. \A i \in 1..Len(t) : i \in Nat /\ i + 1 \in 1..Len(s)
  BY <1>1, <1>2
<1>7. 1 \in 1..Len(s)
  BY <1>1, <1>2
<1> QED
  BY <1>1, <1>2, <1>3, <1>4, <1>5, <1>6, <1>7 DEF t

(* When the first message of a row is applied, the others leave a button   *)
(* as the whole row would have.                                            *)
LEMMA LeavesFirst ==
  ASSUME NEW M, NEW s \in Seq(M), s # <<>>, NEW b, NEW h \in BOOLEAN, NEW d \in BOOLEAN,
         NEW c \in BOOLEAN, IF ClickOf(Head(s), b) THEN Head(s).pressed = c ELSE h = c,
         Leaves(s, b, h, d)
  PROVE  Leaves(Tail(s), b, c, d)
<1> DEFINE t == Tail(s)
<1>1. /\ Head(s) = s[1] /\ 1 \in DOMAIN s
      /\ \A i \in DOMAIN s : i = 1 \/ (i - 1 \in DOMAIN t /\ t[i - 1] = s[i])
      /\ \A i \in DOMAIN t : i \in Nat /\ i + 1 \in DOMAIN s /\ t[i] = s[i + 1]
  BY First
<1>2. DOMAIN s \subseteq Nat
  BY LenProperties
<1> HIDE DEF t
<1>3. ASSUME NEW i \in DOMAIN t, LastClick(t, b, i) PROVE t[i].pressed <=> d
  <2>1. ASSUME NEW j \in DOMAIN s, ClickOf(s[j], b) PROVE j <= i + 1
    <3>1. CASE j = 1
      BY <1>1, <3>1
    <3>2. CASE j # 1
      <4>1. j - 1 <= i
        BY <1>1, <1>3, <2>1, <3>2 DEF LastClick
      <4> QED
        BY <1>1, <1>2, <4>1
    <3> QED
      BY <3>1, <3>2
  <2>2. LastClick(s, b, i + 1)
    BY <1>1, <1>3, <2>1 DEF LastClick
  <2> QED
    BY <1>1, <2>2 DEF Leaves
<1>4. ASSUME \A i \in DOMAIN t : ~ClickOf(t[i], b) PROVE c <=> d
  <2>1. \A i \in DOMAIN s : ClickOf(s[i], b) => i = 1
    BY <1>1, <1>4
  <2>2. CASE ClickOf(s[1], b)
    <3>1. LastClick(s, b, 1)
      BY <1>1, <2>1, <2>2 DEF LastClick
    <3> QED
      BY <1>1, <2>2, <3>1 DEF Leaves
  <2>3. CASE ~ClickOf(s[1], b)
    <3>1. \A i \in DOMAIN s : ~ClickOf(s[i], b)
      BY <2>1, <2>3
    <3> QED
      BY <1>1, <2>3, <3>1 DEF Leaves
  <2> QED
    BY <2>2, <2>3
<1> QED
  BY <1>3, <1>4 DEF Leaves, t

(* When the first message of a row is applied, the others bring the cursor *)
(* where the whole row would have.                                         *)
LEMMA BringsFirst ==
  ASSUME NEW M, NEW s \in Seq(M), s # <<>>, NEW C, NEW stay \in BOOLEAN, NEW now \in BOOLEAN,
         IF Head(s).type = "KeyEvent" THEN stay => now ELSE Head(s).at \in C => now,
         Brings(s, C, stay)
  PROVE  Brings(Tail(s), C, now)
<1> DEFINE t == Tail(s)
<1>1. /\ Head(s) = s[1] /\ 1 \in DOMAIN s
      /\ \A i \in DOMAIN s : i = 1 \/ (i - 1 \in DOMAIN t /\ t[i - 1] = s[i])
      /\ \A i \in DOMAIN t : i \in Nat /\ i + 1 \in DOMAIN s /\ t[i] = s[i + 1]
  BY First
<1>2. DOMAIN s \subseteq Nat
  BY LenProperties
<1> HIDE DEF t
<1>3. ASSUME NEW i \in DOMAIN t, LastMove(t, i) PROVE t[i].at \in C
  <2>1. ASSUME NEW j \in DOMAIN s, s[j].type # "KeyEvent" PROVE j <= i + 1
    <3>1. CASE j = 1
      BY <1>1, <3>1
    <3>2. CASE j # 1
      <4>1. j - 1 <= i
        BY <1>1, <1>3, <2>1, <3>2 DEF LastMove
      <4> QED
        BY <1>1, <1>2, <4>1
    <3> QED
      BY <3>1, <3>2
  <2>2. LastMove(s, i + 1)
    BY <1>1, <1>3, <2>1 DEF LastMove
  <2> QED
    BY <1>1, <2>2 DEF Brings
<1>4. ASSUME \A i \in DOMAIN t : t[i].type = "KeyEvent" PROVE now
  <2>1. \A i \in DOMAIN s : s[i].type # "KeyEvent" => i = 1
    BY <1>1, <1>4
  <2>2. CASE s[1].type # "KeyEvent"
    <3>1. LastMove(s, 1)
      BY <1>1, <2>1, <2>2 DEF LastMove
    <3> QED
      BY <1>1, <2>2, <3>1 DEF Brings
  <2>3. CASE s[1].type = "KeyEvent"
    <3>1. \A i \in DOMAIN s : s[i].type = "KeyEvent"
      BY <2>1, <2>3
    <3> QED
      BY <1>1, <2>3, <3>1 DEF Brings
  <2> QED
    BY <2>2, <2>3
<1> QED
  BY <1>3, <1>4 DEF Brings, t

-----------------------------------------------------------------------------
(* What is under way, by its kind.                                         *)
LEMMA MessageType ==
  ASSUME NEW m \in Messages
  PROVE  /\ m.type \in {"MouseMove", "MouseClick", "KeyEvent"}
         /\ m.type # "KeyEvent" => m.at \in AllPoints
         /\ m.type = "MouseClick" => m.button \in Buttons /\ m.pressed \in BOOLEAN
         /\ m.type = "KeyEvent" => \E e \in KeyEvents : m = KeyEvent(e)
<1>1. CASE m \in Moves
  BY <1>1 DEF Moves
<1>2. CASE m \in ButtonClicks
  BY <1>2 DEF ButtonClicks
<1>3. CASE m \in KeyMessages
  BY <1>3 DEF KeyMessages, KeyEvent
<1> QED
  BY <1>1, <1>2, <1>3 DEF Messages

(* Every message under way that is not a key names a place.                *)
LEMMA ChannelType ==
  ASSUME NEW s \in Seq(Messages)
  PROVE  \A i \in DOMAIN s : s[i] \in Messages /\ (s[i].type = "KeyEvent" \/ s[i].at \in AllPoints)
BY MessageType, ElementOfSeq, LenProperties

(* The initial states satisfy the invariant.                               *)
LEMMA InitInv ==
  ASSUME Init
  PROVE  Inv
<1>1. chan \in Seq(Messages) /\ DOMAIN chan = {}
  BY DEF Init
<1>2. /\ Assumed \in Sizes /\ remote \in Sizes
  BY SizesAssumption DEF Init
<1>3. <<0, 0>> \in AllPoints
  <2>1. <<0, 0>> \in Points(Assumed)
    BY <1>2 DEF Sizes, Points
  <2> QED
    BY <2>1 DEF AllPoints
<1>4. TypeOK
  <2>1. cursor[1] \in 0..(remote[1] - 1) /\ cursor[2] \in 0..(remote[2] - 1)
    BY <1>2 DEF Init, Sizes
  <2>2. UnderWay = {}
    BY <1>1 DEF UnderWay
  <2> QED
    BY <1>3, <2>1, <2>2 DEF Init, TypeOK
<1>5. Mirror
  BY <1>1 DEF Init, Mirror, Leaves
<1> QED
  BY <1>1, <1>4, <1>5 DEF Init, Inv, Trail, Followed, KeyMade

(* The steps of the client without messages.                               *)
LEMMA QuietInv ==
  ASSUME Inv, UpdateScreen \/ Disconnect \/ Connect
  PROVE  Inv'
<1>1. UNCHANGED <<down, last_mouse_pos, chan, remote, cursor, held, typed, lapsed>>
  BY DEF UpdateScreen, Disconnect, Connect
<1>2. TypeOK'
  BY DEF Inv, TypeOK, UnderWay, UpdateScreen, Disconnect, Connect, AllPoints, Points, Places, Outside
<1>3. Mirror' /\ KeyMade'
  BY <1>1 DEF Inv, Mirror, KeyMade, Leaves, LastClick
<1>4. Trail'
  BY <1>1 DEF Inv, Trail, Brings, LastMove, ClosePlaces, move_mouse, UpdateScreen, Disconnect, Connect
<1>5. Followed'
  BY DEF Inv, Followed, UpdateScreen, Disconnect, Connect
<1> QED
  BY <1>1, <1>2, <1>3, <1>4, <1>5 DEF Inv

(* How the buttons and the memory of the place change in an update.        *)
LEMMA ChangesType ==
  ASSUME NEW n \in Changes
  PROVE  /\ n["Left"] \in 0..2 /\ n["Right"] \in 0..2
         /\ n["Left"] # 0 => "Left" \in Buttons
         /\ n["Right"] # 0 => "Right" \in Buttons
         /\ \A b \in Buttons : n[b] \in 0..2
BY ButtonsAssumption DEF Changes

(* An update without a connection: what the user does then is not sent,    *)
(* and the button lapses.                                                  *)
LEMMA OfflineInv ==
  ASSUME Inv, UpdateOffline
  PROVE  Inv'
<1>1. /\ UNCHANGED <<connected, screen_size, chan, remote, cursor, held, typed, aimed>>
      /\ ~connected /\ pointer' = Outside
  BY DEF UpdateOffline
<1>2. PICK n \in Changes : down' = Down(n) /\ lapsed' = Lapses(n, FALSE)
  BY DEF UpdateOffline
<1>3. last_mouse_pos' \in AllPoints
  BY OnScreenType DEF UpdateOffline, Remember, Inv, TypeOK
<1>4. TypeOK'
  <2>1. down' \subseteq Buttons /\ lapsed' \subseteq Buttons
    BY <1>2 DEF Down, Lapses
  <2>2. AllPoints' = AllPoints /\ UnderWay' = UnderWay
    BY <1>1 DEF AllPoints, Points, UnderWay
  <2> QED
    BY <1>1, <1>3, <2>1, <2>2 DEF Inv, TypeOK, Places, Points
<1>5. Mirror'
  <2> SUFFICES ASSUME NEW b \in Buttons, b \notin lapsed'
               PROVE  Leaves(chan, b, b \in held, b \in down')
    BY <1>1 DEF Mirror, Leaves, LastClick
  <2>1. n[b] = 0 /\ b \notin lapsed
    BY <1>2, ChangesType DEF Lapses
  <2>2. (b \in down') = (b \in down)
    BY <1>2, <2>1 DEF Down
  <2> QED
    BY <2>1, <2>2 DEF Inv, Mirror
<1> QED
  BY <1>1, <1>4, <1>5 DEF Inv, Trail, Followed, KeyMade

(* An update that sends key events.                                        *)
LEMMA KeysInv ==
  ASSUME Inv, UpdateKeys
  PROVE  Inv'
<1>1. /\ UNCHANGED <<down, pointer, connected, screen_size, last_mouse_pos, remote, cursor,
                     held, aimed, lapsed>>
      /\ typed' = NoKey
  BY DEF UpdateKeys
<1>2. PICK e \in KeyEvents : chan' = Append(chan, KeyEvent(e))
  BY DEF UpdateKeys
<1> DEFINE m == KeyEvent(e)
<1>3. m \in Messages /\ m.type = "KeyEvent" /\ <<m>> \in Seq(Messages)
  BY DEF Messages, KeyMessages, KeyEvent
<1> HIDE DEF m
<1>4. chan' = chan \o <<m>> /\ chan' \in Seq(Messages)
  <2>1. chan' = chan \o <<m>>
    BY <1>2, <1>3, AppendIsConcat DEF Inv, m
  <2> QED
    BY <1>3, <2>1, Row DEF Inv
<1>5. TypeOK'
  <2>1. AllPoints' = AllPoints /\ Places' = Places
    BY DEF AllPoints, Points, Places
  <2>2. \A x \in UnderWay' : x.type = "KeyEvent" \/ x.at \in AllPoints
    BY <1>4, ChannelType DEF UnderWay
  <2> QED
    BY <1>1, <2>1, <2>2 DEF Inv, TypeOK
<1>6. Mirror'
  <2> SUFFICES ASSUME NEW b \in Buttons \ lapsed
               PROVE  Leaves(chan \o <<m>>, b, b \in held, b \in down)
    BY <1>1, <1>4 DEF Mirror, Leaves, LastClick
  <2>1. ~ClickOf(m, b)
    BY <1>3 DEF ClickOf
  <2> DEFINE h == b \in held
             d == b \in down
  <2>2. Leaves(chan, b, h, d) /\ h \in BOOLEAN /\ d \in BOOLEAN
    BY DEF Inv, Mirror
  <2> HIDE DEF h, d
  <2>3. Leaves(<<m>>, b, d, d)
    BY <2>1, <2>2, LeavesOne
  <2>4. Leaves(chan \o <<m>>, b, h, d)
    BY <1>3, <2>2, <2>3, LeavesRow DEF Inv
  <2> QED
    BY <2>4 DEF h, d
<1>7. Trail'
  <2> DEFINE stay == \E at \in ClosePlaces : cursor = move_mouse(at)
  <2> SUFFICES ASSUME connected, aimed PROVE Brings(chan \o <<m>>, ClosePlaces, stay)
    BY <1>1, <1>4 DEF Trail, Brings, LastMove, ClosePlaces, move_mouse
  <2>1. Brings(chan, ClosePlaces, stay) /\ stay \in BOOLEAN
    BY DEF Inv, Trail
  <2> HIDE DEF stay
  <2>2. \A i \in DOMAIN <<m>> : <<m>>[i].type = "KeyEvent"
    BY <1>3
  <2> QED
    BY <1>3, <2>1, <2>2, BringsRow DEF Inv
<1>8. Followed' /\ KeyMade'
  BY <1>1 DEF Inv, Followed, KeyMade, ClosePlaces
<1> QED
  BY <1>4, <1>5, <1>6, <1>7, <1>8 DEF Inv

(* The server applies the next message.                                    *)
LEMMA ApplyInv ==
  ASSUME Inv, Apply
  PROVE  Inv'
<1> DEFINE m == Head(chan)
<1>1. /\ UNCHANGED <<down, pointer, connected, screen_size, last_mouse_pos, remote, aimed, lapsed>>
      /\ chan # <<>> /\ chan' = Tail(chan)
      /\ cursor' = IF m.type = "KeyEvent" THEN cursor ELSE move_mouse(m.at)
      /\ held' = IF m.type # "MouseClick" THEN held
                 ELSE IF m.pressed THEN held \cup {m.button} ELSE held \ {m.button}
      /\ typed' = IF m.type # "KeyEvent" THEN NoKey ELSE << KeyFor(m.name), m.pressed, m.of >>
  BY DEF Apply
<1>2. m \in Messages /\ chan' \in Seq(Messages)
  BY <1>1, First DEF Inv
<1>3. /\ m.type # "KeyEvent" => m.at \in AllPoints
      /\ m.type = "MouseClick" => m.button \in Buttons /\ m.pressed \in BOOLEAN
      /\ m.type = "KeyEvent" => \E e \in KeyEvents : m = KeyEvent(e)
  BY <1>2, MessageType
<1> HIDE DEF m
<1>4. TypeOK'
  <2>1. AllPoints' = AllPoints /\ Places' = Places
    BY DEF AllPoints, Points, Places
  <2>2. \A x \in UnderWay' : x.type = "KeyEvent" \/ x.at \in AllPoints
    BY <1>2, ChannelType DEF UnderWay
  <2>3. cursor'[1] \in 0..(remote[1] - 1) /\ cursor'[2] \in 0..(remote[2] - 1)
    <3>1. CASE m.type = "KeyEvent"
      BY <1>1, <3>1 DEF Inv, TypeOK
    <3>2. CASE m.type # "KeyEvent"
      <4>1. /\ m.at[1] \in Nat /\ m.at[2] \in Nat
            /\ remote[1] \in Nat \ {0} /\ remote[2] \in Nat \ {0}
        BY <1>3, <3>2, PointType, SizesAssumption DEF Inv, TypeOK, Sizes
      <4>2. /\ Inside(m.at[1], remote[1]) \in 0..(remote[1] - 1)
            /\ Inside(m.at[2], remote[2]) \in 0..(remote[2] - 1)
        BY <4>1 DEF Inside
      <4> QED
        BY <1>1, <3>2, <4>2 DEF move_mouse
    <3> QED
      BY <3>1, <3>2
  <2>4. held' \subseteq Buttons
    BY <1>1, <1>3 DEF Inv, TypeOK
  <2> QED
    BY <1>1, <2>1, <2>2, <2>3, <2>4 DEF Inv, TypeOK
<1>5. Mirror'
  <2> SUFFICES ASSUME NEW b \in Buttons \ lapsed
               PROVE  Leaves(Tail(chan), b, b \in held', b \in down)
    BY <1>1 DEF Mirror, Leaves, LastClick
  <2> DEFINE h == b \in held
             c == b \in held'
             d == b \in down
  <2>1. Leaves(chan, b, h, d) /\ h \in BOOLEAN /\ c \in BOOLEAN /\ d \in BOOLEAN
    BY DEF Inv, Mirror
  <2>2. IF ClickOf(m, b) THEN m.pressed = c ELSE h = c
    BY <1>1, <1>3 DEF ClickOf
  <2> HIDE DEF h, c, d
  <2>3. Leaves(Tail(chan), b, c, d)
    BY <1>1, <2>1, <2>2, LeavesFirst DEF Inv, m
  <2> QED
    BY <2>3 DEF c, d
<1>6. Trail'
  <2> DEFINE stay == \E at \in ClosePlaces : cursor = move_mouse(at)
             now == \E at \in ClosePlaces : cursor' = move_mouse(at)
  <2> SUFFICES ASSUME connected, aimed PROVE Brings(Tail(chan), ClosePlaces, now)
    BY <1>1 DEF Trail, Brings, LastMove, ClosePlaces, move_mouse
  <2>1. Brings(chan, ClosePlaces, stay) /\ stay \in BOOLEAN /\ now \in BOOLEAN
    BY DEF Inv, Trail
  <2>2. IF m.type = "KeyEvent" THEN stay => now ELSE m.at \in ClosePlaces => now
    BY <1>1
  <2> HIDE DEF stay, now
  <2> QED
    BY <1>1, <2>1, <2>2, BringsFirst DEF Inv, m
<1>7. Followed'
  BY <1>1 DEF Inv, Followed, ClosePlaces
<1>8. KeyMade'
  <2>1. CASE m.type # "KeyEvent"
    BY <1>1, <2>1 DEF KeyMade
  <2>2. CASE m.type = "KeyEvent"
    <3>1. PICK e \in KeyEvents : m = KeyEvent(e)
      BY <1>3, <2>2
    <3>2. e.key \in DOMAIN Named /\ m.name = format_key(e.key) /\ m.of = e.key
      BY <3>1 DEF KeyEvents, KeyEvent
    <3>3. KeyFor(m.name) = Meaning[m.of]
      BY <3>2, KeyNames
    <3>4. typed'[1] = KeyFor(m.name) /\ typed'[3] = m.of
      BY <1>1, <2>2
    <3> QED
      BY <3>3, <3>4 DEF KeyMade
  <2> QED
    BY <2>1, <2>2
<1> QED
  BY <1>2, <1>4, <1>5, <1>6, <1>7, <1>8 DEF Inv

(* A connection that is lost takes with it the clicks under way, and their *)
(* buttons lapse.                                                          *)
LEMMA LostInv ==
  ASSUME Inv, ConnectionLost
  PROVE  Inv'
<1>1. /\ UNCHANGED <<down, screen_size, last_mouse_pos, remote, held, aimed>>
      /\ connected' = FALSE /\ pointer' = Outside /\ chan' = <<>> /\ typed' = NoKey
      /\ lapsed' = lapsed \cup {m.button : m \in {m \in UnderWay : m.type = "MouseClick"}}
  BY DEF ConnectionLost
<1>2. \A m \in UnderWay : m \in Messages
  BY ChannelType DEF Inv, UnderWay
<1>3. chan' \in Seq(Messages) /\ DOMAIN chan' = {}
  BY <1>1
<1>4. cursor'[1] \in 0..(remote[1] - 1) /\ cursor'[2] \in 0..(remote[2] - 1)
  <2>1. CASE cursor' = cursor
    BY <2>1 DEF Inv, TypeOK
  <2>2. CASE \E m \in UnderWay : m.type = "MouseClick" /\ cursor' = move_mouse(m.at)
    <3> PICK m \in UnderWay : m.type = "MouseClick" /\ cursor' = move_mouse(m.at)
      BY <2>2
    <3>1. m.at \in AllPoints
      BY <1>2, MessageType
    <3>2. /\ m.at[1] \in Nat /\ m.at[2] \in Nat
          /\ remote[1] \in Nat \ {0} /\ remote[2] \in Nat \ {0}
      BY <3>1, PointType, SizesAssumption DEF Inv, TypeOK, Sizes
    <3>3. /\ Inside(m.at[1], remote[1]) \in 0..(remote[1] - 1)
          /\ Inside(m.at[2], remote[2]) \in 0..(remote[2] - 1)
      BY <3>2 DEF Inside
    <3> QED
      BY <3>3 DEF move_mouse
  <2> QED
    BY <2>1, <2>2 DEF ConnectionLost
<1>5. TypeOK'
  <2>1. AllPoints' = AllPoints /\ Places' = Places
    BY DEF AllPoints, Points, Places
  <2>2. UnderWay' = {}
    BY <1>3 DEF UnderWay
  <2>3. lapsed' \subseteq Buttons
    BY <1>1, <1>2, MessageType DEF Inv, TypeOK
  <2> QED
    BY <1>1, <1>4, <2>1, <2>2, <2>3 DEF Inv, TypeOK
<1>6. Mirror'
  <2> SUFFICES ASSUME NEW b \in Buttons, b \notin lapsed' PROVE b \in held <=> b \in down
    BY <1>1, <1>3 DEF Mirror, Leaves
  <2>1. b \notin lapsed /\ \A m \in UnderWay : ~ClickOf(m, b)
    BY <1>1 DEF ClickOf
  <2>2. \A i \in DOMAIN chan : ~ClickOf(chan[i], b)
    BY <2>1 DEF UnderWay
  <2> QED
    BY <2>1, <2>2 DEF Inv, Mirror, Leaves
<1> QED
  BY <1>1, <1>3, <1>5, <1>6 DEF Inv, Trail, Followed, KeyMade

(* An update with the pointer over the image.                              *)
LEMMA MouseInv ==
  ASSUME Inv, UpdateMouse
  PROVE  Inv'
<1>1. PICK place \in Places \cup {Outside}, n \in Changes :
        LET seen == place # Outside
            at == OnScreen(place, screen_size)
        IN  /\ connected
            /\ pointer' = place /\ down' = Down(n) /\ lapsed' = Lapses(n, seen)
            /\ IF seen
               THEN /\ last_mouse_pos' = Remember(at)
                    /\ aimed' = (aimed \/ Significant(at))
                    /\ chan' = chan \o MouseMove(at) \o Clicks("Left", n["Left"], at)
                                    \o Clicks("Right", n["Right"], at)
               ELSE UNCHANGED <<last_mouse_pos, aimed, chan>>
            /\ typed' = NoKey
            /\ UNCHANGED <<connected, screen_size, remote, cursor, held>>
  BY DEF UpdateMouse
<1>2. /\ connected /\ typed' = NoKey /\ UNCHANGED <<connected, screen_size, remote, cursor, held>>
      /\ pointer' = place /\ down' = Down(n) /\ lapsed' = Lapses(n, place # Outside)
  BY <1>1
<1>3. down' \subseteq Buttons /\ lapsed' \subseteq Buttons
  BY <1>2 DEF Down, Lapses
<1>4. AllPoints' = AllPoints /\ Places' = Places
  BY DEF AllPoints, Points, Places
<1>5. CASE place = Outside
  <2>1. UNCHANGED <<last_mouse_pos, aimed, chan>>
    BY <1>1, <1>5
  <2>2. TypeOK'
    BY <1>2, <1>3, <1>4, <2>1 DEF Inv, TypeOK, UnderWay
  <2>3. Mirror'
    <3> SUFFICES ASSUME NEW b \in Buttons, b \notin lapsed'
                 PROVE  Leaves(chan, b, b \in held, b \in down')
      BY <1>2, <2>1 DEF Mirror, Leaves, LastClick
    <3>1. n[b] = 0 /\ b \notin lapsed
      BY <1>2, <1>5, ChangesType DEF Lapses
    <3>2. (b \in down') = (b \in down)
      BY <1>2, <3>1 DEF Down
    <3> QED
      BY <3>1, <3>2 DEF Inv, Mirror
  <2>4. Trail'
    BY <1>2, <2>1 DEF Inv, Trail, Brings, LastMove, ClosePlaces, move_mouse
  <2> QED
    BY <1>2, <1>5, <2>1, <2>2, <2>3, <2>4 DEF Inv, Followed, KeyMade
<1>6. CASE place # Outside
  <2> DEFINE at == OnScreen(place, screen_size)
             mm == MouseMove(at)
             cl == Clicks("Left", n["Left"], at)
             cr == Clicks("Right", n["Right"], at)
  <2>1. /\ last_mouse_pos' = Remember(at)
        /\ aimed' = (aimed \/ Significant(at))
        /\ chan' = chan \o mm \o cl \o cr
    BY <1>1, <1>6
  <2>2. at \in AllPoints
    BY <1>6, OnScreenType DEF Inv, TypeOK
  <2>3. mm \in Seq(Messages) /\ (Significant(at) => mm = << [type |-> "MouseMove", at |-> at] >>)
    <3>1. [type |-> "MouseMove", at |-> at] \in Messages
      BY <2>2 DEF Messages, Moves
    <3> QED
      BY <3>1, OneType, EmptySeq DEF MouseMove
  <2>4. cl \in Seq(Messages) /\ cr \in Seq(Messages)
    BY <2>2, ChangesType, ClickType
  <2>5. /\ chan \o mm \in Seq(Messages) /\ chan \o mm \o cl \in Seq(Messages)
        /\ chan \o mm \o cl \o cr \in Seq(Messages)
    <3> HIDE DEF mm, cl, cr
    <3>1. chan \o mm \in Seq(Messages)
      BY <2>3, Row DEF Inv
    <3>2. chan \o mm \o cl \in Seq(Messages)
      BY <2>4, <3>1, Row
    <3> QED
      BY <2>4, <3>1, <3>2, Row
  <2>6. last_mouse_pos' \in AllPoints /\ at \in ClosePlaces'
    <3>1. last_mouse_pos' = IF Significant(at) THEN at ELSE last_mouse_pos
      BY <2>1 DEF Remember
    <3>2. last_mouse_pos' \in AllPoints
      BY <2>2, <3>1 DEF Inv, TypeOK
    <3>3. Distance2(at, last_mouse_pos') <= 1
      <4>1. at[1] \in Nat /\ at[2] \in Nat /\ last_mouse_pos[1] \in Nat /\ last_mouse_pos[2] \in Nat
        BY <2>2, PointType DEF Inv, TypeOK
      <4> HIDE DEF at
      <4>2. Distance2(at, at) = 0 /\ Distance2(at, last_mouse_pos) \in Int
        BY <4>1 DEF Distance2
      <4> QED
        BY <3>1, <4>2 DEF Significant
    <3> QED
      BY <1>4, <2>2, <3>2, <3>3 DEF ClosePlaces, Distance2
  <2>7. TypeOK'
    <3>1. \A x \in UnderWay' : x.type = "KeyEvent" \/ x.at \in AllPoints
      BY <2>1, <2>5, ChannelType DEF UnderWay
    <3>2. aimed' \in BOOLEAN
      BY <2>1 DEF Inv, TypeOK, Significant
    <3> QED
      BY <1>2, <1>3, <1>4, <2>6, <3>1, <3>2 DEF Inv, TypeOK
  <2>8. Mirror'
    <3> SUFFICES ASSUME NEW b \in Buttons, b \notin lapsed'
                 PROVE  Leaves(chan \o mm \o cl \o cr, b, b \in held, b \in down')
      BY <1>2, <2>1 DEF Mirror, Leaves, LastClick
    <3> DEFINE h == b \in held
               o == b \in down
               d == b \in down'
    <3>1. h \in BOOLEAN /\ o \in BOOLEAN /\ d \in BOOLEAN
      OBVIOUS
    <3>2. /\ b \in {"Left", "Right"} /\ n[b] \in 0..2
          /\ n[b] = 0 => b \notin lapsed
          /\ n[b] > 0 => d = (n[b] = 1 /\ b \notin down)
          /\ n[b] = 0 => d = o
      BY <1>2, ButtonsAssumption, ChangesType DEF Lapses, Down
    <3>3. n[b] = 0 => Leaves(chan, b, h, o)
      BY <3>2 DEF Inv, Mirror
    <3>4. ASSUME NEW x \in BOOLEAN PROVE Leaves(mm, b, x, x)
      <4>1. ~ClickOf([type |-> "MouseMove", at |-> at], b)
        BY DEF ClickOf
      <4> QED
        BY <4>1, LeavesOne, LeavesNone DEF MouseMove
    <3>5. ASSUME NEW x \in BOOLEAN
          PROVE  Leaves(cl, b, x, IF b = "Left" /\ n["Left"] > 0
                                  THEN n["Left"] = 1 /\ "Left" \notin down ELSE x)
      BY <2>2, ChangesType, ClicksLeave
    <3>6. ASSUME NEW x \in BOOLEAN
          PROVE  Leaves(cr, b, x, IF b = "Right" /\ n["Right"] > 0
                                  THEN n["Right"] = 1 /\ "Right" \notin down ELSE x)
      BY <2>2, ChangesType, ClicksLeave
    <3> HIDE DEF at, mm, cl, cr, h, o, d
    <3>7. Leaves(chan \o mm \o cl \o cr, b, h, d)
      <4>1. CASE n[b] = 0
        <5>1. d = o /\ Leaves(cl, b, o, o) /\ Leaves(cr, b, o, o)
          BY <3>1, <3>2, <3>5, <3>6, <4>1
        <5>2. Leaves(chan \o mm, b, h, o)
          BY <2>3, <3>1, <3>3, <3>4, <4>1, LeavesRow DEF Inv
        <5>3. Leaves(chan \o mm \o cl, b, h, o)
          BY <2>4, <2>5, <3>1, <5>1, <5>2, LeavesRow
        <5>4. Leaves(chan \o mm \o cl \o cr, b, h, o)
          BY <2>4, <2>5, <3>1, <5>1, <5>3, LeavesRow
        <5> QED
          BY <5>1, <5>4
      <4>2. CASE n[b] > 0 /\ b = "Left"
        <5>1. /\ Leaves(cl, b, TRUE, d) /\ Leaves(cl, b, FALSE, d) /\ Leaves(cr, b, d, d)
          BY <3>1, <3>2, <3>5, <3>6, <4>2
        <5>2. Leaves(chan \o mm \o cl, b, h, d)
          BY <2>4, <2>5, <3>1, <5>1, LeavesTold
        <5> QED
          BY <2>4, <2>5, <3>1, <5>1, <5>2, LeavesRow
      <4>3. CASE n[b] > 0 /\ b = "Right"
        <5>1. /\ Leaves(cr, b, TRUE, d) /\ Leaves(cr, b, FALSE, d)
          BY <3>1, <3>2, <3>6, <4>3
        <5> QED
          BY <2>4, <2>5, <3>1, <5>1, LeavesTold
      <4> QED
        BY <3>2, <4>1, <4>2, <4>3
    <3> QED
      BY <3>7 DEF h, d
  <2>9. Trail'
    <3> DEFINE C == ClosePlaces'
               stay == \E x \in C : cursor = move_mouse(x)
    <3> SUFFICES ASSUME aimed' PROVE Brings(chan \o mm \o cl \o cr, C, stay)
      BY <1>2, <2>1 DEF Trail, Brings, LastMove, move_mouse
    <3>1. stay \in BOOLEAN
      OBVIOUS
    <3>2. /\ \A i \in DOMAIN cl : cl[i].at = at
          /\ \A i \in DOMAIN cr : cr[i].at = at
      BY <2>2, ChangesType, ClicksPlace
    <3>3. Brings(chan \o mm, C, stay)
      <4>1. CASE Significant(at)
        <5> DEFINE m == [type |-> "MouseMove", at |-> at]
        <5>1. m \in Messages /\ m.type # "KeyEvent" /\ m.at \in C
          BY <2>2, <2>6 DEF Messages, Moves
        <5>2. mm = <<m>>
          BY <2>3, <4>1
        <5> HIDE DEF m, mm, C, stay
        <5> QED
          BY <3>1, <5>1, <5>2, BringsOne DEF Inv
      <4>2. CASE ~Significant(at)
        <5>1. aimed /\ last_mouse_pos' = last_mouse_pos /\ mm = <<>>
          BY <2>1, <4>2 DEF Remember, MouseMove
        <5>2. C = ClosePlaces
          BY <1>4, <5>1 DEF ClosePlaces
        <5>3. Brings(chan, C, stay)
          BY <1>2, <5>1, <5>2 DEF Inv, Trail
        <5>4. chan \o mm = chan
          BY <5>1, ConcatEmptySeq DEF Inv
        <5> QED
          BY <5>3, <5>4
      <4> QED
        BY <4>1, <4>2
    <3>4. at \in C
      BY <2>6
    <3> HIDE DEF at, mm, cl, cr, C, stay
    <3>5. Brings(chan \o mm \o cl, C, stay)
      BY <2>4, <2>5, <3>1, <3>2, <3>3, <3>4, BringsRow
    <3> QED
      BY <2>4, <2>5, <3>1, <3>2, <3>4, <3>5, BringsRow
  <2>10. Followed'
    <3>1. OnScreen(pointer, screen_size)' = at
      BY <1>2 DEF OnScreen
    <3> QED
      BY <1>2, <2>6, <3>1 DEF Followed
  <2> QED
    BY <1>2, <2>1, <2>5, <2>7, <2>8, <2>9, <2>10 DEF Inv, KeyMade
<1> QED
  BY <1>5, <1>6

(* Every step keeps the invariant.                                         *)
LEMMA NextInv ==
  ASSUME Inv, [Next]_vars
  PROVE  Inv'
<1>1. CASE Next
  BY <1>1, QuietInv, OfflineInv, KeysInv, ApplyInv, LostInv, MouseInv DEF Next
<1>2. CASE UNCHANGED vars
  <2>1. TypeOK'
    BY <1>2 DEF vars, Inv, TypeOK, UnderWay, AllPoints, Points, Places
  <2>2. Mirror' /\ KeyMade'
    BY <1>2 DEF vars, Inv, Mirror, Leaves, LastClick, KeyMade
  <2>3. Trail' /\ Followed'
    BY <1>2 DEF vars, Inv, Trail, Followed, Brings, LastMove, ClosePlaces, move_mouse
  <2> QED
    BY <1>2, <2>1, <2>2, <2>3 DEF vars, Inv
<1> QED
  BY <1>1, <1>2

(* So it holds in every reachable state.                                   *)
LEMMA Invariance == Spec => []Inv
<1>1. Init => Inv
  BY InitInv
<1>2. Inv /\ [Next]_vars => Inv'
  BY NextInv
<1> QED
  BY <1>1, <1>2, PTL DEF Spec

(* What goes over the connection are places of the screens, their right    *)
(* and lower edge included, and the cursor stays on the remote screen      *)
(* (show_remote_screen in client/app.rs, server/input_handler.rs).         *)
THEOREM TypeCorrect == Spec => []TypeOK
<1>1. Inv => TypeOK
  BY DEF Inv
<1> QED
  BY <1>1, Invariance, PTL

(* The remote buttons are those of the user whenever nothing is under way, *)
(* but for the lapses that the property names, and those end with the      *)
(* button's next change over the image.                                    *)
THEOREM ButtonsMirrored == Spec => []ButtonsMirror
<1>1. ASSUME Inv PROVE ButtonsMirror
  BY <1>1 DEF Inv, Mirror, Leaves, ButtonsMirror
<1> QED
  BY <1>1, Invariance, PTL

(* The moves of a pixel that are not sent do not add up: the remote cursor *)
(* is never more than two pixels from the user's pointer.                  *)
THEOREM PointerFollowed == Spec => []PointerNear
<1>1. ASSUME Inv PROVE PointerNear
  <2> SUFFICES ASSUME connected, chan = <<>>, aimed, pointer # Outside, screen_size = remote
               PROVE  Distance2(cursor, move_mouse(OnScreen(pointer, remote))) <= 4
    BY DEF PointerNear
  <2>1. PICK at \in ClosePlaces : cursor = move_mouse(at)
    BY <1>1 DEF Inv, Trail, Brings
  <2>2. OnScreen(pointer, remote) \in ClosePlaces
    BY <1>1 DEF Inv, Followed
  <2> QED
    BY <1>1, <2>1, <2>2, CloseToEachOther DEF Inv
<1> QED
  BY <1>1, Invariance, PTL

(* The key that the server presses is the one that the user pressed.       *)
THEOREM KeysAgree == Spec => []KeysFaithful
<1>1. ASSUME Inv PROVE KeysFaithful
  BY <1>1, KeyNames DEF Inv, KeyMade, KeysFaithful
<1> QED
  BY <1>1, Invariance, PTL
=============================================================================
