---------------------------- MODULE InputEvents ----------------------------
(***************************************************************************)
(* Remote control: the user's mouse and keyboard at the client             *)
(* (VoxApp::show_remote_screen and format_key), the messages made of them, *)
(* and what the server does with them (handle_mouse_move,                  *)
(* handle_mouse_click, handle_key_event and InputHandler).                 *)
(*                                                                         *)
(* The client looks at its input once per update: the pointer is where it  *)
(* is then, a button that went down or up since the last update is only    *)
(* known to have done so, and keys come as events.  What the user did      *)
(* between two updates is the input of UpdateMouse.  The place of the      *)
(* pointer over the image is a fraction of its width and height, in steps  *)
(* of 1/Grid.                                                              *)
(* The messages of one connection arrive in order (Framing); the picture   *)
(* and the life of the connection are VoxSystem's and VideoPipeline's.     *)
(***************************************************************************)
EXTENDS Integers, Sequences, FiniteSets

CONSTANTS Grid,       \* steps of the pointer's place, in both directions
          Assumed,    \* screen_size before the first frame: (1920, 1080)
          Screens,    \* sizes the remote screen may have
          Buttons,    \* buttons of the mouse that are used
          Keys,       \* keys of the client's keyboard
          MaxBacklog  \* messages under way when the client updates, at most

Sizes == (Nat \ {0}) \X (Nat \ {0})
ASSUME SizesAssumption ==
    /\ Grid \in Sizes /\ Assumed \in Sizes /\ Screens \subseteq Sizes /\ MaxBacklog \in Nat
ASSUME ButtonsAssumption == Buttons \subseteq {"Left", "Right"}

VARIABLES down,           \* buttons held down at the client
          pointer,        \* place over the image at the last update, or Outside; Outside
                          \* also when the picture changed since
          connected,      \* the state is Connected and tx is there
          screen_size, last_mouse_pos,   \* fields of VoxApp
          chan,           \* messages under way
          remote,         \* size of the remote screen
          cursor, held,   \* the remote cursor and the buttons held down there
          typed,          \* history: the key event made by the last message
          aimed,          \* history: a MouseMove was sent on this connection
          lapsed          \* history: buttons whose last change was not passed on

vars == <<down, pointer, connected, screen_size, last_mouse_pos, chan, remote,
          cursor, held, typed, aimed, lapsed>>

Outside == <<>>
NoKey == <<>>
Points(size) == (0..size[1]) \X (0..size[2])
Places == Points(Grid)
AllPoints == UNION {Points(size) : size \in Screens \cup {Assumed}}

UnderWay == {chan[i] : i \in DOMAIN chan}

TypeOK ==
    /\ down \subseteq Buttons /\ held \subseteq Buttons /\ lapsed \subseteq Buttons
    /\ pointer \in Places \cup {Outside}
    /\ connected \in BOOLEAN /\ aimed \in BOOLEAN
    /\ remote \in Screens /\ screen_size \in Screens \cup {Assumed}
    /\ last_mouse_pos \in AllPoints
    /\ cursor[1] \in 0..(remote[1] - 1) /\ cursor[2] \in 0..(remote[2] - 1)
    /\ \A m \in UnderWay : m.type = "KeyEvent" \/ m.at \in AllPoints

Init ==
    /\ down = {} /\ pointer = Outside /\ connected = TRUE
    /\ screen_size = Assumed /\ last_mouse_pos = <<0, 0>>
    /\ chan = <<>> /\ remote \in Screens
    /\ cursor = <<0, 0>> /\ held = {} /\ typed = NoKey
    /\ aimed = FALSE /\ lapsed = {}

-----------------------------------------------------------------------------
(* The mouse at the client.                                                *)

(* Wrong variant: rounded up, and one further.                             *)
RoundUp(a, b) == a \div b + 1

(* f32::round of a / b, for what is not negative.                          *)
Round(a, b) == (2 * a + b) \div (2 * b)

(* The place in the coordinates of a screen of this size.  The right and   *)
(* the lower edge of the image belong to it (Rect::contains), so that a    *)
(* coordinate may be the size itself.                                      *)
OnScreen(place, size) ==
    << Round(place[1] * size[1], Grid[1]), Round(place[2] * size[2], Grid[2]) >>

Distance2(a, b) == (a[1] - b[1]) * (a[1] - b[1]) + (a[2] - b[2]) * (a[2] - b[2])

(* "if position changed significantly": by more than one pixel.            *)
Significant(at) == Distance2(at, last_mouse_pos) > 1

(* Wrong variant: the place is remembered whether or not it was sent.      *)
RememberAlways(at) == at

(* last_mouse_pos is the last place that was sent.                         *)
Remember(at) == IF Significant(at) THEN at ELSE last_mouse_pos

MouseMove(at) ==
    IF Significant(at) THEN << [type |-> "MouseMove", at |-> at] >> ELSE <<>>

Click(b, pressed, at) == [type |-> "MouseClick", button |-> b, pressed |-> pressed, at |-> at]

(* What egui tells of a button that changed n times since the last update: *)
(* that it was pressed, and that it was released.                          *)
Pressed(b, n) == n > 1 \/ (n = 1 /\ b \notin down)
Released(b, n) == n > 1 \/ (n = 1 /\ b \in down)

(* Wrong variant: the release goes first.                                  *)
ClicksReleaseFirst(b, n, at) ==
    (IF Released(b, n) THEN << Click(b, FALSE, at) >> ELSE <<>>)
        \o (IF Pressed(b, n) THEN << Click(b, TRUE, at) >> ELSE <<>>)

(* primary_pressed before primary_released, whatever their order was.      *)
Clicks(b, n, at) ==
    (IF Pressed(b, n) THEN << Click(b, TRUE, at) >> ELSE <<>>)
        \o (IF Released(b, n) THEN << Click(b, FALSE, at) >> ELSE <<>>)

-----------------------------------------------------------------------------
(* The keyboard.  A name is its first character and the rest.              *)

Blank == " "
NoRest == ""

Named == [ Enter     |-> <<"R", "eturn">>,    Escape   |-> <<"E", "scape">>,
           Backspace |-> <<"B", "ackSpace">>, Tab      |-> <<"T", "ab">>,
           ArrowDown |-> <<"D", "own">>,      ArrowLeft |-> <<"L", "eft">>,
           ArrowRight |-> <<"R", "ight">>,    ArrowUp  |-> <<"U", "p">>,
           Space     |-> <<Blank, NoRest>>,   A |-> <<"a", NoRest>>,
           Num0      |-> <<"0", NoRest>> ]

(* Wrong variant: the client uses its own name of the key.                 *)
format_key_own(key) == IF key = "Backspace" THEN <<"B", "ackspace">> ELSE Named[key]

(* format_key, for the keys that have a name; the others are not sent.     *)
format_key(key) == Named[key]

(* InputHandler::key_event: the key for a name, or the character that the  *)
(* name begins with.  The modifiers are not looked at.                     *)
KeyTable == { << <<"R", "eturn">>, "Return" >>,  << <<"E", "nter">>, "Return" >>,
              << <<"T", "ab">>, "Tab" >>,        << <<"S", "pace">>, "Space" >>,
              << <<Blank, NoRest>>, "Space" >>,  << <<"E", "scape">>, "Escape" >>,
              << <<"B", "ackSpace">>, "Backspace" >>,
              << <<"U", "p">>, "UpArrow" >>,     << <<"D", "own">>, "DownArrow" >>,
              << <<"L", "eft">>, "LeftArrow" >>, << <<"R", "ight">>, "RightArrow" >> }

KeyFor(name) ==
    IF \E e \in KeyTable : e[1] = name
    THEN (CHOOSE e \in KeyTable : e[1] = name)[2]
    ELSE name[1]

KeyEvents == [type : {"KeyEvent"}, key : Keys \cap DOMAIN Named, pressed : BOOLEAN]

KeyEvent(e) == [type |-> "KeyEvent", name |-> format_key(e.key), of |-> e.key, pressed |-> e.pressed]

-----------------------------------------------------------------------------
(* How often the user pressed or released each button since the last       *)
(* update.                                                                 *)
Changes == {n \in [{"Left", "Right"} -> 0..2] : \A b \in DOMAIN n \ Buttons : n[b] = 0}
Down(n) == {b \in Buttons : IF n[b] = 1 THEN b \notin down ELSE b \in down}

(* Buttons about whose last change the server is not told, or is told in   *)
(* the wrong order: it came while the pointer was outside the image or     *)
(* there was no connection, or the button was released and pressed again   *)
(* between two updates.                                                    *)
Lapses(n, seen) ==
    {b \in Buttons : \/ n[b] = 0 /\ b \in lapsed
                     \/ n[b] > 0 /\ ~seen
                     \/ n[b] > 1 /\ b \in Down(n)}

(* An update of the connected client, first half: the mouse, if it is over *)
(* the image.                                                              *)
UpdateMouse ==
    \E place \in Places \cup {Outside}, n \in Changes :
        LET seen == place # Outside
            at == OnScreen(place, screen_size)
        IN  /\ connected /\ Len(chan) <= MaxBacklog
            /\ pointer' = place
            /\ down' = Down(n)
            /\ lapsed' = Lapses(n, seen)
            /\ IF seen
               THEN /\ last_mouse_pos' = Remember(at)
                    /\ aimed' = (aimed \/ Significant(at))
                    /\ chan' = chan \o MouseMove(at) \o Clicks("Left", n["Left"], at)
                                    \o Clicks("Right", n["Right"], at)
               ELSE UNCHANGED <<last_mouse_pos, aimed, chan>>
            /\ typed' = NoKey
            /\ UNCHANGED <<connected, screen_size, remote, cursor, held>>

(* Second half: the key events, one at a time, wherever the pointer is.    *)
UpdateKeys ==
    /\ connected /\ Len(chan) <= MaxBacklog
    /\ \E e \in KeyEvents : chan' = Append(chan, KeyEvent(e))
    /\ typed' = NoKey
    /\ UNCHANGED <<down, pointer, connected, screen_size, last_mouse_pos, remote, cursor,
                   held, aimed, lapsed>>

(* Without a connection the input of an update goes nowhere; an app that   *)
(* has not noticed yet still remembers the place.                          *)
UpdateOffline ==
    /\ ~connected
    /\ pointer' = Outside
    /\ \E n \in Changes : down' = Down(n) /\ lapsed' = Lapses(n, FALSE)
    /\ last_mouse_pos' \in
          {last_mouse_pos} \cup {Remember(OnScreen(place, screen_size)) : place \in Places}
    /\ UNCHANGED <<connected, screen_size, chan, remote, cursor, held, typed, aimed>>

(* update_screen: a frame tells the size of the remote screen.             *)
UpdateScreen ==
    /\ connected
    /\ screen_size' = remote
    /\ pointer' = Outside
    /\ UNCHANGED <<down, connected, last_mouse_pos, chan, remote, cursor, held, typed,
                   aimed, lapsed>>

(* disconnect: what was sent before is still delivered.  Neither           *)
(* last_mouse_pos nor screen_size is reset.                                *)
Disconnect ==
    /\ connected
    /\ connected' = FALSE
    /\ pointer' = Outside
    /\ UNCHANGED <<down, screen_size, last_mouse_pos, chan, remote, cursor, held, typed,
                   aimed, lapsed>>

Connect ==
    /\ ~connected /\ chan = <<>>
    /\ connected' = TRUE
    /\ aimed' = FALSE
    /\ UNCHANGED <<down, pointer, screen_size, last_mouse_pos, chan, remote, cursor, held,
                   typed, lapsed>>

-----------------------------------------------------------------------------
(* The server.  The system keeps the cursor on the screen.                 *)
Inside(c, limit) == IF c < limit THEN c ELSE limit - 1
move_mouse(at) == << Inside(at[1], remote[1]), Inside(at[2], remote[2]) >>

(* mouse_move, mouse_click or key_event with the next message.             *)
Apply ==
    /\ chan # <<>>
    /\ chan' = Tail(chan)
    /\ LET m == Head(chan)
       IN  /\ cursor' = IF m.type = "KeyEvent" THEN cursor ELSE move_mouse(m.at)
           /\ held' = IF m.type # "MouseClick" THEN held
                      ELSE IF m.pressed THEN held \cup {m.button} ELSE held \ {m.button}
           /\ typed' = IF m.type # "KeyEvent" THEN NoKey
                       ELSE << KeyFor(m.name), m.pressed, m.of >>
    /\ UNCHANGED <<down, pointer, connected, screen_size, last_mouse_pos, remote, aimed,
                   lapsed>>

(* The handler fails, or the connection does: the rest is lost.  A click   *)
(* may have moved the cursor before it failed.                             *)
ConnectionLost ==
    /\ connected \/ chan # <<>>
    /\ connected' = FALSE
    /\ pointer' = Outside
    /\ chan' = <<>>
    /\ cursor' \in {cursor} \cup
          {move_mouse(m.at) : m \in {m \in UnderWay : m.type = "MouseClick" /\ m = Head(chan)}}
    /\ lapsed' = lapsed \cup {m.button : m \in {m \in UnderWay : m.type = "MouseClick"}}
    /\ typed' = NoKey
    /\ UNCHANGED <<down, screen_size, last_mouse_pos, remote, held, aimed>>

Next ==
    \/ UpdateMouse \/ UpdateKeys \/ UpdateOffline \/ UpdateScreen \/ Disconnect \/ Connect
    \/ Apply \/ ConnectionLost

Spec == Init /\ [][Next]_vars

-----------------------------------------------------------------------------
(* The remote cursor stays with the user's pointer.  Moves of a pixel are  *)
(* not sent, but they do not add up: once a move was sent on the           *)
(* connection and the size of the screen is known, the cursor is at most   *)
(* two pixels off whenever all messages have been applied (one for the     *)
(* threshold, one for a click, which moves the cursor without being        *)
(* remembered).                                                            *)
PointerNear ==
    connected /\ chan = <<>> /\ aimed /\ pointer # Outside /\ screen_size = remote
        => Distance2(cursor, move_mouse(OnScreen(pointer, remote))) <= 4

(* The remote buttons are in the state of the user's buttons whenever all  *)
(* messages have been applied, except after exactly these: the button's    *)
(* last change came with the pointer outside the image or without a        *)
(* connection, it was released and pressed again within one update, or the *)
(* connection was lost with its click under way.  Then it may be stuck     *)
(* until its next change over the image.                                   *)
ButtonsMirror ==
    chan = <<>> => \A b \in Buttons \ lapsed : b \in held <=> b \in down

(* The key each name of the client stands for.                             *)
Meaning == [ Enter |-> "Return", Escape |-> "Escape", Backspace |-> "Backspace",
             Tab |-> "Tab", ArrowDown |-> "DownArrow", ArrowLeft |-> "LeftArrow",
             ArrowRight |-> "RightArrow", ArrowUp |-> "UpArrow", Space |-> "Space",
             A |-> "a", Num0 |-> "0" ]

(* The key that goes down or up at the server is the one the user pressed  *)
(* or released, and the names of client and server agree for all the other *)
(* keys too: no named key falls through to the first character of its name.*)
KeysFaithful ==
    /\ typed # NoKey => typed[1] = Meaning[typed[3]]
    /\ \A k \in DOMAIN Named : KeyFor(format_key(k)) = Meaning[k]
=============================================================================
