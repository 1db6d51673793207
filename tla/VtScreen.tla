------------------------------ MODULE VtScreen ------------------------------
(***************************************************************************)
(* The virtual terminals of the framebuffer console (aether-terminal       *)
(* lib.rs).  Every terminal draws into a plane; the plane of the active    *)
(* one also writes to the surface, the others only keep their pixels.      *)
(* Switching snapshots the surface for the terminal that is left (only the *)
(* first time: its pixels are a Once) and redraws the one that is entered. *)
(* The index of the active terminal is an atomic that no lock protects:    *)
(* writers, switchers and mode changes run over one another.               *)
(***************************************************************************)
EXTENDS Integers

CONSTANTS
    VtThread,
    VtCount,      \* consoles.len()
    Cell,         \* the pixels of the surface
    Colour,
    BLACK,
    NoPixels,     \* pixels.get() = None, and a cell a terminal never drew
    MaxVtCalls    \* bound

Vt == 1 .. VtCount
ASSUME VtAssumption ==
    VtCount \in Nat \ {0} /\ BLACK \in Colour /\ NoPixels \notin Colour \cup [Cell -> Colour]

VARIABLES
    activeVt,
    pixels,     \* of each plane
    surface,
    ttyMode,    \* KD_TEXT or KD_GRAPHICS
    vtCall, vtCalls, \* the calls made so far only count down a bound: they start anywhere
    drawn,      \* history: what each terminal last drew in each cell
    torn,       \* history: <<v, c>> whose pixel a race may have lost
    smeared     \* history: cells of the screen a race may have left with another colour
vtVars == <<activeVt, pixels, surface, ttyMode, vtCall, vtCalls, drawn, torn, smeared>>

VtUser == [at |-> "user"]
NoneRead == [c \in {} |-> BLACK]
\* Terminal::new clears the screen of the first terminal; the planes of the others drop it.
VtInit ==
    /\ activeVt = 1
    /\ pixels = [v \in Vt |-> NoPixels]
    /\ surface = [c \in Cell |-> BLACK]
    /\ ttyMode = [v \in Vt |-> "text"]
    /\ vtCall = [t \in VtThread |-> VtUser] /\ vtCalls \in 0..MaxVtCalls
    /\ drawn = [v \in Vt |-> [c \in Cell |-> IF v = 1 THEN BLACK ELSE NoPixels]]
    /\ torn = {} /\ smeared = {}

VtCalling(t) == vtCall[t] = VtUser /\ vtCalls < MaxVtCalls /\ vtCalls' = vtCalls + 1
Goes(t, call) == vtCall' = [vtCall EXCEPT ![t] = call]
Snapping(v) == {t \in VtThread : vtCall[t].at = "snap" /\ vtCall[t].v = v /\ vtCall[t].read # NoneRead}

---------------------------------------------------------------------------
(* Writing: the mode is read under the tty's lock, the drawing happens     *)
(* under the terminal's.                                                   *)

WriteStart(t, v, c, colour) ==
    /\ VtCalling(t)
    /\ ttyMode[v] # "graphics"
    /\ Goes(t, [at |-> "load", v |-> v, c |-> c, colour |-> colour])
    /\ UNCHANGED <<activeVt, pixels, surface, ttyMode, drawn, torn, smeared>>

\* draw_pixel: is the plane the active one?
DrawLoad(t) ==
    LET call == vtCall[t] IN
    /\ call.at = "load"
    /\ \A s \in VtThread : vtCall[s].at \in {"store", "paint"} => vtCall[s].v # call.v
    /\ Goes(t, [at |-> "store", v |-> call.v, c |-> call.c, colour |-> call.colour,
                active |-> activeVt = call.v])
    /\ drawn' = [drawn EXCEPT ![call.v][call.c] = call.colour]
    /\ UNCHANGED <<activeVt, pixels, surface, ttyMode, vtCalls, torn, smeared>>

\* pixels(): the plane's pixels, black when they were never made
Pixels(v) == IF pixels[v] = NoPixels THEN [c \in Cell |-> BLACK] ELSE pixels[v]
\* Mutant of Stored: what the active plane draws goes to the screen alone.
StoredInactive(v, c, colour, active) ==
    IF active THEN pixels[v] ELSE [Pixels(v) EXCEPT ![c] = colour]
\* The active plane stores the pixel when it has pixels, the others always.
Stored(v, c, colour, active) ==
    IF active /\ pixels[v] = NoPixels THEN NoPixels ELSE [Pixels(v) EXCEPT ![c] = colour]

DrawStore(t) ==
    LET call == vtCall[t] IN
    /\ call.at = "store"
    /\ call.active \/ Snapping(call.v) = {}
    /\ pixels' = [pixels EXCEPT ![call.v] = Stored(call.v, call.c, call.colour, call.active)]
    /\ torn' = IF pixels'[call.v] = NoPixels THEN torn ELSE torn \ {<<call.v, call.c>>}
    /\ Goes(t, IF call.active
               THEN [at |-> "paint", v |-> call.v, c |-> call.c, colour |-> call.colour,
                     kept |-> pixels[call.v] # NoPixels]
               ELSE VtUser)
    /\ smeared' = IF ~call.active /\ activeVt = call.v THEN smeared \union {call.c} ELSE smeared
    /\ UNCHANGED <<activeVt, surface, ttyMode, vtCalls, drawn>>

\* Painted by a plane that was active when it looked.  A cell whose snapshot was
\* taken before it was painted, and whose store found no pixels, is torn.
DrawPaint(t) ==
    LET call == vtCall[t]
        late == \/ pixels[call.v] # NoPixels
                \/ \E s \in Snapping(call.v) : call.c \in DOMAIN vtCall[s].read
    IN  /\ call.at = "paint"
        /\ surface' = [surface EXCEPT ![call.c] = call.colour]
        /\ smeared' = IF activeVt = call.v THEN smeared \ {call.c} ELSE smeared \union {call.c}
        /\ torn' = IF ~call.kept /\ late THEN torn \union {<<call.v, call.c>>} ELSE torn
        /\ Goes(t, VtUser)
        /\ UNCHANGED <<activeVt, pixels, ttyMode, vtCalls, drawn>>

\* A process paints the framebuffer itself, as it may in graphics mode.
GraphicsPaint(c, colour) ==
    /\ ttyMode[activeVt] = "graphics" /\ vtCalls < MaxVtCalls /\ vtCalls' = vtCalls + 1
    /\ surface' = [surface EXCEPT ![c] = colour]
    /\ smeared' = smeared \union {c}
    /\ torn' = IF pixels[activeVt] = NoPixels THEN torn \union {<<activeVt, c>>} ELSE torn
    /\ UNCHANGED <<activeVt, pixels, ttyMode, vtCall, drawn>>

---------------------------------------------------------------------------
(* Leaving and entering a terminal.  A snapshot says which terminal is     *)
(* entered after it: none, if it is the same, in a change of mode.         *)

SwitchTo(t, v) ==
    /\ VtCalling(t) /\ v # activeVt
    /\ Goes(t, [at |-> "snap", v |-> activeVt, read |-> NoneRead, to |-> v])
    /\ UNCHANGED <<activeVt, pixels, surface, ttyMode, drawn, torn, smeared>>

\* set_tty_mode: the mode under the lock, its consequences after it
SetTtyMode(t, v, mode) ==
    /\ VtCalling(t)
    /\ ttyMode' = [ttyMode EXCEPT ![v] = mode]
    /\ Goes(t, IF ttyMode[v] = mode THEN VtUser
               ELSE IF mode = "graphics" THEN [at |-> "snap", v |-> v, read |-> NoneRead, to |-> v]
               ELSE [at |-> "enter", v |-> v])
    /\ UNCHANGED <<activeVt, pixels, surface, drawn, torn, smeared>>

\* snapshot_surface: nothing when the plane has pixels, else the surface cell by cell
SnapCell(t, c) ==
    LET call == vtCall[t] IN
    /\ call.at = "snap" /\ pixels[call.v] = NoPixels /\ Snapping(call.v) \subseteq {t}
    /\ c \in Cell \ DOMAIN call.read
    /\ Goes(t, [at |-> "snap", v |-> call.v, to |-> call.to,
                read |-> [d \in DOMAIN call.read \union {c} |-> IF d = c THEN surface[c] ELSE call.read[d]]])
    /\ torn' = IF activeVt # call.v \/ c \in smeared THEN torn \union {<<call.v, c>>} ELSE torn
    /\ UNCHANGED <<activeVt, pixels, surface, ttyMode, vtCalls, drawn, smeared>>
SnapDone(t) ==
    LET call == vtCall[t] IN
    /\ call.at = "snap"
    /\ pixels[call.v] # NoPixels \/ DOMAIN call.read = Cell
    /\ pixels' = IF pixels[call.v] = NoPixels THEN [pixels EXCEPT ![call.v] = call.read] ELSE pixels
    /\ Goes(t, IF call.to # call.v THEN [at |-> "switch", v |-> call.to, from |-> call.v] ELSE VtUser)
    /\ UNCHANGED <<activeVt, surface, ttyMode, vtCalls, drawn, torn, smeared>>

\* activate_vt's store.  Another switch may have moved on from where this one began.
ActiveStored(t) ==
    LET call == vtCall[t]
        left == activeVt \notin {call.from, call.v} /\ pixels[activeVt] = NoPixels
    IN  /\ call.at = "switch"
        /\ activeVt' = call.v
        /\ torn' = IF left THEN torn \union ({activeVt} \X Cell) ELSE torn
        /\ Goes(t, [at |-> "enter", v |-> call.v])
        /\ UNCHANGED <<pixels, surface, ttyMode, vtCalls, drawn, smeared>>

\* activate: redraws a terminal that is not in graphics mode and has pixels
Activated(t) ==
    LET v == vtCall[t].v IN
    /\ vtCall[t].at = "enter"
    /\ Goes(t, IF ttyMode[v] # "graphics" /\ pixels[v] # NoPixels
               THEN [at |-> "redraw", v |-> v, todo |-> Cell] ELSE VtUser)
    /\ UNCHANGED <<activeVt, pixels, surface, ttyMode, vtCalls, drawn, torn, smeared>>
RedrawLoad(t, c) ==
    LET call == vtCall[t] IN
    /\ call.at = "redraw" /\ c \in call.todo
    /\ Goes(t, [at |-> "redrawn", v |-> call.v, todo |-> call.todo \ {c}, c |-> c,
                colour |-> pixels[call.v][c]])
    /\ UNCHANGED <<activeVt, pixels, surface, ttyMode, vtCalls, drawn, torn, smeared>>
RedrawPaint(t) ==
    LET call == vtCall[t] IN
    /\ call.at = "redrawn"
    /\ surface' = [surface EXCEPT ![call.c] = call.colour]
    /\ smeared' = IF activeVt = call.v /\ pixels[call.v][call.c] = call.colour
                  THEN smeared \ {call.c} ELSE smeared \union {call.c}
    /\ Goes(t, IF call.todo = {} THEN VtUser ELSE [at |-> "redraw", v |-> call.v, todo |-> call.todo])
    /\ UNCHANGED <<activeVt, pixels, ttyMode, vtCalls, drawn, torn>>

VtSwitching(t) ==
    \/ \E v \in Vt : SwitchTo(t, v)
    \/ \E c \in Cell : SnapCell(t, c) \/ RedrawLoad(t, c)
    \/ SnapDone(t) \/ ActiveStored(t) \/ Activated(t) \/ RedrawPaint(t)
VtNext ==
    \/ \E t \in VtThread :
        \/ vtCall[t] = VtUser /\ \E v \in Vt, c \in Cell, colour \in Colour : WriteStart(t, v, c, colour)
        \/ DrawLoad(t) \/ DrawStore(t) \/ DrawPaint(t)
        \/ VtSwitching(t)
        \/ \E v \in Vt, mode \in {"text", "graphics"} : SetTtyMode(t, v, mode)
    \/ \E c \in Cell, colour \in Colour : GraphicsPaint(c, colour)
VtSpec == VtInit /\ [][VtNext]_vtVars

---------------------------------------------------------------------------
(* Properties                                                              *)

VtQuiet == \A t \in VtThread : vtCall[t] = VtUser
Kept(v, c) == drawn[v][c] # NoPixels /\ <<v, c>> \notin torn

\* What a terminal drew is not lost over switches and changes of mode: when no
\* call is under way the pixels of its plane are what it drew, and the screen
\* shows the active terminal.  Excepted are the cells a race is known to lose: of
\* a draw that overlaps the first snapshot, of a terminal left unsnapshotted by
\* two switches; and the cells of the screen last written by another terminal's
\* late draw or redraw (the redraw that set_tty_mode does for a terminal that is
\* not active is one), or drawn while their terminal was being entered.
ScreensKept ==
    VtQuiet =>
        /\ \A v \in Vt, c \in Cell :
               Kept(v, c) /\ pixels[v] # NoPixels => pixels[v][c] = drawn[v][c]
        /\ \A c \in Cell \ smeared :
               ttyMode[activeVt] = "text" /\ Kept(activeVt, c) => surface[c] = drawn[activeVt][c]
=============================================================================
