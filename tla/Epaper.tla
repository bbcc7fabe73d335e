------------------------------- MODULE Epaper -------------------------------
(***************************************************************************)
(* The e-paper renderer of tinywifi-display (epaper.rs): the frame buffer, *)
(* and the commands and data by which a frame gets to the panel.  An error *)
(* on the wire ends the render or the opening it happens in, and the next  *)
(* render starts over without opening the panel again.                     *)
(*                                                                         *)
(* The panel (SSD1675B) is external: its memory takes the bytes it is sent *)
(* at its two counters, which run through a window and wrap at its end.    *)
(***************************************************************************)
EXTENDS Integers, Sequences, FiniteSets

CONSTANTS
    W, H,                \* pixels of the frame, a row a whole number of bytes
    Bits,                \* pixels of a byte
    Frames               \* what may be drawn: sequences of <<x, y, black>>

ROW == W \div Bits
BUF == ROW * H

VARIABLES
    buf,                 \* the frame buffer: the white bits of each byte
    link,                \* "closed", "console" or the renderer's next step
    sent,                \* bytes of the buffer written
    ram, xEnd, yEnd, x, y, \* the panel's memory, window and counters
    image,               \* what the panel shows
    frame, outcome       \* history: the frame asked for last, and its result

panel == <<ram, xEnd, yEnd, x, y, image>>
epaperVars == <<buf, link, sent, panel, frame, outcome>>

White == 0..(Bits - 1)
PanelX == ROW            \* the panel has one more byte per row than the frame
PanelY == H

Clear == [n \in 0..(BUF - 1) |-> White]

EpaperInit ==
    /\ buf = Clear /\ link = "closed" /\ sent = 0
    /\ ram = [at \in (0..PanelX) \X (0..PanelY) |-> {}]
    /\ xEnd = PanelX /\ yEnd = PanelY /\ x = 0 /\ y = 0
    /\ image = ram
    /\ frame = <<>> /\ outcome = "none"

-----------------------------------------------------------------------------
To(from, to) == link = from /\ link' = to

\* open, and init up to the counters: the window is set.
Open ==
    /\ To("closed", "ready")
    /\ xEnd' = ROW - 1 /\ yEnd' = H - 1 /\ x' = 0 /\ y' = 0
    /\ UNCHANGED <<buf, sent, ram, image, frame, outcome>>

\* The panel does not answer: the display falls back on the console.
OpenFails ==
    /\ To("closed", "console")
    /\ UNCHANGED <<buf, sent, panel, frame, outcome>>

\* draw_iter: one pixel; those outside of the frame are dropped.
Paint(b, pixel) ==
    LET px == pixel[1]  py == pixel[2]
        byte == py * ROW + px \div Bits
        bit == Bits - 1 - (px % Bits)
    IN  IF px < 0 \/ py < 0 \/ px >= W \/ py >= H THEN b
        ELSE [b EXCEPT ![byte] = IF pixel[3] THEN @ \ {bit} ELSE @ \cup {bit}]

Painted(b, pixels) ==
    LET upTo[n \in 0..Len(pixels)] == IF n = 0 THEN b ELSE Paint(upTo[n - 1], pixels[n])
    IN  upTo[Len(pixels)]

\* render and render_setup: the frame is drawn on a cleared buffer.
Render == \E pixels \in Frames :
    /\ To("ready", "set x")
    /\ buf' = Painted(Clear, pixels)
    /\ frame' = pixels /\ outcome' = "none"
    /\ UNCHANGED <<sent, panel>>

\* The slip of a flush that relies on where the last one left the counter.
SetYKept ==
    /\ To("set y", "write")
    /\ sent' = 0
    /\ UNCHANGED <<buf, panel, frame, outcome>>

\* flush: the two counters are reset ...
SetX ==
    /\ To("set x", "set y")
    /\ x' = 0
    /\ UNCHANGED <<buf, sent, ram, xEnd, yEnd, y, image, frame, outcome>>

SetY ==
    /\ To("set y", "write")
    /\ y' = 0 /\ sent' = 0
    /\ UNCHANGED <<buf, ram, xEnd, yEnd, x, image, frame, outcome>>

\* ... the buffer is written byte by byte ...
Write ==
    /\ link = "write" /\ sent < BUF
    /\ ram' = [ram EXCEPT ![<<x, y>>] = buf[sent]]
    /\ x' = IF x = xEnd THEN 0 ELSE x + 1
    /\ y' = IF x < xEnd THEN y ELSE IF y = yEnd THEN 0 ELSE y + 1
    /\ sent' = sent + 1
    /\ UNCHANGED <<buf, link, xEnd, yEnd, image, frame, outcome>>

\* ... and the panel told to show its memory.
Activate ==
    /\ sent = BUF /\ To("write", "wait")
    /\ image' = ram /\ sent' = 0
    /\ UNCHANGED <<buf, ram, xEnd, yEnd, x, y, frame, outcome>>

\* wait_busy: the panel is done; after five seconds its being busy is an error.
Wait ==
    /\ To("wait", "ready")
    /\ outcome' \in {"ok", "failed"}
    /\ UNCHANGED <<buf, sent, panel, frame>>

\* The wire or a pin fails.
WireFails ==
    /\ link \in {"set x", "set y", "write"}
    /\ link' = "ready" /\ sent' = 0 /\ outcome' = "failed"
    /\ UNCHANGED <<buf, panel, frame>>

EpaperNext ==
    \/ Open \/ OpenFails \/ Render \/ SetX \/ SetY \/ Write \/ Activate \/ Wait \/ WireFails

EpaperSpec == EpaperInit /\ [][EpaperNext]_epaperVars

-----------------------------------------------------------------------------
\* The panel has the first pixel of a byte in its highest bit.
WhiteAt(px, py) == Bits - 1 - (px % Bits) \in image[<<px \div Bits, py>>]

\* The colour the drawing gives a pixel last.
Blackened(px, py) ==
    LET hits == {i \in DOMAIN frame : frame[i][1] = px /\ frame[i][2] = py}
    IN  hits # {} /\ frame[CHOOSE i \in hits : \A j \in hits : j <= i][3]

\* A render that succeeds leaves the whole frame on the panel, each pixel in its
\* place, whatever part of earlier frames had got through before an error.
FrameShown ==
    outcome = "ok" => \A px \in 0..(W - 1), py \in 0..(H - 1) : WhiteAt(px, py) <=> ~Blackened(px, py)
=============================================================================
