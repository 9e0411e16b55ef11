------------------------------ MODULE FrameBuffer ------------------------------
(***************************************************************************)
(* The frame buffer of boot/render_fb.c, as the playback harness uses it:  *)
(* fb_init, fb_set_scaler and fb_set_quality, fb_render and fb_blit.  Sizes *)
(* are counted in pixels of 4 bytes.  Memory is a set of buffers: the      *)
(* static one, and those of the heap, named by numbers.  fw_cfg and        *)
(* libswscale are external: QEMU shows the buffer it was last told of, and *)
(* sws_scale writes every row of its context with the stride it is given.  *)
(***************************************************************************)
EXTENDS Integers

CONSTANTS Sides,      \* widths and heights of a clip
          MaxSide,    \* 4096
          PagePixels, \* pixels of a page: 1024
          Small,      \* pixels of fb_pixels_fallback: 64 * 64
          MaxInits    \* bound: calls of fb_init

ASSUME SideAssumption ==
  Sides \subseteq Int /\ {MaxSide, PagePixels, Small, MaxInits} \subseteq Nat \ {0}

Static == 0   \* fb_pixels_fallback
None == -1

VARIABLES fb,     \* g_fb and the other variables of the driver
          live,   \* the buffers of the heap that are allocated, with their pixels
          shown,  \* the buffer and the mode that QEMU shows
          drawn,  \* what the last call wrote: the call, the buffer, how many pixels
          calls   \* calls of fb_init so far

fbVars == <<fb, live, shown, drawn, calls>>

Nowhere == [buffer |-> None, pixels |-> 0]
Wrote(call, b, n) == [by |-> call, buffer |-> b, pixels |-> n]
Nothing == Wrote("none", None, 0)

FbInit ==
  /\ fb = [buffer |-> None, pixels |-> 0, w |-> 0, h |-> 0, select |-> FALSE,
           sws |-> None, high |-> FALSE]
  /\ live = [b \in {} |-> 0] /\ shown = Nowhere /\ drawn = Nothing /\ calls = 0

PageUp(n) == ((n + PagePixels - 1) \div PagePixels) * PagePixels
Valid(w, h) == w \in 1..MaxSide /\ h \in 1..MaxSide

\* fb_free_dyn: the static buffer is not freed, nor forgotten.
Freed == [b \in DOMAIN live \ {fb.buffer} |-> live[b]]

\* Mutant: room for the pixels of one side only.
Allocated_OneSide(w, h) ==
  [buffer |-> calls + 1, pixels |-> PageUp(w)]

\* The buffer that posix_memalign gives.
Allocated(w, h) == [buffer |-> calls + 1, pixels |-> PageUp(w * h)]

\* fb_init(w, h): whether the heap has room, the directory of fw_cfg lists ramfb
\* and the DMA write succeeds is the machine's choice.  A size out of range
\* leaves the new size behind.
Open(w, h, room, ramfb, dma) ==
  LET new  == IF room THEN Allocated(w, h) ELSE [buffer |-> Static, pixels |-> Small]
      sel  == fb.select \/ ramfb
      size == [fb EXCEPT !.w = w, !.h = h]
  IN /\ calls < MaxInits
     /\ calls' = calls + 1
     /\ IF ~Valid(w, h)
        THEN fb' = size /\ UNCHANGED <<live, shown, drawn>>
        ELSE /\ fb' = [size EXCEPT !.buffer = new.buffer, !.pixels = new.pixels,
                                   !.select = sel /\ dma]
             /\ live' = IF room THEN [b \in DOMAIN Freed \cup {new.buffer} |->
                                        IF b = new.buffer THEN new.pixels ELSE live[b]]
                        ELSE Freed
             /\ shown' = IF sel /\ dma THEN [buffer |-> new.buffer, pixels |-> w * h]
                         ELSE shown
             /\ drawn' = IF room THEN Wrote("init", new.buffer, new.pixels) ELSE Nothing

\* fb_init has answered 0 to the last call.
Ready == fb.select /\ fb.buffer # None /\ Valid(fb.w, fb.h)

\* fb_set_scaler and fb_set_quality, once the mode is set: the context is made
\* for the size of the moment.
SetScaler ==
  /\ Ready
  /\ fb' = [fb EXCEPT !.sws = fb.w * fb.h]
  /\ drawn' = Nothing
  /\ UNCHANGED <<live, shown, calls>>

SetQuality(high) ==
  /\ fb' = [fb EXCEPT !.high = high, !.sws = IF @ = None THEN None ELSE fb.w * fb.h]
  /\ drawn' = Nothing
  /\ UNCHANGED <<live, shown, calls>>

\* fb_render: the driver's own conversion is switched off (0 &&), and sws_scale is
\* told the mode, not the size of the buffer.
Render ==
  /\ drawn' = IF fb.select /\ fb.buffer # None /\ fb.sws # None
              THEN Wrote("render", fb.buffer, fb.sws) ELSE Nothing
  /\ UNCHANGED <<fb, live, shown, calls>>

\* fb_blit: as much as the mode and the buffer take; a negative mode is a huge one.
Blit(n) ==
  LET least(a, b) == IF a < b THEN a ELSE b
      mode == IF fb.w * fb.h < 0 THEN n ELSE fb.w * fb.h
  IN /\ drawn' = IF fb.buffer = None THEN Nothing
                 ELSE Wrote("blit", fb.buffer, least(n, least(mode, fb.pixels)))
     /\ UNCHANGED <<fb, live, shown, calls>>

\* The harness asks for one size, a second time when the first call has failed,
\* and goes on to the scaler only when the first has succeeded.
FbNext ==
  \/ \E w, h \in Sides, room, ramfb, dma \in BOOLEAN :
       /\ ~Ready
       /\ calls > 0 => w = fb.w /\ h = fb.h
       /\ Open(w, h, room, ramfb, dma)
  \/ calls = 1 /\ SetScaler
  \/ \E high \in BOOLEAN : SetQuality(high)
  \/ Render
  \/ \E n \in {1, MaxSide * MaxSide} : Blit(n)

FbSpec == FbInit /\ [][FbNext]_fbVars

-----------------------------------------------------------------------------
RoomOf(b) == IF b = Static THEN Small ELSE live[b]
Overrun == drawn.buffer # None /\ drawn.pixels > RoomOf(drawn.buffer)

\* Whatever is written goes to the buffer of the moment, which is allocated when it is
\* of the heap and is what QEMU shows when fb_init has succeeded; and the only write
\* that passes the end of its buffer is the one that render_fb.c:113 says will clip and
\* that does not: fb_render, of a mode larger than the static buffer, into that buffer.
OnlyRenderOverruns ==
  /\ Overrun => drawn.by = "render" /\ fb.buffer = Static /\ fb.w * fb.h > Small
  /\ drawn.buffer \in {None, fb.buffer}
  /\ fb.select => shown.buffer = fb.buffer
  /\ fb.buffer = Static => fb.pixels = Small
  /\ fb.buffer \notin {None, Static} =>
       fb.buffer \in DOMAIN live /\ fb.pixels = live[fb.buffer]
  /\ DOMAIN live \subseteq {fb.buffer}
================================================================================
