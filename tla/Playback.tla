------------------------------ MODULE Playback ------------------------------
(***************************************************************************)
(* The playback loop of src/test_harness.c (built with FB_PLAYBACK): one   *)
(* thread reads packets, decodes, parks the frames in a ring, and calls    *)
(* the presenter, rp_pump, between two frames and while the ring is full.  *)
(* At the end of the clip it seeks back and goes on.                       *)
(*                                                                         *)
(* fb_init has succeeded and the stream has a frame rate, so pace_begin    *)
(* has run.  External: the demuxer, and the decoder, a queue that holds    *)
(* the last Delay packets back until it is drained (the loop never drains  *)
(* it), and may fail on any packet.  Time passes at any step; only         *)
(* now - g_next_dl matters, in Ticks, Slot of them between two deadlines.  *)
(***************************************************************************)
EXTENDS Integers, Sequences, SequencesExt

CONSTANTS RING_N,     \* slots of the ring
          Slot,       \* g_slot_ns
          Clip,       \* video packets in the clip
          Delay,      \* packets the decoder holds back
          FrameCap,   \* frames of one pass (1000 in the code)
          MaxLate     \* bound: lateness beyond it is not told apart

ASSUME PlaybackAssumption ==
  /\ RING_N \in Nat /\ RING_N > 2
  /\ {Slot, Clip, FrameCap} \subseteq Nat \ {0}
  /\ Delay \in 0..(Clip - 1) /\ MaxLate \in Nat

Frames == 1..Clip
Empty  == 0                \* an AVFrame without buffers
Slots  == 0..(RING_N - 1)  \* cursor & RING_MASK

\* The cursors only ever grow; the code looks at their difference and their
\* low bits, so the model keeps them modulo a multiple of RING_N.
CursorMod == 2 * RING_N
Cursors   == 0..(CursorMod - 1)

VARIABLES
  pc,        \* where the thread is
  ret,       \* where rp_pump returns to
  pos,       \* packets read in this pass
  sent_all,  \* the demuxer has reported the end
  dec,       \* packets inside the decoder
  frm,       \* the decoded frame
  frames,    \* frames of this pass
  ring,      \* g_ring: the frame each slot refers to
  rh, rt,    \* g_rh and g_rt, modulo CursorMod
  due,       \* now - g_next_dl
  shown,     \* the frame fb_render drew last
  leaked     \* a slot was given a second frame while it held one

source == <<pos, sent_all, dec, frm, frames>>
screen == <<ring, rh, rt, shown, leaked>>
vars   == <<pc, ret, source, screen, due>>

Parked == (rt - rh) % CursorMod

PlaybackTypeOK ==
  /\ pc \in {"read", "receive", "full", "sleep", "park", "pump", "cap", "wrap"}
  /\ ret \in {"sleep", "cap"}
  /\ pos \in 0..Clip /\ sent_all \in BOOLEAN
  /\ dec \in Seq(Frames) /\ Len(dec) <= Delay + 1
  /\ frm \in Frames \cup {Empty} /\ frames \in 0..FrameCap
  /\ ring \in [Slots -> Frames \cup {Empty}]
  /\ rh \in Cursors /\ rt \in Cursors
  /\ shown \in Frames \cup {Empty} /\ leaked \in BOOLEAN
  \* Never more than one slot ahead of the deadline grid.
  /\ due \in (-Slot)..MaxLate

\* After pace_begin, at the top of the loop.
Init ==
  /\ pc = "read" /\ ret = "cap"
  /\ pos = 0 /\ sent_all = FALSE
  /\ dec = <<>> /\ frm = Empty /\ frames = 0
  /\ ring = [s \in Slots |-> Empty]
  /\ rh = 0 /\ rt = 0
  /\ due = -Slot
  /\ shown = Empty /\ leaked = FALSE

-----------------------------------------------------------------------------
Go(p, r) == pc = p /\ pc' = r

\* Time passes, whatever the thread is doing.
Tick ==
  /\ due < MaxLate
  /\ due' = due + 1
  /\ UNCHANGED <<pc, ret, source, screen>>

\* av_read_frame and avcodec_send_packet.
SendPacket ==
  /\ Go("read", "receive")
  /\ ~sent_all /\ pos < Clip
  /\ pos' = pos + 1
  /\ dec' = Append(dec, pos + 1)
  /\ UNCHANGED <<ret, sent_all, frm, frames, screen, due>>

\* The decoder refuses the packet: the pass ends.
SendFails ==
  /\ Go("read", "wrap")
  /\ ~sent_all /\ pos < Clip
  /\ pos' = pos + 1
  /\ UNCHANGED <<ret, sent_all, dec, frm, frames, screen, due>>

\* av_read_frame reports the end of the clip, or has before.
EndOfClip ==
  /\ Go("read", "receive")
  /\ sent_all \/ pos = Clip
  /\ sent_all' = TRUE
  /\ UNCHANGED <<ret, pos, dec, frm, frames, screen, due>>

\* avcodec_receive_frame: a frame, ...
ReceiveFrame ==
  /\ Go("receive", "full")
  /\ Len(dec) > Delay
  /\ frm' = Head(dec) /\ dec' = Tail(dec)
  /\ frames' = frames + 1
  /\ UNCHANGED <<ret, pos, sent_all, screen, due>>

\* ... an error, after which the loop goes on without a frame, ...
ReceiveFails ==
  /\ Go("receive", "read")
  /\ Len(dec) > Delay
  /\ dec' = Tail(dec)
  /\ UNCHANGED <<ret, pos, sent_all, frm, frames, screen, due>>

\* ... or EAGAIN.
TryAgain ==
  /\ pc = "receive"
  /\ Len(dec) <= Delay
  /\ pc' = IF sent_all THEN "wrap" ELSE "read"
  /\ UNCHANGED <<ret, source, screen, due>>

-----------------------------------------------------------------------------
\* Mutant: the wait for a free slot only sleeps.
RingFull_NoPump ==
  /\ Go("full", "sleep")
  /\ Parked >= RING_N - 2
  /\ UNCHANGED <<ret, source, screen, due>>

\* The ring is full: rp_pump, nanosleep, and look again.
RingFull ==
  /\ Go("full", "pump")
  /\ Parked >= RING_N - 2
  /\ ret' = "sleep"
  /\ UNCHANGED <<source, screen, due>>

Sleep ==
  /\ Go("sleep", "full")
  /\ UNCHANGED <<ret, source, screen, due>>

RingHasRoom ==
  /\ Go("full", "park")
  /\ Parked < RING_N - 2
  /\ UNCHANGED <<ret, source, screen, due>>

\* av_frame_ref(g_ring[g_rt & RING_MASK], frm), g_rt++, rp_pump.  Nobody looks at the
\* answer of av_frame_ref, which leaves the slot empty when memory runs out.
ParkFrame ==
  /\ Go("park", "pump")
  /\ \E f \in {frm, Empty} : ring' = [ring EXCEPT ![rt % RING_N] = f]
  /\ leaked' = (leaked \/ ring[rt % RING_N] # Empty)
  /\ rt' = (rt + 1) % CursorMod
  /\ ret' = "cap"
  /\ UNCHANGED <<source, rh, shown, due>>

\* av_frame_unref(frm) and the frame cap.
FrameDone ==
  /\ pc = "cap"
  /\ frm' = Empty
  /\ pc' = IF frames >= FrameCap THEN "wrap" ELSE "read"
  /\ UNCHANGED <<ret, pos, sent_all, dec, frames, screen, due>>

\* Mutant: the wrap empties the ring as pace_begin does.
Wrap_ResetRing ==
  /\ Go("wrap", "read")
  /\ pos' = 0 /\ sent_all' = FALSE /\ dec' = <<>> /\ frames' = 0
  /\ rh' = 0 /\ rt' = 0
  /\ UNCHANGED <<ret, frm, ring, shown, leaked, due>>

\* The end of a pass: seek back, flush the decoder, keep the ring and the
\* deadline grid.
Wrap ==
  /\ Go("wrap", "read")
  /\ pos' = 0 /\ sent_all' = FALSE /\ dec' = <<>> /\ frames' = 0
  /\ UNCHANGED <<ret, frm, screen, due>>

-----------------------------------------------------------------------------
\* One turn of rp_pump's loop: nothing parked, or the deadline not reached ...
PumpReturns ==
  /\ pc = "pump" /\ pc' = ret
  /\ rh = rt \/ due < 0
  /\ UNCHANGED <<ret, source, screen, due>>

\* sws_scale draws nothing of a frame without buffers.
Drawn(f) == IF f = Empty THEN shown ELSE f

\* Mutants: the deadline is not looked at; the slot keeps its frame.
PumpShows_TooEarly ==
  /\ pc = "pump"
  /\ rh # rt
  /\ shown' = Drawn(ring[rh % RING_N])
  /\ ring' = [ring EXCEPT ![rh % RING_N] = Empty]
  /\ rh' = (rh + 1) % CursorMod
  /\ due' = due - Slot
  /\ UNCHANGED <<pc, ret, source, rt, leaked>>
PumpShows_NoUnref ==
  /\ pc = "pump"
  /\ rh # rt /\ due >= 0
  /\ shown' = Drawn(ring[rh % RING_N])
  /\ rh' = (rh + 1) % CursorMod
  /\ due' = due - Slot
  /\ UNCHANGED <<pc, ret, source, ring, rt, leaked>>

\* ... or the oldest frame is drawn, its slot emptied and the deadline moved
\* one slot on, however late it was.
PumpShows ==
  /\ pc = "pump"
  /\ rh # rt /\ due >= 0
  /\ shown' = Drawn(ring[rh % RING_N])
  /\ ring' = [ring EXCEPT ![rh % RING_N] = Empty]
  /\ rh' = (rh + 1) % CursorMod
  /\ due' = due - Slot
  /\ UNCHANGED <<pc, ret, source, rt, leaked>>

Step ==
  \/ SendPacket \/ SendFails \/ EndOfClip
  \/ ReceiveFrame \/ ReceiveFails \/ TryAgain
  \/ RingFull \/ Sleep \/ RingHasRoom \/ ParkFrame \/ FrameDone \/ Wrap
  \/ PumpReturns \/ PumpShows

Next == Step \/ Tick

Spec == Init /\ [][Next]_vars

\* The thread runs and time passes.
FairSpec == Spec /\ WF_vars(Step) /\ WF_vars(Tick)

-----------------------------------------------------------------------------
\* The ring implements the queue: whatever the order of cursor updates, wraps
\* of the cursors and of the clip, the parked frames are shown first in first
\* out, each once, and never more than RING_N - 2 wait; a frame that could not be
\* referenced keeps its place, and the screen keeps the frame before it.
Queue == [n \in 1..Parked |-> ring[(rh + n - 1) % RING_N]]
RingQueue == INSTANCE FrameQueue WITH q <- Queue, Capacity <- RING_N - 2
ShowsInOrder == RingQueue!Spec

\* av_frame_ref is only ever given a slot that rp_pump has emptied: no frame
\* buffer is leaked, and every slot outside the queue is empty.
SlotsClean ==
  /\ ~leaked
  /\ \A s \in Slots :
       ring[s] # Empty => \E n \in 1..Parked : s = (rh + n - 1) % RING_N

\* As long as the decoder goes on delivering frames to park, every parked frame
\* is shown in the end, those left over at the end of a pass included.
EveryFrameShown ==
  []<>(pc = "full") => \A s \in Slots : ring[s] # Empty ~> ring[s] = Empty
=============================================================================
