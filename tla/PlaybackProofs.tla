----------------------------- MODULE PlaybackProofs -----------------------------
(***************************************************************************)
(* Theorems of the playback loop, for rings of every size, clips of every  *)
(* length and whatever the decoder does: types, clean slots, and that the  *)
(* ring with its wrapping cursors is a bounded first-in first-out queue.   *)
(***************************************************************************)
EXTENDS Playback, TLAPS

USE PlaybackAssumption

(***************************************************************************)
(* Arithmetic of the cursors.                                              *)
(***************************************************************************)
\* The n-th slot from a cursor, and how far one cursor is behind another.
SlotAt(c, n) == (c + n - 1) % RING_N
Between(c, d) == (d - c) % CursorMod

LEMMA SlotIs ==
  ASSUME NEW c \in Cursors, NEW n \in 1..RING_N
  PROVE  SlotAt(c, n) = IF c + n - 1 < RING_N THEN c + n - 1
                        ELSE IF c + n - 1 < 2 * RING_N THEN c + n - 1 - RING_N
                        ELSE c + n - 1 - 2 * RING_N
<1> DEFINE x == c + n - 1
<1>1. c \in Nat /\ n \in Nat /\ x \in Int /\ 0 <= x /\ x < 3 * RING_N
  BY DEF Cursors, CursorMod
<1>2. RING_N \in Nat \ {0}
  OBVIOUS
<1>3. SlotAt(c, n) = x % RING_N
  BY DEF SlotAt
<1> HIDE DEF x
<1>4. CASE x < RING_N
  <2>1. x % RING_N = x
    BY <1>1, <1>2, <1>4
  <2>2. SlotAt(c, n) = x
    BY <1>3, <2>1
  <2> QED
    BY <1>1, <1>4, <2>2 DEF x
<1>5. CASE ~(x < RING_N) /\ x < 2 * RING_N
  <2>1. x % RING_N = x - RING_N
    BY <1>1, <1>2, <1>5
  <2>2. SlotAt(c, n) = x - RING_N
    BY <1>3, <2>1
  <2> QED
    BY <1>1, <1>5, <2>2 DEF x
<1>6. CASE ~(x < RING_N) /\ ~(x < 2 * RING_N)
  <2>1. x % RING_N = x - 2 * RING_N
    BY <1>1, <1>2, <1>6
  <2>2. SlotAt(c, n) = x - 2 * RING_N
    BY <1>3, <2>1
  <2> QED
    BY <1>1, <1>6, <2>2 DEF x
<1> QED
  BY <1>4, <1>5, <1>6

LEMMA SlotsDiffer ==
  ASSUME NEW c \in Cursors, NEW n \in 1..RING_N, NEW k \in 1..RING_N,
         SlotAt(c, n) = SlotAt(c, k)
  PROVE  n = k
<1>1. c \in Nat /\ c < 2 * RING_N
  BY DEF Cursors, CursorMod
<1> QED
  BY <1>1, SlotIs

LEMMA SlotIsSlot ==
  ASSUME NEW c \in Cursors, NEW n \in 1..RING_N
  PROVE  SlotAt(c, n) \in Slots
<1>1. c \in Nat /\ c < 2 * RING_N
  BY DEF Cursors, CursorMod
<1> QED
  BY <1>1, SlotIs DEF Slots

\* A cursor that moves one on.
LEMMA NextCursor ==
  ASSUME NEW c \in Cursors
  PROVE  /\ (c + 1) % CursorMod \in Cursors
         /\ (c + 1) % CursorMod = IF c + 1 = CursorMod THEN 0 ELSE c + 1
<1>1. CursorMod \in Nat \ {0} /\ c + 1 \in Int /\ 0 <= c + 1 /\ c + 1 <= CursorMod
  BY DEF Cursors, CursorMod
<1>2. (c + 1) % CursorMod = IF c + 1 = CursorMod THEN 0 ELSE c + 1
  <2>1. CASE c + 1 = CursorMod
    <3>1. (c + 1) % CursorMod = (c + 1) - CursorMod
      BY <1>1, <2>1
    <3> QED
      BY <1>1, <2>1, <3>1
  <2>2. CASE c + 1 # CursorMod
    BY <1>1, <2>2
  <2> QED
    BY <2>1, <2>2
<1> QED
  BY <1>1, <1>2 DEF Cursors

LEMMA BetweenIs ==
  ASSUME NEW c \in Cursors, NEW d \in Cursors
  PROVE  Between(c, d) = IF c <= d THEN d - c ELSE d - c + CursorMod
<1> DEFINE x == d - c
<1>1. CursorMod \in Nat \ {0} /\ x \in Int /\ -CursorMod <= x /\ x < CursorMod
  BY DEF Cursors, CursorMod
<1>2. c <= d <=> 0 <= x
  BY DEF Cursors, CursorMod
<1> HIDE DEF x
<1>3. 0 <= x => x % CursorMod = x
  BY <1>1
<1>4. ~(0 <= x) => x % CursorMod = x + CursorMod
  BY <1>1
<1>5. Between(c, d) = x % CursorMod
  BY DEF x, Between
<1> QED
  BY <1>1, <1>2, <1>3, <1>4, <1>5 DEF x

\* The slot under g_rt is the one after the parked frames; parking lengthens the
\* queue, showing moves its slots one down and shortens it.
LEMMA CursorsMove ==
  ASSUME NEW c \in Cursors, NEW d \in Cursors, Between(c, d) < RING_N
  PROVE  /\ Between(c, d) \in Nat
         /\ d % RING_N = SlotAt(c, Between(c, d) + 1)
         /\ Between(c, (d + 1) % CursorMod) = Between(c, d) + 1
         /\ c # d => Between((c + 1) % CursorMod, d) = Between(c, d) - 1
         /\ c = d <=> Between(c, d) = 0
         /\ c % RING_N = SlotAt(c, 1)
         /\ \A n \in 1..(RING_N - 1) : SlotAt((c + 1) % CursorMod, n) = SlotAt(c, n + 1)
<1> DEFINE k == Between(c, d)
           e == (c + 1) % CursorMod
           f == (d + 1) % CursorMod
<1>1. /\ c \in Nat /\ d \in Nat /\ c < 2 * RING_N /\ d < 2 * RING_N
      /\ CursorMod = 2 * RING_N /\ RING_N \in Nat /\ RING_N > 2
  BY DEF Cursors, CursorMod
<1>2. k = IF c <= d THEN d - c ELSE d - c + CursorMod
  BY BetweenIs
<1>3. /\ e \in Cursors /\ e = IF c + 1 = CursorMod THEN 0 ELSE c + 1
      /\ f \in Cursors /\ f = IF d + 1 = CursorMod THEN 0 ELSE d + 1
  BY NextCursor
<1>4. /\ Between(c, f) = IF c <= f THEN f - c ELSE f - c + CursorMod
      /\ Between(e, d) = IF e <= d THEN d - e ELSE d - e + CursorMod
  BY <1>3, BetweenIs
<1> HIDE DEF k, e, f
<1>5. k \in Nat /\ k < RING_N
  BY <1>1, <1>2 DEF k
<1>6. d % RING_N = SlotAt(c, k + 1)
  <2>1. k + 1 \in 1..RING_N
    BY <1>1, <1>5
  <2>2. SlotAt(c, k + 1) = IF c + k < RING_N THEN c + k
                           ELSE IF c + k < 2 * RING_N THEN c + k - RING_N
                           ELSE c + k - 2 * RING_N
    <3>1. SlotAt(c, k + 1) = IF c + (k + 1) - 1 < RING_N THEN c + (k + 1) - 1
                             ELSE IF c + (k + 1) - 1 < 2 * RING_N
                                  THEN c + (k + 1) - 1 - RING_N
                             ELSE c + (k + 1) - 1 - 2 * RING_N
      BY <2>1, SlotIs
    <3> QED
      BY <1>1, <1>5, <3>1
  <2>3. d < RING_N => d % RING_N = d
    BY <1>1
  <2>4. ~(d < RING_N) => d % RING_N = d - RING_N
    BY <1>1
  <2> HIDE DEF SlotAt, Between
  <2> QED
    BY <1>1, <1>2, <1>5, <2>2, <2>3, <2>4
<1>7. Between(c, f) = k + 1
  BY <1>1, <1>2, <1>3, <1>4, <1>5
<1>8. c # d => Between(e, d) = k - 1
  BY <1>1, <1>2, <1>3, <1>4, <1>5
<1>9. c = d <=> k = 0
  BY <1>1, <1>2
<1>10. ASSUME NEW n \in 1..(RING_N - 1)
       PROVE  SlotAt(e, n) = SlotAt(c, n + 1)
  <2>1. n \in 1..RING_N /\ n + 1 \in 1..RING_N
    BY <1>1
  <2> QED
    BY <1>1, <1>3, <2>1, SlotIs
<1>11. c % RING_N = SlotAt(c, 1)
  BY <1>1 DEF SlotAt
<1> QED
  BY <1>5, <1>6, <1>7, <1>8, <1>9, <1>10, <1>11 DEF k, e, f
-----------------------------------------------------------------------------
(***************************************************************************)
(* Types, and what holds of the locals at each place of the loop.          *)
(***************************************************************************)
Carrying == pc \in {"full", "sleep", "park"} \/ (pc = "pump" /\ ret = "sleep")

TypeInv ==
  /\ PlaybackTypeOK
  /\ pc # "receive" => Len(dec) <= Delay
  /\ pc \in {"read", "receive"} => frames < FrameCap
  /\ Carrying => frm \in Frames

Still == UNCHANGED <<ring, rh, rt, shown, leaked>>

LEMMA InitTypes == Init => TypeInv
<1> SUFFICES ASSUME Init PROVE TypeInv
  OBVIOUS
<1>1. /\ 0 \in Cursors /\ 0 \in 0..Clip /\ 0 \in 0..FrameCap /\ 0 < FrameCap
      /\ -Slot \in (-Slot)..MaxLate /\ 0 <= Delay /\ 0 <= Delay + 1
  BY DEF Cursors, CursorMod
<1>2. dec \in Seq(Frames) /\ Len(dec) = 0
  BY DEF Init
<1>3. ring \in [Slots -> Frames \cup {Empty}]
  BY DEF Init
<1>4. PlaybackTypeOK
  BY <1>1, <1>2, <1>3 DEF Init, PlaybackTypeOK
<1> QED
  BY <1>1, <1>2, <1>4 DEF Init, TypeInv, Carrying

LEMMA TypesStep == TypeInv /\ [Next]_vars => TypeInv'
<1> SUFFICES ASSUME TypeInv, [Next]_vars PROVE TypeInv'
  OBVIOUS
<1> USE DEF TypeInv, PlaybackTypeOK, Carrying, Go, source, screen
<1>1. /\ Len(dec) \in Nat /\ Delay \in Nat /\ Slot \in Nat /\ Slot > 0 /\ Clip \in Nat
      /\ FrameCap \in Nat /\ FrameCap > 0 /\ MaxLate \in Nat
  OBVIOUS
<1>2. ASSUME Tick PROVE TypeInv'
  BY <1>1, <1>2 DEF Tick
<1>3. ASSUME SendPacket PROVE TypeInv'
  <2>1. pos + 1 \in Frames
    BY <1>1, <1>3 DEF SendPacket, Frames
  <2>2. dec' \in Seq(Frames) /\ Len(dec') = Len(dec) + 1
    BY <1>3, <2>1 DEF SendPacket
  <2> QED
    BY <1>1, <1>3, <2>2 DEF SendPacket
<1>4. ASSUME SendFails \/ EndOfClip PROVE TypeInv'
  <2>1. CASE SendFails
    <3>1. pos' \in 0..Clip /\ dec' = dec /\ Len(dec') = Len(dec)
      BY <1>1, <2>1 DEF SendFails
    <3> QED
      BY <1>1, <2>1, <3>1 DEF SendFails
  <2>2. CASE EndOfClip
    <3>1. dec' = dec /\ Len(dec') = Len(dec)
      BY <2>2 DEF EndOfClip
    <3>2. Len(dec') <= Delay
      BY <1>1, <2>2, <3>1 DEF EndOfClip
    <3> QED
      BY <1>1, <2>2, <3>1, <3>2 DEF EndOfClip
  <2> QED
    BY <1>4, <2>1, <2>2
<1>5. ASSUME ReceiveFrame \/ ReceiveFails PROVE TypeInv'
  <2>1. dec # <<>>
    BY <1>1, <1>5 DEF ReceiveFrame, ReceiveFails
  <2>2. Head(dec) \in Frames /\ Tail(dec) \in Seq(Frames) /\ Len(Tail(dec)) = Len(dec) - 1
    BY <2>1
  <2>3. CASE ReceiveFrame
    <3>1. /\ frm' \in Frames /\ dec' \in Seq(Frames) /\ Len(dec') <= Delay
          /\ frames' \in 0..FrameCap
      BY <1>1, <2>2, <2>3 DEF ReceiveFrame
    <3> QED
      BY <1>1, <2>3, <3>1 DEF ReceiveFrame
  <2>4. CASE ReceiveFails
    <3>1. dec' \in Seq(Frames) /\ Len(dec') <= Delay
      BY <1>1, <2>2, <2>4 DEF ReceiveFails
    <3> QED
      BY <1>1, <2>4, <3>1 DEF ReceiveFails
  <2> QED
    BY <1>5, <2>3, <2>4
<1>6. ASSUME TryAgain PROVE TypeInv'
  BY <1>1, <1>6 DEF TryAgain
<1>7. ASSUME RingFull \/ Sleep \/ RingHasRoom PROVE TypeInv'
  BY <1>7 DEF RingFull, Sleep, RingHasRoom
<1>8. ASSUME ParkFrame PROVE TypeInv'
  <2>1. rt' \in Cursors
    BY <1>8, NextCursor DEF ParkFrame
  <2>2. ring' \in [Slots -> Frames \cup {Empty}] /\ leaked' \in BOOLEAN
    BY <1>8 DEF ParkFrame
  <2> QED
    BY <1>8, <2>1, <2>2 DEF ParkFrame
<1>9. ASSUME FrameDone PROVE TypeInv'
  BY <1>1, <1>9 DEF FrameDone
<1>10. ASSUME Wrap PROVE TypeInv'
  <2>1. dec' \in Seq(Frames) /\ Len(dec') = 0
    BY <1>10 DEF Wrap
  <2>2. 0 \in 0..Clip /\ 0 \in 0..FrameCap /\ 0 < FrameCap /\ 0 <= Delay /\ 0 <= Delay + 1
    BY <1>1
  <2> QED
    BY <1>10, <2>1, <2>2 DEF Wrap
<1>11. ASSUME PumpReturns PROVE TypeInv'
  BY <1>11 DEF PumpReturns
<1>12. ASSUME PumpShows PROVE TypeInv'
  <2>1. rh' \in Cursors
    BY <1>12, NextCursor DEF PumpShows
  <2>2. rh % RING_N \in Slots
    <3>1. rh \in Cursors /\ 1 \in 1..RING_N /\ SlotAt(rh, 1) = rh % RING_N
      BY DEF SlotAt, Cursors, CursorMod
    <3> QED
      BY <3>1, SlotIsSlot
  <2>3. ring' \in [Slots -> Frames \cup {Empty}] /\ shown' \in Frames \cup {Empty}
    BY <1>12, <2>2 DEF PumpShows, Drawn
  <2>4. due' \in (-Slot)..MaxLate
    BY <1>1, <1>12 DEF PumpShows
  <2> QED
    BY <1>12, <2>1, <2>3, <2>4 DEF PumpShows
<1>13. ASSUME UNCHANGED vars PROVE TypeInv'
  BY <1>13 DEF vars
<1> QED
  BY <1>2, <1>3, <1>4, <1>5, <1>6, <1>7, <1>8, <1>9, <1>10, <1>11, <1>12, <1>13
  DEF Next, Step

\* Types; the presenter is never more than one slot ahead of its deadlines, the
\* decoder never holds more than it is given, and a pass ends at the frame cap.
THEOREM PlaybackTyped == Spec => []PlaybackTypeOK
<1>1. TypeInv => PlaybackTypeOK
  BY DEF TypeInv
<1> QED
  BY <1>1, InitTypes, TypesStep, PTL DEF Spec

-----------------------------------------------------------------------------
(***************************************************************************)
(* The ring: the parked frames lie in the slots from g_rh on, and nothing  *)
(* lies elsewhere.                                                         *)
(***************************************************************************)
RingInv ==
  /\ Parked <= RING_N - 2
  /\ pc = "park" => Parked < RING_N - 2
  /\ SlotsClean

\* The n-th parked frame is in the n-th slot.
LEMMA ParkedAt ==
  ASSUME TypeInv, RingInv
  PROVE  /\ Parked = Between(rh, rt) /\ Parked \in Nat /\ Parked < RING_N
         /\ rh \in Cursors /\ rt \in Cursors
         /\ \A n \in 1..RING_N : SlotAt(rh, n) \in Slots
         /\ \A s \in Slots : ring[s] # Empty => \E n \in 1..Parked : s = SlotAt(rh, n)
<1>1. rh \in Cursors /\ rt \in Cursors
  BY DEF TypeInv, PlaybackTypeOK
<1>2. Parked = Between(rh, rt)
  BY DEF Parked, Between
<1>3. Parked < RING_N
  <2>1. rh \in Int /\ rt \in Int /\ CursorMod \in Nat \ {0}
    BY <1>1 DEF Cursors, CursorMod
  <2>2. Parked \in Int
    BY <2>1 DEF Parked
  <2> QED
    BY <2>2 DEF RingInv
<1>4. Parked \in Nat
  BY <1>1, <1>2, <1>3, CursorsMove
<1>5. \A n \in 1..RING_N : SlotAt(rh, n) \in Slots
  BY <1>1, SlotIsSlot
<1>6. \A s \in Slots : ring[s] # Empty => \E n \in 1..Parked : s = SlotAt(rh, n)
  BY DEF RingInv, SlotsClean, SlotAt
<1> QED
  BY <1>1, <1>2, <1>3, <1>4, <1>5, <1>6

\* What a step has to show of the ring.
LEMMA CleanAgain ==
  ASSUME leaked' = FALSE,
         \A s \in Slots : ring'[s] # Empty => \E n \in 1..Parked' : s = SlotAt(rh', n)
  PROVE  SlotsClean'
  BY DEF SlotsClean, SlotAt

LEMMA ParkKeeps ==
  ASSUME TypeInv, RingInv, ParkFrame
  PROVE  /\ RingInv' /\ Parked' = Parked + 1
         /\ rh' = rh
         /\ \E f \in {frm, Empty} : ring' = [ring EXCEPT ![SlotAt(rh, Parked + 1)] = f]
<1> DEFINE k == Parked
           s0 == SlotAt(rh, k + 1)
<1>1. /\ k = Between(rh, rt) /\ k \in Nat /\ k < RING_N - 2 /\ RING_N \in Nat
      /\ rh \in Cursors /\ rt \in Cursors
      /\ \A n \in 1..RING_N : SlotAt(rh, n) \in Slots
      /\ \A s \in Slots : ring[s] # Empty => \E n \in 1..k : s = SlotAt(rh, n)
  BY ParkedAt DEF RingInv, ParkFrame, Go
<1> HIDE DEF k
<1>2. rt % RING_N = s0 /\ Between(rh, (rt + 1) % CursorMod) = k + 1
  BY <1>1, CursorsMove
<1>3. s0 \in Slots
  BY <1>1
<1>4. ring[s0] = Empty
  <2>1. ASSUME NEW n \in 1..k PROVE s0 # SlotAt(rh, n)
    <3>1. n \in 1..RING_N /\ k + 1 \in 1..RING_N /\ n # k + 1
      BY <1>1
    <3> QED
      BY <1>1, <3>1, SlotsDiffer
  <2> QED
    BY <1>1, <1>3, <2>1
<1>5. PICK f \in {frm, Empty} :
        /\ ring' = [ring EXCEPT ![s0] = f] /\ rh' = rh /\ rt' = (rt + 1) % CursorMod
        /\ leaked' = leaked /\ pc' # "park" /\ ~leaked
        /\ ring \in [Slots -> Frames \cup {Empty}]
  <2>2. PICK f \in {frm, Empty} : ring' = [ring EXCEPT ![rt % RING_N] = f]
    BY DEF ParkFrame
  <2>3. ring \in [Slots -> Frames \cup {Empty}] /\ leaked \in BOOLEAN
    BY DEF TypeInv, PlaybackTypeOK
  <2>4. /\ rh' = rh /\ rt' = (rt + 1) % CursorMod
        /\ leaked' = (leaked \/ ring[rt % RING_N] # Empty) /\ pc' = "pump"
    BY DEF ParkFrame, Go
  <2>5. ring[rt % RING_N] = Empty
    BY <1>2, <1>4
  <2>6. leaked' = leaked
    BY <2>3, <2>4, <2>5
  <2>7. ~leaked
    BY DEF RingInv, SlotsClean
  <2> HIDE DEF s0
  <2> QED
    BY <1>2, <2>2, <2>3, <2>4, <2>6, <2>7
<1>6. Parked' = k + 1
  BY <1>2, <1>5 DEF Parked, Between
<1>7. ASSUME NEW s \in Slots
      PROVE  ring'[s] # Empty => \E n \in 1..(k + 1) : s = SlotAt(rh, n)
  <2> HIDE DEF s0
  <2>1. CASE s = s0
    <3>1. k + 1 \in 1..(k + 1) /\ s = SlotAt(rh, k + 1)
      BY <1>1, <2>1 DEF s0
    <3> QED
      BY <1>3, <1>5, <2>1, <3>1
  <2>2. CASE s # s0
    <3>1. ring'[s] = ring[s]
      BY <1>5, <2>2
    <3>2. \A n \in 1..k : n \in 1..(k + 1)
      BY <1>1
    <3> HIDE DEF SlotAt
    <3> QED
      BY <1>1, <3>1, <3>2
  <2> QED
    BY <2>1, <2>2
<1>8. SlotsClean'
  <2>1. leaked' = FALSE
    BY <1>5 DEF TypeInv, PlaybackTypeOK
  <2> QED
    BY <1>5, <1>6, <1>7, <2>1, CleanAgain
<1>9. \E g \in {frm, Empty} : ring' = [ring EXCEPT ![SlotAt(rh, Parked + 1)] = g]
  <2> HIDE DEF s0
  <2>1. \E g \in {frm, Empty} : ring' = [ring EXCEPT ![s0] = g]
    BY <1>5
  <2> QED
    BY <2>1 DEF s0, k
<1>10. RingInv' /\ Parked' = Parked + 1 /\ rh' = rh
  BY <1>1, <1>5, <1>6, <1>8 DEF RingInv, k
<1> QED
  BY <1>9, <1>10

LEMMA ShowKeeps ==
  ASSUME TypeInv, RingInv, PumpShows
  PROVE  /\ RingInv' /\ Parked > 0 /\ Parked' = Parked - 1
         /\ shown' = Drawn(ring[SlotAt(rh, 1)])
         /\ \A n \in 1..(Parked - 1) : ring'[SlotAt(rh', n)] = ring[SlotAt(rh, n + 1)]
<1> DEFINE k == Parked
           s0 == SlotAt(rh, 1)
<1>1. /\ k = Between(rh, rt) /\ k \in Nat /\ k <= RING_N - 2 /\ RING_N \in Nat /\ RING_N > 2
      /\ rh \in Cursors /\ rt \in Cursors
      /\ \A n \in 1..RING_N : SlotAt(rh, n) \in Slots
      /\ \A s \in Slots : ring[s] # Empty => \E n \in 1..k : s = SlotAt(rh, n)
  BY ParkedAt DEF RingInv
<1> HIDE DEF k
<1>2. /\ rh % RING_N = s0 /\ k # 0 /\ Between((rh + 1) % CursorMod, rt) = k - 1
      /\ \A n \in 1..(RING_N - 1) : SlotAt((rh + 1) % CursorMod, n) = SlotAt(rh, n + 1)
  <2>1. rh # rt /\ Between(rh, rt) < RING_N
    BY <1>1 DEF PumpShows
  <2> HIDE DEF SlotAt, Between
  <2> QED
    BY <1>1, <2>1, CursorsMove
<1>3. s0 \in Slots
  BY <1>1
<1>4. /\ ring' = [ring EXCEPT ![s0] = Empty] /\ rh' = (rh + 1) % CursorMod /\ rt' = rt
      /\ shown' = Drawn(ring[s0]) /\ leaked' = leaked /\ pc' = "pump"
      /\ ring \in [Slots -> Frames \cup {Empty}]
  <2>1. ring \in [Slots -> Frames \cup {Empty}]
    BY DEF TypeInv, PlaybackTypeOK
  <2>2. /\ ring' = [ring EXCEPT ![rh % RING_N] = Empty] /\ rh' = (rh + 1) % CursorMod
        /\ rt' = rt /\ shown' = Drawn(ring[rh % RING_N]) /\ leaked' = leaked /\ pc' = "pump"
    BY DEF PumpShows
  <2> HIDE DEF s0
  <2> QED
    BY <1>2, <2>1, <2>2
<1>5. Parked' = k - 1
  BY <1>2, <1>4 DEF Parked, Between
<1>6. \A n \in 1..(RING_N - 1) : SlotAt(rh', n) = SlotAt(rh, n + 1)
  BY <1>2, <1>4
<1>7. ASSUME NEW n \in 2..RING_N PROVE SlotAt(rh, n) # s0
  <2>1. n \in 1..RING_N /\ 1 \in 1..RING_N /\ n # 1
    BY <1>1
  <2> QED
    BY <1>1, <2>1, SlotsDiffer
<1>8. ASSUME NEW s \in Slots
      PROVE  ring'[s] # Empty => \E n \in 1..(k - 1) : s = SlotAt(rh', n)
  <2>1. (\E n \in 1..(k - 1) : s = SlotAt(rh', n)) <=> \E n \in 2..k : s = SlotAt(rh, n)
    <3>1. ASSUME NEW n \in 1..(k - 1)
          PROVE  n + 1 \in 2..k /\ SlotAt(rh', n) = SlotAt(rh, n + 1)
      <4>1. n \in 1..(RING_N - 1) /\ n + 1 \in 2..k
        BY <1>1
      <4> QED
        BY <1>6, <4>1
    <3>2. ASSUME NEW n \in 2..k
          PROVE  n - 1 \in 1..(k - 1) /\ SlotAt(rh', n - 1) = SlotAt(rh, n)
      <4>1. n - 1 \in 1..(RING_N - 1) /\ n - 1 \in 1..(k - 1) /\ (n - 1) + 1 = n
        BY <1>1
      <4>2. SlotAt(rh', n - 1) = SlotAt(rh, (n - 1) + 1)
        BY <1>6, <4>1
      <4> QED
        BY <4>1, <4>2
    <3> HIDE DEF SlotAt
    <3> QED
      BY <3>1, <3>2
  <2> HIDE DEF s0
  <2>2. CASE s = s0
    <3>1. \A n \in 2..k : n \in 2..RING_N
      BY <1>1
    <3> HIDE DEF SlotAt
    <3> QED
      BY <1>3, <1>4, <1>7, <2>1, <2>2, <3>1
  <2>3. CASE s # s0
    <3>1. ring'[s] = ring[s]
      BY <1>4, <2>3
    <3>2. (\E n \in 1..k : s = SlotAt(rh, n)) <=> \E n \in 2..k : s = SlotAt(rh, n)
      <4>1. \A n \in 1..k : n = 1 \/ n \in 2..k
        BY <1>1
      <4>2. \A n \in 2..k : n \in 1..k
        BY <1>1
      <4>3. s # SlotAt(rh, 1)
        BY <2>3 DEF s0
      <4> HIDE DEF SlotAt
      <4> QED
        BY <4>1, <4>2, <4>3
    <3> QED
      BY <1>1, <2>1, <3>1, <3>2
  <2> QED
    BY <2>2, <2>3
<1>9. SlotsClean'
  <2>1. leaked' = FALSE
    BY <1>4 DEF RingInv, SlotsClean, TypeInv, PlaybackTypeOK
  <2> QED
    BY <1>5, <1>8, <2>1, CleanAgain
<1>10. ASSUME NEW n \in 1..(k - 1) PROVE ring'[SlotAt(rh', n)] = ring[SlotAt(rh, n + 1)]
  <2>1. n \in 1..(RING_N - 1) /\ n + 1 \in 2..RING_N /\ n + 1 \in 1..RING_N
    BY <1>1
  <2>2. SlotAt(rh', n) = SlotAt(rh, n + 1) /\ SlotAt(rh, n + 1) # s0 /\ SlotAt(rh, n + 1) \in Slots
    BY <1>1, <1>6, <1>7, <2>1
  <2> HIDE DEF SlotAt, s0
  <2> QED
    BY <1>4, <2>2
<1> QED
  BY <1>1, <1>2, <1>4, <1>5, <1>9, <1>10 DEF RingInv, k

LEMMA StillKeeps ==
  ASSUME TypeInv, RingInv, Still,
         pc' = "park" => pc = "park" \/ Parked < RING_N - 2
  PROVE  RingInv' /\ Parked' = Parked
  BY DEF RingInv, SlotsClean, Still, Parked

LEMMA InitRing == Init => RingInv
<1> SUFFICES ASSUME Init PROVE RingInv
  OBVIOUS
<1>1. CursorMod \in Nat \ {0}
  BY DEF CursorMod
<1>2. Parked = 0
  BY <1>1 DEF Init, Parked
<1>3. \A s \in Slots : ring[s] = Empty
  BY DEF Init
<1>4. ~leaked /\ pc # "park"
  BY DEF Init
<1>5. 0 <= RING_N - 2
  OBVIOUS
<1>6. 1..Parked = {}
  BY <1>2
<1>7. SlotsClean
  BY <1>3, <1>4, <1>6 DEF SlotsClean
<1> QED
  BY <1>2, <1>4, <1>5, <1>7 DEF RingInv

\* Only parking and showing touch the ring.
LEMMA OthersStill ==
  ASSUME TypeInv, [Next]_vars, ~ParkFrame, ~PumpShows
  PROVE  Still /\ (pc' = "park" => pc = "park" \/ Parked < RING_N - 2)
<1> USE DEF Still, screen, Go
<1>1. CASE Tick
  BY <1>1 DEF Tick
<1>2. CASE SendPacket \/ SendFails \/ EndOfClip
  BY <1>2 DEF SendPacket, SendFails, EndOfClip
<1>3. CASE ReceiveFrame \/ ReceiveFails \/ TryAgain
  BY <1>3 DEF ReceiveFrame, ReceiveFails, TryAgain
<1>4. CASE RingFull \/ Sleep \/ RingHasRoom
  BY <1>4 DEF RingFull, Sleep, RingHasRoom
<1>5. CASE FrameDone \/ Wrap
  BY <1>5 DEF FrameDone, Wrap
<1>6. CASE PumpReturns
  BY <1>6 DEF PumpReturns, TypeInv, PlaybackTypeOK
<1>7. CASE UNCHANGED vars
  BY <1>7 DEF vars
<1> QED
  BY <1>1, <1>2, <1>3, <1>4, <1>5, <1>6, <1>7 DEF Next, Step

LEMMA RingStep ==
  ASSUME TypeInv, RingInv, [Next]_vars
  PROVE  RingInv'
<1>1. CASE ParkFrame
  BY <1>1, ParkKeeps
<1>2. CASE PumpShows
  BY <1>2, ShowKeeps
<1>3. CASE ~ParkFrame /\ ~PumpShows
  BY <1>3, OthersStill, StillKeeps
<1> QED
  BY <1>1, <1>2, <1>3

\* av_frame_ref is never given a slot that still refers to a frame, and the
\* slots outside the queue are empty, whatever the order of the cursor updates,
\* the wraps of the cursors and of the clip.
THEOREM PlaybackSlotsClean == Spec => []SlotsClean
<1>1. RingInv => SlotsClean
  BY DEF RingInv
<1> QED
  BY <1>1, InitTypes, TypesStep, InitRing, RingStep, PTL DEF Spec

-----------------------------------------------------------------------------
(***************************************************************************)
(* The ring is a queue.                                                    *)
(***************************************************************************)
LEMMA QueueIs ==
  ASSUME TypeInv, RingInv
  PROVE  /\ Queue = [n \in 1..Parked |-> ring[SlotAt(rh, n)]]
         /\ Queue \in Seq(Frames \cup {Empty}) /\ Len(Queue) = Parked
<1>1. Queue = [n \in 1..Parked |-> ring[SlotAt(rh, n)]]
  BY DEF Queue, SlotAt
<1>2. /\ Parked \in Nat /\ Parked < RING_N /\ RING_N \in Nat
      /\ \A n \in 1..RING_N : SlotAt(rh, n) \in Slots
      /\ \A s \in Slots : ring[s] # Empty => \E n \in 1..Parked : s = SlotAt(rh, n)
      /\ ring \in [Slots -> Frames \cup {Empty}]
  BY ParkedAt DEF TypeInv, PlaybackTypeOK
<1>3. ASSUME NEW n \in 1..Parked PROVE ring[SlotAt(rh, n)] \in Frames \cup {Empty}
  <2>1. n \in 1..RING_N
    BY <1>2
  <2>2. SlotAt(rh, n) \in Slots
    BY <1>2, <2>1
  <2> QED
    BY <1>2, <2>2
<1> HIDE DEF Parked
<1>4. Queue \in [1..Parked -> Frames \cup {Empty}]
  BY <1>1, <1>3
<1> QED
  BY <1>1, <1>2, <1>4

LEMMA ParkAppends ==
  ASSUME TypeInv, RingInv, ParkFrame
  PROVE  RingQueue!Park
<1>1. TypeInv' /\ RingInv'
  BY TypesStep, ParkKeeps DEF Next, Step
<1>2. PICK f \in {frm, Empty} :
        /\ Parked' = Parked + 1 /\ rh' = rh
        /\ ring' = [ring EXCEPT ![SlotAt(rh, Parked + 1)] = f]
  BY ParkKeeps
<1>3. /\ Parked \in Nat /\ Parked < RING_N - 2 /\ RING_N \in Nat /\ rh \in Cursors
      /\ frm \in Frames /\ ring \in [Slots -> Frames \cup {Empty}]
      /\ \A n \in 1..RING_N : SlotAt(rh, n) \in Slots
  BY ParkedAt DEF RingInv, ParkFrame, Go, TypeInv, PlaybackTypeOK, Carrying
<1>4. /\ Queue = [n \in 1..Parked |-> ring[SlotAt(rh, n)]]
      /\ Queue \in Seq(Frames \cup {Empty}) /\ Len(Queue) = Parked
  BY QueueIs
<1>5. Queue' = [n \in 1..(Parked + 1) |-> ring'[SlotAt(rh, n)]]
  <2>1. Queue' = [n \in 1..Parked' |-> ring'[SlotAt(rh', n)]]
    BY DEF Queue, SlotAt
  <2> QED
    BY <1>2, <2>1
<1>6. ASSUME NEW n \in 1..(Parked + 1)
      PROVE  ring'[SlotAt(rh, n)] = IF n = Parked + 1 THEN f ELSE ring[SlotAt(rh, n)]
  <2>1. n \in 1..RING_N /\ Parked + 1 \in 1..RING_N
    BY <1>3
  <2>2. n # Parked + 1 => SlotAt(rh, n) # SlotAt(rh, Parked + 1)
    BY <1>3, <2>1, SlotsDiffer
  <2>3. SlotAt(rh, n) \in Slots /\ SlotAt(rh, Parked + 1) \in Slots
    BY <1>3, <2>1
  <2> HIDE DEF SlotAt, Parked
  <2> QED
    BY <1>2, <1>3, <2>2, <2>3
<1>7. Queue' = Append(Queue, f)
  <2> HIDE DEF Parked, SlotAt, Queue
  <2>1. Queue' = [n \in 1..(Parked + 1) |-> IF n = Parked + 1 THEN f ELSE ring[SlotAt(rh, n)]]
    BY <1>5, <1>6
  <2>2. Append(Queue, f)
          = [n \in 1..(Parked + 1) |-> IF n = Parked + 1 THEN f ELSE Queue[n]]
    BY <1>3, <1>4
  <2>3. \A n \in 1..(Parked + 1) : n # Parked + 1 => Queue[n] = ring[SlotAt(rh, n)]
    BY <1>3, <1>4
  <2> QED
    BY <2>1, <2>2, <2>3
<1>8. shown' = shown
  BY DEF ParkFrame
<1> QED
  BY <1>2, <1>3, <1>4, <1>7, <1>8 DEF RingQueue!Park, RingQueue!NoFrame, Empty

LEMMA ShowTakes ==
  ASSUME TypeInv, RingInv, PumpShows
  PROVE  RingQueue!Show
<1>1. /\ RingInv' /\ Parked > 0 /\ Parked' = Parked - 1
      /\ shown' = Drawn(ring[SlotAt(rh, 1)])
      /\ \A n \in 1..(Parked - 1) : ring'[SlotAt(rh', n)] = ring[SlotAt(rh, n + 1)]
  BY ShowKeeps
<1>2. Parked \in Nat
  BY ParkedAt
<1>3. /\ Queue = [n \in 1..Parked |-> ring[SlotAt(rh, n)]]
      /\ Queue \in Seq(Frames \cup {Empty}) /\ Len(Queue) = Parked
  BY QueueIs
<1>4. Queue' = [n \in 1..(Parked - 1) |-> ring'[SlotAt(rh', n)]]
  <2>1. Queue' = [n \in 1..Parked' |-> ring'[SlotAt(rh', n)]]
    BY DEF Queue, SlotAt
  <2> QED
    BY <1>1, <2>1
<1> HIDE DEF Parked, SlotAt, Queue
<1>5. Queue' = Tail(Queue)
  <2>1. Tail(Queue) = [n \in 1..(Parked - 1) |-> Queue[n + 1]]
    BY <1>1, <1>2, <1>3
  <2>2. \A n \in 1..(Parked - 1) : Queue[n + 1] = ring[SlotAt(rh, n + 1)]
    BY <1>1, <1>2, <1>3
  <2> QED
    BY <1>1, <1>4, <2>1, <2>2
<1>6. Queue # <<>> /\ shown' = Drawn(Head(Queue))
  <2>1. 1 \in 1..Parked /\ Queue[1] = ring[SlotAt(rh, 1)]
    BY <1>1, <1>2, <1>3
  <2>2. Head(Queue) = Queue[1]
    BY <1>3
  <2>3. Queue # <<>>
    BY <1>1, <1>2, <1>3
  <2> QED
    BY <1>1, <2>1, <2>2, <2>3
<1> QED
  BY <1>5, <1>6 DEF RingQueue!Show, RingQueue!NoFrame, Drawn, Empty

\* The ring of slots and cursors implements the queue of FrameQueue: parked
\* frames are shown first in first out, each once, and at most RING_N - 2 wait,
\* for every ring, clip, decoder delay and cap on the frames of a pass.
THEOREM PlaybackShowsInOrder == Spec => ShowsInOrder
<1>1. Init => RingQueue!Init
  <2> SUFFICES ASSUME Init PROVE RingQueue!Init
    OBVIOUS
  <2>1. TypeInv /\ RingInv
    BY InitTypes, InitRing
  <2>2. Queue \in Seq(Frames \cup {Empty}) /\ Len(Queue) = Parked
    BY <2>1, QueueIs
  <2>3. CursorMod \in Nat \ {0}
    BY DEF CursorMod
  <2>4. Parked = 0
    BY <2>3 DEF Init, Parked
  <2> QED
    BY <2>2, <2>4 DEF Init, RingQueue!Init, RingQueue!NoFrame, Empty
<1>2. TypeInv /\ RingInv /\ [Next]_vars
        => [RingQueue!Park \/ RingQueue!Show]_<<Queue, shown>>
  <2> SUFFICES ASSUME TypeInv, RingInv, [Next]_vars
               PROVE  [RingQueue!Park \/ RingQueue!Show]_<<Queue, shown>>
    OBVIOUS
  <2>1. CASE ParkFrame
    BY <2>1, ParkAppends
  <2>2. CASE PumpShows
    BY <2>2, ShowTakes
  <2>3. CASE ~ParkFrame /\ ~PumpShows
    <3>1. Still
      BY <2>3, OthersStill
    <3>2. Queue' = Queue
      BY <3>1 DEF Still, Queue, Parked
    <3> QED
      BY <3>1, <3>2 DEF Still
  <2> QED
    BY <2>1, <2>2, <2>3
<1> QED
  BY <1>1, <1>2, InitTypes, TypesStep, InitRing, RingStep, PTL
  DEF Spec, ShowsInOrder, RingQueue!Spec
=============================================================================
