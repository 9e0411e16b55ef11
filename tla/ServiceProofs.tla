---------------------------- MODULE ServiceProofs ----------------------------
(***************************************************************************)
(* Proofs about the small services of the kernel, each by itself: the page *)
(* that KVM writes its clock to, the frame buffer driver, the tables of    *)
(* thread-local storage and of file descriptors, nanosleep, the rate of    *)
(* the time stamp counter, and the calendar.                               *)
(***************************************************************************)
EXTENDS ClockPage, FrameBuffer, Keys, Files, Sleeping, Calibration, Calendar,
        SequenceTheorems, FiniteSetTheorems, WellFoundedInduction, TLAPS

(***************************************************************************)
(* The clock page: however many updates KVM makes while the page is read,  *)
(* a snapshot that is taken is the pair of one update.                     *)
(***************************************************************************)
Even(n) == n % 2 = 0

ClockTypeOK ==
  /\ page \in [version : Nat, tsc : Nat, sys : Nat]
  /\ reader \in [at : {"v1", "tsc", "sys", "v2", "done"}, v1 : Nat, tsc : Nat, sys : Nat]

\* At rest both fields carry the last update; during one, that or the next.
PageOfUpdate ==
  /\ Even(page.version) => 2 * page.tsc = page.version /\ 2 * page.sys = page.version
  /\ ~Even(page.version) =>
       /\ 2 * page.tsc \in {page.version - 1, page.version + 1}
       /\ 2 * page.sys \in {page.version - 1, page.version + 1}

\* A reader that no update has overtaken holds fields of the update it began with.
ReadOfUpdate ==
  /\ reader.at # "v1" => reader.v1 <= page.version
  /\ Even(reader.v1) /\ reader.v1 = page.version =>
       /\ reader.at \in {"sys", "v2"} => 2 * reader.tsc = reader.v1
       /\ reader.at = "v2" => 2 * reader.sys = reader.v1
  /\ SnapshotWhole

ClockInv == ClockTypeOK /\ PageOfUpdate /\ ReadOfUpdate

LEMMA Parity ==
  ASSUME NEW n \in Nat
  PROVE  /\ Even(n) <=> ~Even(n + 1)
         /\ ~Even(n) => 2 * ((n + 1) \div 2) = n + 1
         /\ ~Even(n) => (n + 1) \div 2 \in Nat
  BY DEF Even

LEMMA ClockInit == SnapInit => ClockInv
  BY DEF SnapInit, ClockInv, ClockTypeOK, PageOfUpdate, ReadOfUpdate, SnapshotWhole, Even

LEMMA ClockStep ==
  ASSUME ClockInv, SnapNext
  PROVE  ClockInv'
<1> USE DEF ClockInv, ClockTypeOK, PageOfUpdate, ReadOfUpdate, SnapshotWhole, Even
<1>1. CASE HostBegins
  BY <1>1, Parity DEF HostBegins, Even
<1>2. CASE HostWrites
  <2>1. PICK field \in {"tsc", "sys"} :
          page' = [page EXCEPT ![field] = (page.version + 1) \div 2]
    BY <1>2 DEF HostWrites
  <2>2. ~Even(page.version) /\ reader' = reader
    BY <1>2 DEF HostWrites, Even
  <2>3. /\ 2 * ((page.version + 1) \div 2) = page.version + 1
        /\ (page.version + 1) \div 2 \in Nat
    BY <2>2, Parity
  <2> QED
    BY <2>1, <2>2, <2>3
<1>3. CASE HostEnds
  <2>1. ~Even(page.version) /\ 2 * page.tsc = page.version + 1 /\ page.sys = page.tsc
    BY <1>3, Parity DEF HostEnds, Even
  <2>2. page' = [page EXCEPT !.version = page.version + 1] /\ reader' = reader
    BY <1>3 DEF HostEnds
  <2>3. Even(page.version + 1)
    BY <2>1, Parity
  <2>4. ClockTypeOK' /\ PageOfUpdate'
    BY <2>1, <2>2, <2>3
  <2> QED
    BY <2>1, <2>2, <2>4
<1>4. CASE ReadVersion
  <2>1. page' = page /\ reader' = [reader EXCEPT !.at = "tsc", !.v1 = page.version]
    BY <1>4 DEF ReadVersion
  <2>2. ClockTypeOK' /\ PageOfUpdate'
    BY <2>1
  <2>3. reader'.at = "tsc" /\ reader'.v1 = page'.version /\ page'.version \in Nat
    BY <2>1
  <2> QED
    BY <2>2, <2>3
<1>5. CASE ReadTsc
  BY <1>5 DEF ReadTsc
<1>6. CASE ReadSys
  BY <1>6 DEF ReadSys
<1>7. CASE Compare
  BY <1>7 DEF Compare, Even
<1> QED
  BY <1>1, <1>2, <1>3, <1>4, <1>5, <1>6, <1>7 DEF SnapNext

\* The kvmclock page is never read half updated: a snapshot that is taken is the pair
\* of one update, for any number of updates (metal_overrides.c:94-103).
THEOREM SnapshotIsWhole == SnapSpec => []SnapshotWhole
<1>1. ClockInv /\ UNCHANGED snapVars => ClockInv'
  BY DEF ClockInv, ClockTypeOK, PageOfUpdate, ReadOfUpdate, SnapshotWhole, snapVars
<1>2. ClockInv => SnapshotWhole
  BY DEF ClockInv, ReadOfUpdate
<1> QED
  BY ClockInit, ClockStep, <1>1, <1>2, PTL DEF SnapSpec

-----------------------------------------------------------------------------
(***************************************************************************)
(* The frame buffer: the extent of what the driver writes, for any sizes   *)
(* of a clip, any page and any number of calls of fb_init.                 *)
(***************************************************************************)
Callers == {"none", "init", "render", "blit"}
OnHeap == fb.buffer \notin {None, Static}

FbTypeOK ==
  /\ fb \in [buffer : {None} \cup Nat, pixels : Nat, w : Int, h : Int, select : BOOLEAN,
             sws : Int, high : BOOLEAN]
  /\ drawn \in [by : Callers, buffer : {None} \cup Nat, pixels : Int]
  /\ calls \in Nat

\* A valid size belongs to the buffer that was allocated for it.
RoomForMode == OnHeap /\ Valid(fb.w, fb.h) => fb.w * fb.h <= fb.pixels

\* The scaler is made once the mode is set, and for that mode.
ScalerOfMode ==
  /\ fb.sws # None => Ready /\ fb.sws = fb.w * fb.h
  /\ drawn.by = "render" => fb.sws # None

FbInv == FbTypeOK /\ RoomForMode /\ ScalerOfMode /\ OnlyRenderOverruns

\* All but the first part is about the buffer of the moment.
BufferOfMoment ==
  /\ drawn.buffer \in {None, fb.buffer}
  /\ fb.select => shown.buffer = fb.buffer
  /\ fb.buffer = Static => fb.pixels = Small
  /\ fb.buffer \notin {None, Static} =>
       fb.buffer \in DOMAIN live /\ fb.pixels = live[fb.buffer]
  /\ DOMAIN live \subseteq {fb.buffer}

\* A write that the size of the buffer bounds does not overrun it.
LEMMA BoundedWrite ==
  ASSUME BufferOfMoment', FbTypeOK', drawn'.buffer # None => drawn'.pixels <= fb'.pixels
  PROVE  OnlyRenderOverruns'
<1>1. drawn'.buffer # None => RoomOf(drawn.buffer)' = fb'.pixels
  BY DEF BufferOfMoment, RoomOf
<1>2. ~Overrun'
  BY <1>1 DEF Overrun, FbTypeOK
<1> QED
  BY <1>2 DEF OnlyRenderOverruns, BufferOfMoment

LEMMA PageUpRounds ==
  ASSUME NEW n \in Nat
  PROVE  PageUp(n) \in Nat /\ PageUp(n) >= n
<1> DEFINE m == n + PagePixels - 1
           q == m \div PagePixels
<1>1. PagePixels \in Nat /\ PagePixels > 0 /\ m \in Nat
  BY SideAssumption
<1>2. /\ q \in Nat /\ m % PagePixels \in 0 .. (PagePixels - 1)
      /\ m = PagePixels * q + (m % PagePixels)
  BY <1>1, SMT
<1>3. q * PagePixels = PagePixels * q /\ PagePixels * q \in Nat
  BY <1>1, <1>2
<1>4. PageUp(n) = q * PagePixels
  BY DEF PageUp
<1> HIDE DEF q
<1> QED
  BY <1>1, <1>2, <1>3, <1>4

LEMMA InitFb == FbInit => FbInv
  BY DEF FbInit, FbInv, FbTypeOK, RoomForMode, ScalerOfMode, OnlyRenderOverruns, OnHeap,
         Overrun, Nothing, Wrote, Callers, Nowhere, None, Static

LEMMA ModeKeeps ==
  ASSUME FbInv, NEW w \in Sides, NEW h \in Sides, NEW room \in BOOLEAN,
         NEW ramfb \in BOOLEAN, NEW dma \in BOOLEAN, ~Ready, Open(w, h, room, ramfb, dma)
  PROVE  FbInv'
<1> DEFINE new == IF room THEN Allocated(w, h) ELSE [buffer |-> Static, pixels |-> Small]
           sel == fb.select \/ ramfb
           size == [fb EXCEPT !.w = w, !.h = h]
<1> USE DEF FbInv
<1>1. w \in Int /\ h \in Int /\ w * h \in Int /\ calls \in Nat /\ calls' = calls + 1 /\ fb.sws = None
  BY SideAssumption DEF FbTypeOK, ScalerOfMode, Open
<1>2. CASE ~Valid(w, h)
  <2>1. fb' = size /\ live' = live /\ shown' = shown /\ drawn' = drawn
    BY <1>2 DEF Open
  <2>2. FbTypeOK'
    <3>1. fb' \in [buffer : {None} \cup Nat, pixels : Nat, w : Int, h : Int,
                   select : BOOLEAN, sws : Int, high : BOOLEAN]
      BY <1>1, <2>1 DEF FbTypeOK
    <3>2. drawn' \in [by : Callers, buffer : {None} \cup Nat, pixels : Int] /\ calls' \in Nat
      BY <1>1, <2>1 DEF FbTypeOK
    <3> QED
      BY <3>1, <3>2 DEF FbTypeOK
  <2>3. fb'.w = w /\ fb'.h = h /\ fb'.sws = None
    BY <1>1, <2>1 DEF FbTypeOK
  <2>4. RoomForMode' /\ ScalerOfMode'
    BY <1>1, <1>2, <2>1, <2>3 DEF RoomForMode, ScalerOfMode, OnHeap
  <2>5. OnlyRenderOverruns'
    <3>1. ~Overrun
      BY <1>1 DEF OnlyRenderOverruns, ScalerOfMode
    <3>2. drawn' = drawn /\ live' = live /\ shown' = shown
      BY <2>1
    <3>3. fb'.buffer = fb.buffer /\ fb'.pixels = fb.pixels /\ fb'.select = fb.select
      BY <2>1 DEF FbTypeOK
    <3>4. ~Overrun'
      BY <3>1, <3>2 DEF Overrun, RoomOf
    <3> QED
      BY <3>2, <3>3, <3>4 DEF OnlyRenderOverruns
  <2> QED
    BY <2>2, <2>4, <2>5
<1>3. CASE Valid(w, h)
  <2>1. /\ fb' = [size EXCEPT !.buffer = new.buffer, !.pixels = new.pixels,
                              !.select = sel /\ dma]
        /\ live' = IF room THEN [b \in DOMAIN Freed \cup {new.buffer} |->
                                   IF b = new.buffer THEN new.pixels ELSE live[b]]
                   ELSE Freed
        /\ shown' = IF sel /\ dma THEN [buffer |-> new.buffer, pixels |-> w * h] ELSE shown
        /\ drawn' = IF room THEN Wrote("init", new.buffer, new.pixels) ELSE Nothing
    BY <1>3 DEF Open
  <2>2. w * h \in Nat
    BY <1>3 DEF Valid
  <2>3. /\ new.buffer \in Nat /\ new.pixels \in Nat
        /\ room => new.buffer # Static /\ w * h <= new.pixels
        /\ ~room => new.buffer = Static
    <3>1. CASE room
      BY <1>1, <2>2, <3>1, PageUpRounds DEF Allocated, Static
    <3>2. CASE ~room
      BY <3>2, SideAssumption DEF Static
    <3> QED
      BY <3>1, <3>2
  <2>4. /\ fb'.buffer = new.buffer /\ fb'.pixels = new.pixels /\ fb'.w = w /\ fb'.h = h
        /\ fb'.select = (sel /\ dma) /\ fb'.sws = None
    BY <1>1, <2>1 DEF FbTypeOK
  <2>5. DOMAIN Freed = {}
    BY DEF Freed, OnlyRenderOverruns
  <2>6. room => DOMAIN live' = {new.buffer} /\ live'[new.buffer] = new.pixels
    BY <2>1, <2>5
  <2>7. ~room => DOMAIN live' = {}
    BY <2>1, <2>5
  <2>8. FbTypeOK'
    <3>1. fb' \in [buffer : {None} \cup Nat, pixels : Nat, w : Int, h : Int,
                   select : BOOLEAN, sws : Int, high : BOOLEAN]
      <4> HIDE DEF new
      <4>1. (sel /\ dma) \in BOOLEAN
        OBVIOUS
      <4> HIDE DEF sel
      <4> QED
        BY <1>1, <2>1, <2>3, <4>1 DEF FbTypeOK
    <3>2. drawn' \in [by : Callers, buffer : {None} \cup Nat, pixels : Int]
      <4> HIDE DEF new
      <4>1. CASE room
        BY <2>1, <2>3, <4>1 DEF Wrote, Callers
      <4>2. CASE ~room
        BY <2>1, <4>2 DEF Nothing, Wrote, Callers
      <4> QED
        BY <4>1, <4>2
    <3> QED
      BY <1>1, <3>1, <3>2 DEF FbTypeOK
  <2>9. RoomForMode' /\ ScalerOfMode'
    <3>1. drawn'.by # "render"
      BY <2>1 DEF Nothing, Wrote
    <3> QED
      BY <2>3, <2>4, <3>1 DEF RoomForMode, ScalerOfMode, OnHeap
  <2>10. OnlyRenderOverruns'
    <3>1. fb'.select => shown'.buffer = fb'.buffer
      BY <2>1, <2>4
    <3>2. /\ drawn'.buffer \in {None, fb'.buffer}
          /\ drawn'.buffer # None => drawn'.pixels <= fb'.pixels
      BY <2>1, <2>3, <2>4 DEF Nothing, Wrote
    <3>3. /\ fb'.buffer = Static => fb'.pixels = Small
          /\ fb'.buffer \notin {None, Static} =>
               fb'.buffer \in DOMAIN live' /\ fb'.pixels = live'[fb'.buffer]
      BY <2>3, <2>4, <2>6
    <3>4. DOMAIN live' \subseteq {fb'.buffer}
      BY <2>4, <2>6, <2>7
    <3>5. BufferOfMoment'
      BY <3>1, <3>2, <3>3, <3>4 DEF BufferOfMoment
    <3> QED
      BY <2>8, <3>2, <3>5, BoundedWrite
  <2> QED
    BY <2>8, <2>9, <2>10
<1> QED
  BY <1>2, <1>3

\* The context is made anew for the mode that is set.
LEMMA ScalerKeeps ==
  ASSUME FbInv, SetScaler \/ \E high \in BOOLEAN : SetQuality(high)
  PROVE  FbInv'
<1> USE DEF FbInv
<1>1. PICK high \in BOOLEAN, sws \in {None, fb.w * fb.h} :
        /\ fb' = [fb EXCEPT !.high = high, !.sws = sws]
        /\ sws # None => Ready
  <2>1. CASE SetScaler
    <3>1. [fb EXCEPT !.sws = fb.w * fb.h] = [fb EXCEPT !.high = fb.high, !.sws = fb.w * fb.h]
      BY DEF FbTypeOK
    <3> QED
      BY <2>1, <3>1 DEF SetScaler, FbTypeOK
  <2>2. ASSUME NEW high \in BOOLEAN, SetQuality(high)
        PROVE  \E sws \in {None, fb.w * fb.h} :
                 /\ fb' = [fb EXCEPT !.high = high, !.sws = sws]
                 /\ sws # None => Ready
    BY <2>2 DEF SetQuality, ScalerOfMode, FbTypeOK
  <2> QED
    BY <2>1, <2>2
<1>2. live' = live /\ shown' = shown /\ calls' = calls /\ drawn' = Nothing
  BY DEF SetScaler, SetQuality
<1>3. /\ fb'.buffer = fb.buffer /\ fb'.pixels = fb.pixels /\ fb'.w = fb.w /\ fb'.h = fb.h
      /\ fb'.select = fb.select /\ fb'.sws = sws
  BY <1>1 DEF FbTypeOK
<1>4. fb.w * fb.h \in Int
  BY DEF FbTypeOK
<1>5. FbTypeOK'
  <2>1. sws \in Int
    BY <1>1, <1>4 DEF None
  <2>2. fb' \in [buffer : {None} \cup Nat, pixels : Nat, w : Int, h : Int,
                 select : BOOLEAN, sws : Int, high : BOOLEAN]
    BY <1>1, <2>1 DEF FbTypeOK
  <2> QED
    BY <1>2, <2>2 DEF FbTypeOK, Nothing, Wrote, Callers
<1>6. RoomForMode' /\ ScalerOfMode'
  BY <1>1, <1>2, <1>3 DEF RoomForMode, ScalerOfMode, OnHeap, Ready, Nothing, Wrote
<1>7. BufferOfMoment' /\ drawn'.buffer = None
  BY <1>2, <1>3 DEF OnlyRenderOverruns, BufferOfMoment, Nothing, Wrote
<1> QED
  BY <1>5, <1>6, <1>7, BoundedWrite

LEMMA RenderKeeps ==
  ASSUME FbInv, Render
  PROVE  FbInv'
<1> USE DEF FbInv
<1>1. fb' = fb /\ live' = live /\ shown' = shown /\ calls' = calls
  BY DEF Render
<1>2. CASE fb.select /\ fb.buffer # None /\ fb.sws # None
  <2>1. drawn' = Wrote("render", fb.buffer, fb.sws) /\ fb.sws = fb.w * fb.h /\ Ready
    BY <1>2 DEF Render, ScalerOfMode
  <2>2. FbTypeOK' /\ RoomForMode' /\ ScalerOfMode'
    BY <1>1, <1>2, <2>1 DEF FbTypeOK, RoomForMode, ScalerOfMode, OnHeap, Ready, Wrote, Callers
  <2>3. BufferOfMoment'
    BY <1>1, <2>1 DEF BufferOfMoment, OnlyRenderOverruns, Wrote
  <2>4. CASE fb.buffer = Static
    <3>1. drawn'.pixels = fb.w * fb.h /\ drawn'.by = "render" /\ drawn'.buffer = Static
      BY <2>1, <2>4 DEF Wrote
    <3>2. Overrun' => fb.w * fb.h > Small
      BY <3>1 DEF Overrun, RoomOf
    <3>3. OnlyRenderOverruns'
      BY <1>1, <2>3, <2>4, <3>1, <3>2 DEF OnlyRenderOverruns, BufferOfMoment
    <3> QED
      BY <2>2, <3>3
  <2>5. CASE fb.buffer # Static
    <3>1. drawn'.pixels <= fb'.pixels
      BY <1>1, <1>2, <2>1, <2>5 DEF Wrote, RoomForMode, OnHeap, Ready
    <3> QED
      BY <2>2, <2>3, <3>1, BoundedWrite
  <2> QED
    BY <2>4, <2>5
<1>3. CASE ~(fb.select /\ fb.buffer # None /\ fb.sws # None)
  <2>1. drawn' = Nothing
    BY <1>3 DEF Render
  <2>2. FbTypeOK' /\ RoomForMode' /\ ScalerOfMode'
    BY <1>1, <2>1 DEF FbTypeOK, RoomForMode, ScalerOfMode, OnHeap, Ready, Nothing, Wrote, Callers
  <2>3. BufferOfMoment' /\ drawn'.buffer = None
    BY <1>1, <2>1 DEF BufferOfMoment, OnlyRenderOverruns, Nothing, Wrote
  <2> QED
    BY <2>2, <2>3, BoundedWrite
<1> QED
  BY <1>2, <1>3

LEMMA BlitKeeps ==
  ASSUME FbInv, NEW n \in Nat, Blit(n)
  PROVE  FbInv'
<1> USE DEF FbInv
<1>1. fb' = fb /\ live' = live /\ shown' = shown /\ calls' = calls
  BY DEF Blit
<1>2. fb.w * fb.h \in Int /\ fb.pixels \in Nat
  BY DEF FbTypeOK
<1>3. /\ drawn' \in [by : Callers, buffer : {None} \cup Nat, pixels : Int]
      /\ drawn'.buffer \in {None, fb.buffer} /\ drawn'.by # "render"
      /\ drawn'.buffer # None => drawn'.pixels <= fb.pixels
  <2>1. CASE fb.buffer = None
    BY <2>1 DEF Blit, Nothing, Wrote, Callers
  <2>2. CASE fb.buffer # None
    <3>1. PICK k \in Int : drawn' = Wrote("blit", fb.buffer, k) /\ k <= fb.pixels
      BY <1>2, <2>2 DEF Blit
    <3> QED
      BY <3>1 DEF FbTypeOK, Wrote, Callers
  <2> QED
    BY <2>1, <2>2
<1>4. FbTypeOK' /\ RoomForMode' /\ ScalerOfMode'
  BY <1>1, <1>3 DEF FbTypeOK, RoomForMode, ScalerOfMode, OnHeap, Ready
<1>5. BufferOfMoment' /\ (drawn'.buffer # None => drawn'.pixels <= fb'.pixels)
  BY <1>1, <1>3 DEF BufferOfMoment, OnlyRenderOverruns
<1> QED
  BY <1>4, <1>5, BoundedWrite

\* Whatever allocations fail, the only write that passes the end of its buffer is that of
\* fb_render into the static buffer, of a mode larger than it; every other one, fb_blit
\* into the static buffer included, ends inside the buffer of the moment, and that is
\* the buffer that QEMU shows (render_fb.c:101-237).
THEOREM OnlyTheStaticBufferOverruns == FbSpec => []OnlyRenderOverruns
<1>1. FbInv /\ [FbNext]_fbVars => FbInv'
  <2> SUFFICES ASSUME FbInv, [FbNext]_fbVars PROVE FbInv'
    OBVIOUS
  <2>1. CASE UNCHANGED fbVars
    BY <2>1 DEF fbVars, FbInv, FbTypeOK, RoomForMode, ScalerOfMode, OnlyRenderOverruns, OnHeap,
                Ready, Overrun, RoomOf
  <2>2. CASE FbNext
    <3>1. \A n \in {1, MaxSide * MaxSide} : n \in Nat
      BY SideAssumption
    <3> QED
      BY <2>2, <3>1, ModeKeeps, ScalerKeeps, RenderKeeps, BlitKeeps DEF FbNext
  <2> QED
    BY <2>1, <2>2
<1>2. FbInv => OnlyRenderOverruns
  BY DEF FbInv
<1> QED
  BY InitFb, <1>1, <1>2, PTL DEF FbSpec

-----------------------------------------------------------------------------
(***************************************************************************)
(* Keys: a thread finds under a key what it stored there last.             *)
(***************************************************************************)
KeysTypeOK ==
  /\ taken \subseteq 1..Slots
  /\ given \in Seq(0..Slots)
  /\ tls \in [Users -> [1..Slots -> Values \cup {Null}]]
  /\ stored \in [Users -> Seq(Values \cup {Null})]
  /\ \A u \in Users : Len(stored[u]) = Len(given)
  /\ loose \subseteq 1..Slots /\ met \subseteq 1..Slots

\* The slots of live keys are marked, but where a key had no destructor.
LiveTaken == \A i \in DOMAIN given : given[i] \notin loose \cup {0} => given[i] \in taken

\* A thread that has stored nothing has only empty slots.
NothingStored ==
  \A u \in Users, k \in 1..Slots :
    tls[u][k] # Null => \E j \in DOMAIN given : stored[u][j] # Null

KeysInv == KeysTypeOK /\ LiveTaken /\ NothingStored /\ KeysKept

\* Without the case of a number that is no slot.
LEMMA SlotOfLive ==
  ASSUME KeysTypeOK, NEW u \in Users, NEW i \in DOMAIN given, given[i] # 0
  PROVE  /\ given[i] \in 1..Slots
         /\ GetSpecific(u, given[i]) = tls[u][given[i]]
<1>1. given[i] \in 0..Slots
  BY ElementOfSeq, LenProperties DEF KeysTypeOK
<1> QED
  BY <1>1, SlotAssumption DEF GetSpecific

LEMMA InitKeys == KeysInit => KeysInv
<1> SUFFICES ASSUME KeysInit PROVE KeysInv
  OBVIOUS
<1>1. given = <<>> /\ DOMAIN given = {} /\ Len(given) = 0
  BY DEF KeysInit
<1>2. KeysTypeOK
  BY <1>1 DEF KeysInit, KeysTypeOK, Null
<1> QED
  BY <1>1, <1>2 DEF KeysInit, KeysInv, LiveTaken, NothingStored, KeysKept

LEMMA CreateKeeps ==
  ASSUME KeysInv, KeyCreate
  PROVE  KeysInv'
<1> USE DEF KeysInv
<1> DEFINE n == Len(given) + 1
<1>1. PICK k \in 1..Slots, dtor \in BOOLEAN :
        Give(k, dtor) /\ taken' = IF dtor THEN taken \cup {k} ELSE taken
  BY DEF KeyCreate
<1>2. /\ given \in Seq(0..Slots) /\ Len(given) \in Nat /\ DOMAIN given = 1..Len(given)
      /\ given' \in Seq(0..Slots) /\ Len(given') = n /\ DOMAIN given' = 1..n
      /\ given'[n] = k /\ k # 0 /\ k \notin taken /\ n \notin DOMAIN given
      /\ \A i \in DOMAIN given : given'[i] = given[i]
  BY <1>1, AppendProperties, LenProperties, SlotAssumption DEF KeysTypeOK, Give, Free
<1>3. \A i \in DOMAIN given' : i \in DOMAIN given \/ i = n
  BY <1>2
<1>4. \A u \in Users : /\ stored'[u] \in Seq(Values \cup {Null})
                       /\ Len(stored'[u]) = n /\ stored'[u][n] = Null
                       /\ \A i \in DOMAIN given : stored'[u][i] = stored[u][i]
  BY <1>1, <1>2, AppendProperties, LenProperties DEF KeysTypeOK, Give
<1>5. tls' = tls /\ stored' \in [Users -> Seq(Values \cup {Null})]
  BY <1>1, <1>4 DEF Give
<1>6. KeysTypeOK'
  BY <1>1, <1>2, <1>4, <1>5 DEF KeysTypeOK, Give
<1>7. LiveTaken'
  <2>1. /\ loose \subseteq loose' /\ taken \subseteq taken'
        /\ k \in loose' \/ k \in taken'
    BY <1>1 DEF Give
  <2> QED
    BY <1>2, <1>3, <2>1 DEF LiveTaken
<1>8. NothingStored'
  BY <1>2, <1>4, <1>5 DEF NothingStored
<1>9. ASSUME NEW u \in Users, \A j \in DOMAIN given : stored[u][j] = Null
      PROVE  tls[u][k] = Null
  BY <1>9 DEF NothingStored
<1>10. /\ met \subseteq met' /\ met' \subseteq met \cup {k}
       /\ \A i \in DOMAIN given : given[i] = k => k \in met'
  BY <1>1 DEF Give, Named
<1>11. met' \subseteq loose'
  <2>1. loose \subseteq loose'
    BY <1>1 DEF Give
  <2>2. ASSUME NEW i \in DOMAIN given, given[i] = k
        PROVE  k \in loose
    BY <1>2, <2>2 DEF LiveTaken
  <2>3. met' = met \/ \E i \in DOMAIN given : given[i] = k
    BY <1>1 DEF Give, Named
  <2> QED
    BY <1>10, <2>1, <2>2, <2>3 DEF KeysKept
<1>12. KeysKept'
  <2>1. \A u \in Users, i \in DOMAIN given :
          given[i] # 0 => GetSpecific(u, given[i])' = GetSpecific(u, given[i])
    BY <1>2, <1>5 DEF GetSpecific
  <2>2. ASSUME NEW u \in Users, NEW i \in DOMAIN given',
               given'[i] \notin met' \cup {0}, stored'[u][i] # Null
        PROVE  GetSpecific(u, given[i])' = stored'[u][i]
    BY <1>2, <1>3, <1>4, <1>10, <2>1, <2>2 DEF KeysKept
  <2>3. ASSUME NEW u \in Users, NEW i \in DOMAIN given', given'[i] \notin met' \cup {0},
               \A j \in DOMAIN given' : j < i => stored'[u][j] = Null
        PROVE  GetSpecific(u, given[i])' = stored'[u][i]
    <3>1. CASE i \in DOMAIN given
      <4>1. \A j \in DOMAIN given : j < i => stored[u][j] = Null
        BY <1>2, <1>4, <2>3, <3>1
      <4> QED
        BY <1>2, <1>4, <1>10, <2>1, <2>3, <3>1, <4>1 DEF KeysKept
    <3>2. CASE i = n
      <4>1. \A j \in DOMAIN given : j \in DOMAIN given' /\ j < i
        BY <1>2, <3>2
      <4>2. tls[u][k] = Null
        BY <1>4, <1>9, <2>3, <4>1
      <4> QED
        BY <1>2, <1>4, <1>5, <3>2, <4>2 DEF GetSpecific
    <3> QED
      BY <1>3, <3>1, <3>2
  <2>4. \A i, j \in DOMAIN given' :
          given'[i] # 0 /\ given'[i] = given'[j] /\ i # j => given'[i] \in met'
    BY <1>2, <1>3, <1>10 DEF KeysKept
  <2>5. \A l \in taken' : \E i \in DOMAIN given' : given'[i] = l
    BY <1>1, <1>2 DEF KeysKept
  <2> QED
    BY <1>11, <2>2, <2>3, <2>4, <2>5 DEF KeysKept
<1> QED
  BY <1>6, <1>7, <1>8, <1>12

LEMMA DeleteKeeps ==
  ASSUME KeysInv, NEW d \in DOMAIN given, KeyDelete(d)
  PROVE  KeysInv'
<1> USE DEF KeysInv
<1>1. /\ given' = [given EXCEPT ![d] = 0] /\ taken' = taken \ {given[d]}
      /\ tls' = tls /\ stored' = stored /\ given[d] # 0
  BY DEF KeyDelete
<1>2. /\ given \in Seq(0..Slots) /\ DOMAIN given' = DOMAIN given
      /\ given' \in Seq(0..Slots) /\ Len(given') = Len(given) /\ given'[d] = 0
      /\ \A i \in DOMAIN given : i # d => given'[i] = given[i]
  BY <1>1, ExceptSeq, SlotAssumption DEF KeysTypeOK
<1>3. PICK empty \in SUBSET {given[d]} :
        /\ loose' = loose \ empty /\ met' = met \ empty
        /\ empty # {} => \A i \in DOMAIN given : given[i] = given[d] => i = d
  BY DEF KeyDelete, Named
<1>4. KeysTypeOK' /\ NothingStored'
  BY <1>1, <1>2, <1>3 DEF KeysTypeOK, NothingStored
<1>5. \A i \in DOMAIN given : i # d => given[i] \notin empty
  BY <1>3
<1>6. LiveTaken'
  BY <1>1, <1>2, <1>3, <1>5 DEF LiveTaken, KeysKept
<1>7. \A u \in Users, i \in DOMAIN given :
        i # d => GetSpecific(u, given[i])' = GetSpecific(u, given[i])
  BY <1>1, <1>2 DEF GetSpecific
<1>8. KeysKept'
  <2>1. \A i, j \in DOMAIN given' :
          given'[i] # 0 /\ given'[i] = given'[j] /\ i # j => given'[i] \in met'
    BY <1>2, <1>3, <1>5 DEF KeysKept
  <2>2. met' \subseteq loose'
    BY <1>3 DEF KeysKept
  <2>3. \A i \in DOMAIN given' :
          given'[i] \notin met' \cup {0} => i # d /\ given[i] \notin met \cup {0}
    BY <1>2, <1>3, <1>5
  <2>4. \A l \in taken' : \E i \in DOMAIN given' : given'[i] = l
    BY <1>1, <1>2 DEF KeysKept
  <2> QED
    BY <1>1, <1>2, <1>7, <2>1, <2>2, <2>3, <2>4 DEF KeysKept
<1> QED
  BY <1>4, <1>6, <1>8

LEMMA SetKeeps ==
  ASSUME KeysInv, NEW u \in Users, NEW i \in DOMAIN given, NEW v \in Values,
         SetSpecific(u, i, v)
  PROVE  KeysInv'
<1> USE DEF KeysInv
<1>1. /\ given' = given /\ taken' = taken /\ given[i] # 0 /\ v # Null
      /\ loose' = loose /\ met' = met
      /\ tls' = [tls EXCEPT ![u][given[i]] = v]
      /\ stored' = [stored EXCEPT ![u][i] = v]
  BY ValueAssumption DEF SetSpecific
<1>2. given[i] \in 1..Slots
  BY <1>1, SlotOfLive
<1>3. /\ DOMAIN given = 1..Len(given) /\ Len(given) \in Nat
      /\ stored[u] \in Seq(Values \cup {Null}) /\ Len(stored[u]) = Len(given)
  BY LenProperties DEF KeysTypeOK
<1>4. /\ [stored[u] EXCEPT ![i] = v] \in Seq(Values \cup {Null})
      /\ Len([stored[u] EXCEPT ![i] = v]) = Len(given)
      /\ \A j \in DOMAIN given : [stored[u] EXCEPT ![i] = v][j] = IF j = i THEN v ELSE stored[u][j]
  BY <1>3, ExceptSeq
<1>5. /\ stored' \in [Users -> Seq(Values \cup {Null})]
      /\ stored'[u] = [stored[u] EXCEPT ![i] = v]
      /\ \A w \in Users : w # u => stored'[w] = stored[w]
  BY <1>1, <1>4 DEF KeysTypeOK
<1>6. /\ tls' \in [Users -> [1..Slots -> Values \cup {Null}]]
      /\ tls'[u][given[i]] = v
      /\ \A k \in 1..Slots : k # given[i] => tls'[u][k] = tls[u][k]
      /\ \A w \in Users : w # u => tls'[w] = tls[w]
  BY <1>1, <1>2 DEF KeysTypeOK
<1>7. KeysTypeOK' /\ LiveTaken'
  <2>1. ASSUME NEW w \in Users
        PROVE  Len(stored'[w]) = Len(given)
    <3>1. CASE w = u
      BY <1>4, <1>5, <3>1
    <3>2. CASE w # u
      BY <1>5, <3>2 DEF KeysTypeOK
    <3> QED
      BY <3>1, <3>2
  <2> QED
    BY <1>1, <1>5, <1>6, <2>1 DEF KeysTypeOK, LiveTaken
<1>8. NothingStored'
  <2>1. stored'[u][i] # Null
    BY <1>1, <1>4, <1>5
  <2> QED
    BY <1>1, <1>5, <1>6, <2>1 DEF NothingStored
<1>9. ASSUME NEW w \in Users, NEW j \in DOMAIN given, given[j] # 0
      PROVE  /\ GetSpecific(w, given[j])' = tls'[w][given[j]]
             /\ GetSpecific(w, given[j]) = tls[w][given[j]]
             /\ given[j] \in 1..Slots
  <2>1. given[j] \in 1..Slots /\ GetSpecific(w, given[j]) = tls[w][given[j]]
    BY <1>9, SlotOfLive
  <2> QED
    BY <1>1, <2>1 DEF GetSpecific
<1>10. KeysKept'
  <2>1. ASSUME NEW w \in Users, NEW j \in DOMAIN given, given[j] \notin met \cup {0},
               \/ stored'[w][j] # Null
               \/ \A l \in DOMAIN given : l < j => stored'[w][l] = Null
        PROVE  GetSpecific(w, given[j])' = stored'[w][j]
    <3>1. CASE w # u
      <4>1. stored'[w] = stored[w] /\ tls'[w] = tls[w]
        BY <1>5, <1>6, <3>1
      <4>2. GetSpecific(w, given[j])' = GetSpecific(w, given[j])
        BY <1>9, <2>1, <4>1
      <4> QED
        BY <2>1, <4>1, <4>2 DEF KeysKept
    <3>2. CASE w = u /\ j = i
      BY <1>4, <1>5, <1>6, <1>9, <2>1, <3>2
    <3>3. CASE w = u /\ j # i
      <4>1. given[j] # given[i]
        BY <1>1, <2>1, <3>3 DEF KeysKept
      <4>2. stored'[w][j] = stored[w][j] /\ GetSpecific(w, given[j])' = GetSpecific(w, given[j])
        BY <1>4, <1>5, <1>6, <1>9, <2>1, <3>3, <4>1
      <4>3. \A l \in DOMAIN given : stored'[w][l] = Null => stored[w][l] = Null
        BY <1>1, <1>4, <1>5, <3>3
      <4> QED
        BY <2>1, <4>2, <4>3 DEF KeysKept
    <3> QED
      BY <3>1, <3>2, <3>3
  <2> QED
    BY <1>1, <2>1 DEF KeysKept
<1> QED
  BY <1>7, <1>8, <1>10

\* For any number of slots, threads and keys, with destructor or without: two live keys
\* meet in a slot only where one without destructor has been given it, and elsewhere a
\* thread finds under a live key what it stored there last (pthread_impl.c:137-166).
THEOREM KeysAreKept == KeysSpec => []KeysKept
<1>1. KeysInv /\ [KeysNext]_keyVars => KeysInv'
  <2> SUFFICES ASSUME KeysInv, [KeysNext]_keyVars PROVE KeysInv'
    OBVIOUS
  <2>1. CASE UNCHANGED keyVars
    BY <2>1 DEF keyVars, KeysInv, KeysTypeOK, LiveTaken, NothingStored, KeysKept, GetSpecific
  <2> QED
    BY <2>1, CreateKeeps, DeleteKeeps, SetKeeps DEF KeysNext
<1>2. KeysInv => KeysKept
  BY DEF KeysInv
<1> QED
  BY InitKeys, <1>1, <1>2, PTL DEF KeysSpec

-----------------------------------------------------------------------------
(***************************************************************************)
(* Files: who reads a file without seeking reads all of it, once.          *)
(***************************************************************************)
Fds == 1..Entries

FilesTypeOK ==
  /\ disk \in [base : {"none", "module", "fw_cfg", "embedded"}, size : Nat]
  /\ ft \in [Fds -> Nat \cup {Closed}]
  /\ got \in [Fds -> [from : Nat, bytes : Nat, ended : BOOLEAN]]

\* Nothing is open before the disk is chosen.
NotBeforeBoot == disk = NoDisk => \A fd \in Fds : ft[fd] = Closed

FilesInv == FilesTypeOK /\ NotBeforeBoot /\ ReadsAll

\* What a descriptor owes its reader.
Honest(fd) ==
  ft[fd] # Closed =>
    /\ ft[fd] = got[fd].from + got[fd].bytes /\ ft[fd] <= disk.size
    /\ got[fd].ended => got[fd].from + got[fd].bytes = disk.size

LEMMA ReadsAllIsHonest == ReadsAll <=> \A fd \in Fds : Honest(fd)
  BY DEF ReadsAll, Honest, Fds

\* A step that moves one descriptor to an honest place keeps the invariant.
LEMMA OneMoves ==
  ASSUME FilesInv, NEW fd \in Fds, NEW p \in Nat \cup {Closed},
         NEW g \in [from : Nat, bytes : Nat, ended : BOOLEAN],
         disk' = disk, ft' = [ft EXCEPT ![fd] = p], got' = [got EXCEPT ![fd] = g],
         disk = NoDisk => p = Closed,
         p # Closed => /\ p = g.from + g.bytes /\ p <= disk.size
                       /\ g.ended => g.from + g.bytes = disk.size
  PROVE  FilesInv'
<1> USE DEF FilesInv
<1>1. /\ ft'[fd] = p /\ got'[fd] = g
      /\ \A o \in Fds : o # fd => ft'[o] = ft[o] /\ got'[o] = got[o]
  BY DEF FilesTypeOK
<1>2. FilesTypeOK'
  BY DEF FilesTypeOK
<1>3. NotBeforeBoot'
  BY <1>1 DEF NotBeforeBoot
<1>4. ASSUME NEW o \in Fds
      PROVE  Honest(o)'
  <2>1. CASE o = fd
    BY <1>1, <2>1 DEF Honest, Closed
  <2>2. CASE o # fd
    BY <1>1, <2>2, ReadsAllIsHonest DEF Honest
  <2> QED
    BY <2>1, <2>2
<1>5. ReadsAll'
  BY <1>4 DEF ReadsAll, Honest, Fds
<1> QED
  BY <1>2, <1>3, <1>5

LEMMA InitFiles == FilesInit => FilesInv
  BY DEF FilesInit, FilesInv, FilesTypeOK, NotBeforeBoot, ReadsAll, NoDisk, From, Closed, Fds

LEMMA BootKeeps ==
  ASSUME FilesInv, NEW m \in Sizes, NEW f \in Sizes, Boot(m, f)
  PROVE  FilesInv'
<1>1. /\ disk' = Disk(m, f) /\ ft' = ft /\ got' = got
      /\ \A fd \in Fds : ft[fd] = Closed
  BY DEF Boot, FilesInv, NotBeforeBoot
<1>2. Disk(m, f) \in [base : {"none", "module", "fw_cfg", "embedded"}, size : Nat]
  <2>1. m \in Nat /\ f \in Nat /\ Embedded \in Nat
    BY DiskAssumption
  <2> QED
    BY <2>1 DEF Disk
<1> QED
  BY <1>1, <1>2 DEF FilesInv, FilesTypeOK, NotBeforeBoot, ReadsAll, Fds

LEMMA OpenKeeps ==
  ASSUME FilesInv, OpenFile
  PROVE  FilesInv'
<1>1. PICK fd \in Unused : ft' = [ft EXCEPT ![fd] = 0] /\ got' = [got EXCEPT ![fd] = From(0)]
  BY DEF OpenFile
<1>2. fd \in Fds /\ disk' = disk /\ disk # NoDisk /\ disk.size \in Nat
  BY DEF Unused, Fds, OpenFile, FilesInv, FilesTypeOK
<1>3. From(0) \in [from : Nat, bytes : Nat, ended : BOOLEAN]
      /\ From(0).from + From(0).bytes = 0 /\ ~From(0).ended
  BY DEF From
<1>4. 0 \in Nat /\ 0 <= disk.size
  BY <1>2
<1> QED
  BY <1>1, <1>2, <1>3, <1>4, OneMoves

LEMMA ReadKeeps ==
  ASSUME FilesInv, NEW fd \in Fds, NEW count \in Counts, Read(fd, count)
  PROVE  FilesInv'
<1> DEFINE n == Given(fd, count)
           g == [from |-> got[fd].from, bytes |-> got[fd].bytes + n, ended |-> (n = 0)]
<1>1. /\ ft[fd] \in Nat /\ disk.size \in Nat /\ disk # NoDisk
      /\ got[fd] \in [from : Nat, bytes : Nat, ended : BOOLEAN]
      /\ ft[fd] = got[fd].from + got[fd].bytes /\ ft[fd] <= disk.size
  BY ReadsAllIsHonest DEF Read, FilesInv, FilesTypeOK, NotBeforeBoot, Honest
<1>2. /\ n \in Nat /\ ft[fd] + n <= disk.size
      /\ n = 0 => ft[fd] = disk.size
  BY <1>1, DiskAssumption DEF Given, Least
<1>3. disk' = disk /\ ft' = [ft EXCEPT ![fd] = ft[fd] + n]
  BY DEF Read
<1>4. got' = [got EXCEPT ![fd] = g]
  BY DEF Read, Take
<1>5. g \in [from : Nat, bytes : Nat, ended : BOOLEAN]
  BY <1>1, <1>2
<1>6. /\ ft[fd] + n \in Nat /\ ft[fd] + n = g.from + g.bytes
      /\ g.ended => g.from + g.bytes = disk.size
  <2>1. g.from = got[fd].from /\ g.bytes = got[fd].bytes + n /\ g.ended = (n = 0)
    OBVIOUS
  <2>2. g.ended => n = 0
    BY <2>1
  <2> HIDE DEF n, g
  <2> QED
    BY <1>1, <1>2, <2>1, <2>2
<1> HIDE DEF n, g
<1> QED
  BY <1>1, <1>2, <1>3, <1>4, <1>5, <1>6, OneMoves DEF Closed

LEMMA SeekKeeps ==
  ASSUME FilesInv, NEW fd \in Fds, NEW off \in Offsets, NEW whence \in 0..2,
         Seek(fd, off, whence)
  PROVE  FilesInv'
<1>1. /\ ft[fd] \in Nat /\ disk.size \in Nat /\ disk # NoDisk /\ off \in Int
  BY DiskAssumption DEF Seek, FilesInv, FilesTypeOK, NotBeforeBoot
<1> DEFINE to == off + (IF whence = 0 THEN 0 ELSE IF whence = 1 THEN ft[fd] ELSE disk.size)
           np == IF to < 0 THEN 0 ELSE Least(to, disk.size)
<1>2. ft' = [ft EXCEPT ![fd] = np] /\ got' = [got EXCEPT ![fd] = From(np)]
  BY DEF Seek
<1>3. to \in Int
  BY <1>1
<1>4. np \in Nat /\ np <= disk.size
  <2> HIDE DEF to
  <2> QED
    BY <1>1, <1>3 DEF Least
<1> HIDE DEF np
<1>5. From(np) \in [from : Nat, bytes : Nat, ended : BOOLEAN]
      /\ np = From(np).from + From(np).bytes /\ ~From(np).ended
  BY <1>4 DEF From
<1>6. disk' = disk
  BY DEF Seek
<1> QED
  BY <1>1, <1>2, <1>4, <1>5, <1>6, OneMoves

LEMMA CloseKeeps ==
  ASSUME FilesInv, NEW fd \in Fds, Close(fd)
  PROVE  FilesInv'
<1>1. From(0) \in [from : Nat, bytes : Nat, ended : BOOLEAN]
  BY DEF From
<1> QED
  BY <1>1, OneMoves DEF Close

\* A reader gets the disk from where it has begun, each byte once and in order, and a
\* read gives nothing only at its end: for any sizes, reads, seeks and descriptors
\* (syscall_shim.c:389-422).
THEOREM ReadersGetAll == FilesSpec => []ReadsAll
<1>1. FilesInv /\ [FilesNext]_fileVars => FilesInv'
  <2> SUFFICES ASSUME FilesInv, [FilesNext]_fileVars PROVE FilesInv'
    OBVIOUS
  <2>1. CASE UNCHANGED fileVars
    BY <2>1 DEF fileVars, FilesInv, FilesTypeOK, NotBeforeBoot, ReadsAll
  <2>2. CASE FilesNext
    BY <2>2, BootKeeps, OpenKeeps, ReadKeeps, SeekKeeps, CloseKeeps DEF FilesNext, Fds
  <2> QED
    BY <2>1, <2>2
<1>2. FilesInv => ReadsAll
  BY DEF FilesInv
<1> QED
  BY InitFiles, <1>1, <1>2, PTL DEF FilesSpec
-----------------------------------------------------------------------------
(***************************************************************************)
(* nanosleep.  A time is bounded in ticks through products with Hz and     *)
(* Second.  On the boot CPU the PIT ends every hlt, so that nothing need   *)
(* be known of the alarm; an AP does not return from one.                  *)
(***************************************************************************)
\* The last tick at which the code may still find the deadline ahead, and one more.
Due(c, w) == c + (w * Hz) \div Second + 1

LEMMA QuotientBounds ==
  ASSUME NEW a \in Nat, NEW u \in Nat \ {0}
  PROVE  a \div u \in Nat /\ u * (a \div u) <= a /\ a < u * (a \div u) + u
  BY SMT

LEMMA ProductNat ==
  ASSUME NEW a \in Nat, NEW b \in Nat
  PROVE  a * b \in Nat
  BY SMT

LEMMA ProductCancels ==
  ASSUME NEW a \in Int, NEW b \in Int, NEW u \in Nat \ {0}, u * a < u * b
  PROVE  a < b
<1>1. CASE a >= b
  <2>1. u * (a - b) >= 0
    BY <1>1
  <2> QED
    BY <2>1
<1> QED
  BY <1>1

LEMMA ProductGrows ==
  ASSUME NEW a \in Int, NEW b \in Int, NEW u \in Nat, a <= b
  PROVE  u * a <= u * b
<1>1. u * (b - a) >= 0
  OBVIOUS
<1> QED
  BY <1>1

LEMMA RemainderBounds ==
  ASSUME NEW a \in Int, NEW u \in Nat \ {0}
  PROVE  a % u \in Nat /\ a % u < u /\ (a >= 0 => a % u <= a)
  BY SMT

LEMMA NsBounds ==
  ASSUME NEW t \in Nat
  PROVE  Ns(t) \in Nat /\ Hz * Ns(t) <= Second * t /\ Second * t < Hz * Ns(t) + Hz
<1>1. t * Second \in Nat /\ t * Second = Second * t /\ Hz \in Nat \ {0}
  BY TimeAssumption, ProductNat
<1> QED
  BY <1>1, QuotientBounds DEF Ns

LEMMA DueBounds ==
  ASSUME NEW c \in Nat, NEW w \in Nat
  PROVE  /\ Due(c, w) \in Nat /\ c < Due(c, w)
         /\ Hz * w < Second * (Due(c, w) - c)
<1> DEFINE q == (w * Hz) \div Second
<1>1. w * Hz \in Nat /\ w * Hz = Hz * w /\ Second \in Nat \ {0}
  BY TimeAssumption, ProductNat
<1>2. q \in Nat /\ w * Hz < Second * q + Second
  BY <1>1, QuotientBounds
<1>3. Due(c, w) = c + q + 1
  BY DEF Due
<1> HIDE DEF q
<1>4. Second * (q + 1) = Second * q + Second
  BY <1>1, <1>2
<1> QED
  BY <1>1, <1>2, <1>3, <1>4

\* While the deadline is more than y nanoseconds ahead, x ticks that last no longer
\* than that do not pass it.
LEMMA Ahead ==
  ASSUME NEW c \in Nat, NEW w \in Nat, NEW t \in Nat, NEW x \in Nat, NEW y \in Nat,
         Second * x <= Hz * y, Ns(t) < Ns(c) + w - y
  PROVE  t + x < Due(c, w)
<1>1. Hz \in Nat \ {0} /\ Second \in Nat \ {0}
  BY TimeAssumption
<1>2. /\ Ns(t) \in Nat /\ Second * t < Hz * Ns(t) + Hz
      /\ Ns(c) \in Nat /\ Hz * Ns(c) <= Second * c
  BY NsBounds
<1>3. Due(c, w) \in Nat /\ Hz * w < Second * (Due(c, w) - c)
  BY DueBounds
<1>4. Hz * (Ns(t) + 1) <= Hz * (Ns(c) + w - y)
  BY <1>1, <1>2, ProductGrows
<1>5. /\ Hz * (Ns(t) + 1) = Hz * Ns(t) + Hz
      /\ Hz * (Ns(c) + w - y) = Hz * Ns(c) + Hz * w - Hz * y
      /\ Second * (t + x) = Second * t + Second * x
      /\ Second * (Due(c, w) - c) = Second * Due(c, w) - Second * c
  BY <1>1, <1>2, <1>3
<1>6. Second * (t + x) < Second * Due(c, w)
  BY <1>1, <1>2, <1>3, <1>4, <1>5, ProductNat
<1> QED
  BY <1>1, <1>3, <1>6, ProductCancels

LEMMA TicksNat ==
  ASSUME Early - Ns(tsc) \in Int
  PROVE  Ticks \in Nat
<1> DEFINE r == (Early - Ns(tsc)) % Modulus
           p == (r * Hz) % Modulus
<1>1. {Hz, Second, Modulus} \subseteq Nat \ {0}
  BY TimeAssumption
<1>2. r \in Nat
  BY <1>1, RemainderBounds
<1>3. Ticks = p \div Second
  BY DEF Ticks
<1> HIDE DEF r
<1>4. r * Hz \in Nat
  BY <1>1, <1>2, ProductNat
<1>5. p \in Nat
  BY <1>1, <1>4, RemainderBounds
<1> HIDE DEF p
<1> QED
  BY <1>1, <1>3, <1>5, QuotientBounds

DueNow == Due(sleep.called, sleep.want)

SleepTypeOK ==
  /\ tsc \in Nat
  /\ alarm \in Nat \cup {Never}
  /\ sleep \in [at : {"call", "plan", "hlt", "spin", "done", "lost"}, bsp : BOOLEAN,
                timer : BOOLEAN, want : Nat, deadline : Nat, called : Nat]

AlarmKnown ==
  /\ sleep.at # "hlt" => alarm = Never
  /\ sleep.at = "hlt" => (alarm = Never <=> ~sleep.timer)

DeadlineAsAsked ==
  sleep.at # "call" => sleep.deadline = Ns(sleep.called) + sleep.want

\* Planning with a timer follows the call; without, it also follows every interrupt.
PlannedInTime ==
  sleep.at = "plan" =>
    IF sleep.timer THEN tsc <= sleep.called + Jump ELSE tsc <= DueNow + Jump

\* A halted CPU wakes in time when the PIT wakes it.
HaltsInTime ==
  sleep.at = "hlt" =>
    IF sleep.timer
    THEN tsc <= sleep.called + 2 * Jump
    ELSE tsc + Period <= DueNow + Jump

SpinsInTime == sleep.at = "spin" => tsc <= DueNow + Slip

SleepInv ==
  SleepTypeOK /\ AlarmKnown /\ DeadlineAsAsked /\ PlannedInTime /\ HaltsInTime
  /\ SpinsInTime /\ OnTime

\* What a step that leaves the request alone keeps.
LEMMA SameRequest ==
  ASSUME sleep' = [sleep EXCEPT !.at = sleep'.at], SleepTypeOK
  PROVE  /\ DueNow' = DueNow /\ Slip' = Slip
         /\ sleep'.deadline = sleep.deadline /\ sleep'.called = sleep.called
         /\ sleep'.want = sleep.want /\ sleep'.timer = sleep.timer /\ sleep'.bsp = sleep.bsp
<1>1. /\ sleep'.deadline = sleep.deadline /\ sleep'.called = sleep.called
      /\ sleep'.want = sleep.want /\ sleep'.timer = sleep.timer /\ sleep'.bsp = sleep.bsp
  BY DEF SleepTypeOK
<1>2. DueNow' = DueNow /\ Overtaken' = Overtaken
  BY <1>1 DEF DueNow, Due, Overtaken, Ns
<1> QED
  BY <1>1, <1>2 DEF Slip

LEMMA SleepFacts ==
  ASSUME SleepTypeOK
  PROVE  /\ Ns(tsc) \in Nat /\ Ns(sleep.called) \in Nat
         /\ DueNow \in Nat /\ sleep.called < DueNow
         /\ Slip \in Nat /\ Slip >= 2 * Jump
         /\ Jump \in Nat \ {0} /\ Period \in Nat \ {0} /\ Margin \in Nat
<1>1. /\ tsc \in Nat /\ sleep.called \in Nat /\ sleep.want \in Nat
      /\ sleep.timer \in BOOLEAN /\ sleep.bsp \in BOOLEAN
  BY DEF SleepTypeOK
<1>2. /\ Jump \in Nat \ {0} /\ Period \in Nat \ {0} /\ Margin \in Nat
  BY TimeAssumption
<1>3. Slip \in Nat /\ Slip >= 2 * Jump
  BY <1>2 DEF Slip
<1> QED
  BY <1>1, <1>2, <1>3, NsBounds, DueBounds DEF DueNow

LEMMA InitSleep == SleepInit => SleepInv
<1> SUFFICES ASSUME SleepInit PROVE SleepInv
  OBVIOUS
<1>1. SleepTypeOK /\ sleep.at = "call" /\ alarm = Never
  <2>1. Start \subseteq Nat /\ Wants \subseteq Nat
    BY TimeAssumption
  <2>2. /\ tsc \in Start /\ alarm = Never
        /\ sleep \in [at : {"call"}, bsp : BOOLEAN, timer : BOOLEAN, want : Wants,
                     deadline : {0}, called : {0}]
    BY DEF SleepInit
  <2>3. sleep \in [at : {"call", "plan", "hlt", "spin", "done", "lost"}, bsp : BOOLEAN,
                  timer : BOOLEAN, want : Nat, deadline : Nat, called : Nat]
        /\ sleep.at = "call"
    <3>1. sleep.want \in Wants /\ sleep.deadline = 0 /\ sleep.called = 0 /\ sleep.at = "call"
          /\ sleep.bsp \in BOOLEAN /\ sleep.timer \in BOOLEAN
      BY <2>2
    <3>2. sleep = [at |-> sleep.at, bsp |-> sleep.bsp, timer |-> sleep.timer,
                   want |-> sleep.want, deadline |-> sleep.deadline, called |-> sleep.called]
      BY <2>2
    <3>3. sleep.want \in Nat
      BY <2>1, <3>1
    <3> QED
      BY <3>1, <3>2, <3>3
  <2> QED
    BY <2>1, <2>2, <2>3 DEF SleepTypeOK
<1> QED
  BY <1>1 DEF SleepInv, AlarmKnown, DeadlineAsAsked, PlannedInTime, HaltsInTime, SpinsInTime,
    OnTime

LEMMA TimeIsNat ==
  ASSUME SleepTypeOK, TimePasses
  PROVE  tsc' \in Nat /\ tsc <= tsc' /\ tsc' <= tsc + Jump
<1>1. tsc \in Nat /\ Jump \in Nat
  BY TimeAssumption DEF SleepTypeOK
<1> QED
  BY <1>1 DEF TimePasses

LEMMA CallKeeps ==
  ASSUME SleepInv, Call
  PROVE  SleepInv'
<1>1. SleepTypeOK /\ alarm = Never /\ alarm' = Never
  BY DEF SleepInv, AlarmKnown, Call
<1>2. tsc' \in Nat /\ tsc' <= tsc + Jump
  BY <1>1, TimeIsNat DEF Call
<1>3. /\ Ns(tsc) \in Nat /\ sleep.want \in Nat /\ tsc \in Nat
  BY <1>1, SleepFacts DEF SleepTypeOK
<1>4. Ns(tsc) + sleep.want \in Nat
  BY <1>3
<1> DEFINE end == Ns(tsc) + sleep.want
           at == IF end > Margin THEN "plan" ELSE "spin"
<1>5. sleep' = [sleep EXCEPT !.deadline = end, !.called = tsc, !.at = at] /\ end \in Nat
      /\ end = Ns(tsc) + sleep.want
  BY <1>4 DEF Call
<1>6. at \in {"plan", "spin"}
  OBVIOUS
<1> HIDE DEF end, at
<1>7. /\ sleep'.at = at /\ sleep'.deadline = end /\ sleep'.called = tsc
      /\ sleep'.want = sleep.want
  BY <1>1, <1>5 DEF SleepTypeOK
<1>8. SleepTypeOK'
  BY <1>1, <1>2, <1>3, <1>5, <1>6 DEF SleepTypeOK
<1>9. DeadlineAsAsked'
  BY <1>5, <1>7 DEF DeadlineAsAsked, Ns
<1>10. /\ DueNow' = Due(tsc, sleep.want) /\ Due(tsc, sleep.want) \in Nat
       /\ tsc < Due(tsc, sleep.want)
  BY <1>3, <1>7, DueBounds DEF DueNow, Due
<1>11. Slip' \in Nat /\ Slip' >= 2 * Jump /\ Jump \in Nat
  <2>1. Jump \in Nat /\ Period \in Nat
    BY <1>1, SleepFacts
  <2>2. Slip' \in {2 * Jump + 0, 2 * Jump + Period}
    BY DEF Slip
  <2> QED
    BY <2>1, <2>2
<1>12. PlannedInTime' /\ SpinsInTime'
  BY <1>2, <1>3, <1>7, <1>10, <1>11 DEF PlannedInTime, SpinsInTime
<1> QED
  BY <1>1, <1>6, <1>7, <1>8, <1>9, <1>12 DEF SleepInv, AlarmKnown, HaltsInTime, OnTime

LEMMA ArmKeeps ==
  ASSUME SleepInv, Arm
  PROVE  SleepInv'
<1>1. /\ SleepTypeOK /\ sleep.timer /\ sleep.at = "plan"
      /\ sleep' = [sleep EXCEPT !.at = "hlt"] /\ alarm' = (tsc + Ticks) % Modulus
  BY DEF SleepInv, Arm, Go
<1>2. tsc' \in Nat /\ tsc' <= tsc + Jump
  BY <1>1, TimeIsNat DEF Arm
<1>3. sleep'.at = "hlt" /\ sleep' = [sleep EXCEPT !.at = sleep'.at]
  BY <1>1 DEF SleepTypeOK
<1>4. /\ DueNow' = DueNow
      /\ sleep'.deadline = sleep.deadline /\ sleep'.called = sleep.called
      /\ sleep'.want = sleep.want /\ sleep'.timer = sleep.timer /\ sleep'.bsp = sleep.bsp
  BY <1>1, <1>3, SameRequest
<1>5. /\ sleep.deadline = Ns(sleep.called) + sleep.want /\ tsc <= sleep.called + Jump
  BY <1>1 DEF SleepInv, DeadlineAsAsked, PlannedInTime
<1>6. /\ Ns(tsc) \in Nat /\ Ns(sleep.called) \in Nat /\ DueNow \in Nat
      /\ Jump \in Nat \ {0} /\ Margin \in Nat
      /\ sleep.want \in Nat /\ tsc \in Nat /\ sleep.called \in Nat
  BY <1>1, SleepFacts DEF SleepTypeOK
<1>7. Early - Ns(tsc) = Ns(sleep.called) + sleep.want - Margin - Ns(tsc)
      /\ Early - Ns(tsc) \in Int
  BY <1>5, <1>6 DEF Early
<1>8. Ticks \in Nat
  BY <1>7, TicksNat
<1>9. alarm' \in Nat
  <2>1. tsc + Ticks \in Nat /\ Modulus \in Nat \ {0}
    BY <1>6, <1>8, TimeAssumption
  <2> QED
    BY <1>1, <2>1, RemainderBounds
<1>11. SleepTypeOK'
  BY <1>1, <1>2, <1>9 DEF SleepTypeOK
<1>12. HaltsInTime'
  BY <1>1, <1>2, <1>3, <1>4, <1>5, <1>6 DEF HaltsInTime
<1>13. AlarmKnown'
  BY <1>1, <1>3, <1>4, <1>9 DEF AlarmKnown, Never
<1>14. DeadlineAsAsked'
  BY <1>4, <1>5 DEF DeadlineAsAsked, Ns
<1> QED
  BY <1>3, <1>11, <1>12, <1>13, <1>14 DEF SleepInv, PlannedInTime, SpinsInTime, OnTime

LEMMA HaltKeeps ==
  ASSUME SleepInv, Halt
  PROVE  SleepInv'
<1>1. /\ SleepTypeOK /\ ~sleep.timer /\ sleep.at = "plan" /\ alarm' = alarm
      /\ sleep' = [sleep EXCEPT !.at = IF Ns(tsc) < Early THEN "hlt" ELSE "spin"]
  BY DEF SleepInv, Halt, Go
<1>2. tsc' \in Nat /\ tsc' <= tsc + Jump
  BY <1>1, TimeIsNat DEF Halt
<1>3. /\ sleep'.at = IF Ns(tsc) < Early THEN "hlt" ELSE "spin"
      /\ sleep' = [sleep EXCEPT !.at = sleep'.at]
  BY <1>1 DEF SleepTypeOK
<1>4. /\ DueNow' = DueNow /\ Slip' = Slip
      /\ sleep'.deadline = sleep.deadline /\ sleep'.called = sleep.called
      /\ sleep'.want = sleep.want /\ sleep'.timer = sleep.timer /\ sleep'.bsp = sleep.bsp
  BY <1>1, <1>3, SameRequest
<1>5. /\ sleep.deadline = Ns(sleep.called) + sleep.want /\ tsc <= DueNow + Jump
      /\ alarm = Never
  BY <1>1 DEF SleepInv, DeadlineAsAsked, PlannedInTime, AlarmKnown
<1>6. /\ Ns(tsc) \in Nat /\ Ns(sleep.called) \in Nat /\ DueNow \in Nat
      /\ Jump \in Nat \ {0} /\ Margin \in Nat /\ Period \in Nat
      /\ Slip \in Nat /\ Slip >= 2 * Jump
      /\ sleep.want \in Nat /\ tsc \in Nat /\ sleep.called \in Nat
  BY <1>1, SleepFacts DEF SleepTypeOK
<1>7. sleep'.at = "hlt" => tsc + Period < DueNow
  <2> SUFFICES ASSUME Ns(tsc) < Early PROVE tsc + Period < DueNow
    BY <1>3
  <2>1. Ns(tsc) < Ns(sleep.called) + sleep.want - Margin
    <3>1. Early = Ns(sleep.called) + sleep.want - Margin
      BY <1>5, <1>6 DEF Early
    <3> QED
      BY <3>1
  <2>2. Second * Period <= Hz * Margin
    BY TimeAssumption
  <2> QED
    BY <1>6, <2>1, <2>2, Ahead DEF DueNow
<1>8. SleepTypeOK'
  BY <1>1, <1>2 DEF SleepTypeOK
<1>9. HaltsInTime'
  BY <1>1, <1>2, <1>4, <1>6, <1>7 DEF HaltsInTime
<1>10. SpinsInTime'
  BY <1>2, <1>4, <1>5, <1>6 DEF SpinsInTime
<1>11. DeadlineAsAsked'
  BY <1>4, <1>5 DEF DeadlineAsAsked, Ns
<1>12. AlarmKnown'
  BY <1>1, <1>4, <1>5 DEF AlarmKnown
<1>13. sleep'.at \in {"hlt", "spin"}
  BY <1>3
<1> QED
  BY <1>8, <1>9, <1>10, <1>11, <1>12, <1>13 DEF SleepInv, PlannedInTime, OnTime

LEMMA NextInterrupt ==
  ASSUME SleepTypeOK, Interrupts # {}
  PROVE  LET t == CHOOSE t \in Interrupts : \A u \in Interrupts : t <= u
         IN t \in Interrupts /\ \A u \in Interrupts : t <= u
<1> DEFINE tick == (tsc \div Period + 1) * Period
           ring == IF alarm > tsc THEN alarm ELSE tsc
<1>1. tsc \in Nat /\ Period \in Nat \ {0} /\ tsc \div Period \in Nat
  BY TimeAssumption, QuotientBounds DEF SleepTypeOK
<1>2. tick \in Nat
  BY <1>1, ProductNat
<1>3. alarm # Never => ring \in Nat
  BY <1>1 DEF SleepTypeOK
<1>4. Interrupts = (IF sleep.bsp THEN {tick} ELSE {}) \cup (IF alarm = Never THEN {} ELSE {ring})
  BY DEF Interrupts
<1> HIDE DEF tick, ring
<1>5. \E t \in Interrupts : \A u \in Interrupts : t <= u
  <2>1. CASE alarm = Never \/ ~sleep.bsp
    BY <1>2, <1>3, <1>4, <2>1
  <2>2. CASE alarm # Never /\ sleep.bsp
    BY <1>2, <1>3, <1>4, <2>2
  <2> QED
    BY <2>1, <2>2
<1> QED
  BY <1>5

\* On the boot CPU the next interrupt comes with the PIT, or before it.
LEMMA WokenBy ==
  ASSUME SleepTypeOK, Wake
  PROVE  /\ tsc' \in Nat
         /\ sleep.bsp => tsc' <= tsc + Period
<1> DEFINE tick == (tsc \div Period + 1) * Period
           ring == IF alarm > tsc THEN alarm ELSE tsc
           t == CHOOSE n \in Interrupts : \A u \in Interrupts : n <= u
<1>1. tsc \in Nat /\ Period \in Nat \ {0} /\ tsc \div Period \in Nat
      /\ Period * (tsc \div Period) <= tsc
  BY TimeAssumption, QuotientBounds DEF SleepTypeOK
<1>2. tick \in Nat /\ tick <= tsc + Period
  <2>1. tick = Period * (tsc \div Period) + Period
    BY <1>1
  <2>2. Period * (tsc \div Period) \in Nat
    BY <1>1, ProductNat
  <2> QED
    BY <1>1, <2>1, <2>2
<1>3. alarm # Never => ring \in Nat
  BY <1>1 DEF SleepTypeOK
<1>4. Interrupts = (IF sleep.bsp THEN {tick} ELSE {}) \cup (IF alarm = Never THEN {} ELSE {ring})
  BY DEF Interrupts
<1>5. /\ Interrupts # {} /\ (tsc' = t \/ (sleep.bsp /\ tsc' = tsc))
  BY DEF Wake
<1>6. t \in Interrupts /\ \A u \in Interrupts : t <= u
  BY <1>5, NextInterrupt
<1> HIDE DEF tick, ring, t
<1>7. t \in Nat /\ (sleep.bsp => t <= tsc + Period)
  <2>1. t \in Nat
    BY <1>2, <1>3, <1>4, <1>6
  <2>2. sleep.bsp => t <= tick
    BY <1>4, <1>6
  <2> QED
    BY <1>1, <1>2, <2>1, <2>2
<1> QED
  BY <1>1, <1>5, <1>7

LEMMA WakeKeeps ==
  ASSUME SleepInv, Wake
  PROVE  SleepInv'
<1>1. /\ SleepTypeOK /\ sleep.at = "hlt" /\ alarm' = Never
      /\ sleep' = [sleep EXCEPT !.at = IF ~sleep.bsp THEN "lost" ELSE IF sleep.timer THEN "spin" ELSE "plan"]
  BY DEF SleepInv, Wake, Go
<1>2. tsc' \in Nat /\ (sleep.bsp => tsc' <= tsc + Period)
  BY <1>1, WokenBy
<1>3. /\ sleep'.at = IF ~sleep.bsp THEN "lost" ELSE IF sleep.timer THEN "spin" ELSE "plan"
      /\ sleep' = [sleep EXCEPT !.at = sleep'.at]
  BY <1>1 DEF SleepTypeOK
<1>4. /\ DueNow' = DueNow /\ Slip' = Slip
      /\ sleep'.deadline = sleep.deadline /\ sleep'.called = sleep.called
      /\ sleep'.want = sleep.want /\ sleep'.timer = sleep.timer /\ sleep'.bsp = sleep.bsp
  BY <1>1, <1>3, SameRequest
<1>5. /\ sleep.deadline = Ns(sleep.called) + sleep.want /\ (alarm = Never <=> ~sleep.timer)
  BY <1>1 DEF SleepInv, DeadlineAsAsked, AlarmKnown
<1>6. /\ DueNow \in Nat /\ sleep.called < DueNow /\ Jump \in Nat \ {0} /\ Period \in Nat
      /\ Margin \in Nat /\ tsc \in Nat /\ sleep.called \in Nat /\ sleep.want \in Nat
      /\ Ns(sleep.called) \in Nat
  BY <1>1, SleepFacts DEF SleepTypeOK
<1>7. sleep.bsp /\ ~sleep.timer => tsc' <= DueNow + Jump
  BY <1>1, <1>2, <1>6 DEF SleepInv, HaltsInTime
<1>8. sleep.bsp /\ sleep.timer => tsc' <= DueNow + Slip
  <2> SUFFICES ASSUME sleep.bsp, sleep.timer PROVE tsc' <= DueNow + Slip
    OBVIOUS
  <2>1. tsc' <= sleep.called + 2 * Jump + Period
    BY <1>1, <1>2, <1>6 DEF SleepInv, HaltsInTime
  <2>2. CASE Overtaken
    BY <1>2, <1>6, <2>1, <2>2 DEF Slip
  <2>3. CASE ~Overtaken
    <3>1. sleep.want > Margin + Ns(Jump) /\ Ns(Jump) \in Nat
      <4>1. Ns(Jump) \in Nat
        BY <1>6, NsBounds
      <4> QED
        BY <1>6, <2>3, <4>1 DEF Overtaken
    <3>2. Ns(sleep.called) < Ns(sleep.called) + sleep.want - Margin
      BY <1>6, <3>1
    <3>3. Second * Period <= Hz * Margin
      BY TimeAssumption
    <3>4. sleep.called + Period < DueNow
      BY <1>6, <3>2, <3>3, Ahead DEF DueNow
    <3> QED
      BY <1>2, <1>6, <2>1, <2>3, <3>4 DEF Slip
  <2> QED
    BY <2>2, <2>3
<1>9. SleepTypeOK'
  BY <1>1, <1>2 DEF SleepTypeOK
<1>10. DeadlineAsAsked'
  BY <1>4, <1>5 DEF DeadlineAsAsked, Ns
<1>11. PlannedInTime' /\ SpinsInTime'
  BY <1>3, <1>4, <1>7, <1>8 DEF PlannedInTime, SpinsInTime
<1>12. sleep'.at \in {"spin", "plan", "lost"}
  BY <1>3
<1> QED
  BY <1>1, <1>9, <1>10, <1>11, <1>12 DEF SleepInv, AlarmKnown, HaltsInTime, OnTime

LEMMA SpinKeeps ==
  ASSUME SleepInv, Spin
  PROVE  SleepInv'
<1>1. /\ SleepTypeOK /\ sleep.at = "spin" /\ alarm' = alarm
      /\ sleep' = [sleep EXCEPT !.at = IF Ns(tsc) < sleep.deadline THEN "spin" ELSE "done"]
      /\ tsc' = IF Ns(tsc) < sleep.deadline THEN tsc + 1 ELSE tsc
  BY DEF SleepInv, Spin, Go
<1>2. /\ sleep'.at = IF Ns(tsc) < sleep.deadline THEN "spin" ELSE "done"
      /\ sleep' = [sleep EXCEPT !.at = sleep'.at]
  BY <1>1 DEF SleepTypeOK
<1>3. /\ DueNow' = DueNow /\ Slip' = Slip
      /\ sleep'.deadline = sleep.deadline /\ sleep'.called = sleep.called
      /\ sleep'.want = sleep.want /\ sleep'.timer = sleep.timer /\ sleep'.bsp = sleep.bsp
  BY <1>1, <1>2, SameRequest
<1>4. /\ sleep.deadline = Ns(sleep.called) + sleep.want /\ alarm = Never
      /\ tsc <= DueNow + Slip
  BY <1>1 DEF SleepInv, DeadlineAsAsked, AlarmKnown, SpinsInTime
<1>5. /\ Ns(tsc) \in Nat /\ Ns(sleep.called) \in Nat /\ DueNow \in Nat /\ Slip \in Nat
      /\ sleep.want \in Nat /\ tsc \in Nat /\ sleep.called \in Nat
  BY <1>1, SleepFacts DEF SleepTypeOK
<1>6. SleepTypeOK'
  BY <1>1, <1>5 DEF SleepTypeOK
<1>7. DeadlineAsAsked'
  BY <1>3, <1>4 DEF DeadlineAsAsked, Ns
<1>8. CASE Ns(tsc) < sleep.deadline
  <2>1. Second * 0 <= Hz * 0
    BY TimeAssumption
  <2>2. Ns(tsc) < Ns(sleep.called) + sleep.want - 0
    BY <1>4, <1>5, <1>8
  <2>3. tsc + 0 < DueNow
    BY <1>5, <2>1, <2>2, Ahead DEF DueNow
  <2>4. SpinsInTime'
    BY <1>1, <1>3, <1>5, <1>8, <2>3 DEF SpinsInTime
  <2> QED
    BY <1>1, <1>2, <1>4, <1>6, <1>7, <1>8, <2>4 DEF SleepInv, AlarmKnown, PlannedInTime,
      HaltsInTime, OnTime
<1>9. CASE ~(Ns(tsc) < sleep.deadline)
  <2>1. tsc' = tsc /\ sleep'.at = "done" /\ Ns(tsc)' = Ns(tsc)
    BY <1>1, <1>2, <1>9 DEF Ns
  <2>2. Ns(sleep.called)' = Ns(sleep.called)
    BY <1>3 DEF Ns
  <2>3. OnTime'
    <3>1. Ns(tsc) >= Ns(sleep.called) + sleep.want
      BY <1>4, <1>5, <1>9
    <3>2. Ns(tsc)' >= Ns(sleep.called)' + sleep'.want
      BY <1>3, <2>1, <2>2, <3>1
    <3>3. tsc' <= DueNow' + Slip'
      BY <1>3, <1>4, <2>1
    <3> QED
      BY <3>2, <3>3, Zenon DEF OnTime, DueNow, Due
  <2> QED
    BY <1>1, <1>4, <1>6, <1>7, <2>1, <2>3 DEF SleepInv, AlarmKnown, PlannedInTime,
      HaltsInTime, SpinsInTime
<1> QED
  BY <1>8, <1>9

\* A nanosleep that returns is never shorter than asked, and longer by no more than the
\* steps of the code, for any rate of the counter, any request and any word; a request
\* below the margin on a CPU with a timer, for which the code halts past its deadline, by
\* a tick of the PIT more (metal_overrides.c:233-252).
THEOREM SleepsEndOnTime == SleepSpec => []OnTime
<1>1. SleepInv /\ UNCHANGED sleepVars => SleepInv'
  BY DEF sleepVars, SleepInv, SleepTypeOK, AlarmKnown, DeadlineAsAsked, PlannedInTime,
    HaltsInTime, SpinsInTime, OnTime, DueNow, Due, Overtaken, Slip, Ns
<1>2. SleepInv /\ SleepNext => SleepInv'
  BY CallKeeps, ArmKeeps, HaltKeeps, WakeKeeps, SpinKeeps DEF SleepNext
<1>3. SleepInv => OnTime
  BY DEF SleepInv
<1> QED
  BY InitSleep, <1>1, <1>2, <1>3, PTL DEF SleepSpec

(***************************************************************************)
(* The rate of the time stamp counter.  The median of five, two of them    *)
(* wild, has a right one on each side; of three estimates that agree with  *)
(* it, one is right.  So the rate that is taken is vouched for.            *)
(***************************************************************************)
LEMMA LeastNumber ==
  ASSUME NEW T \in SUBSET Nat, T # {}
  PROVE  \E x \in T : \A y \in T : x <= y
<1> DEFINE R == OpToRel(<, Nat)
<1>1. IsWellFoundedOn(R, Nat)
  BY NatLessThanWellFounded
<1>2. PICK x \in T : \A y \in T : ~(<<y, x>> \in R)
  <2> HIDE DEF R
  <2> QED
    BY <1>1, WFMin
<1>3. \A y \in T : y < x => <<y, x>> \in R
  BY DEF OpToRel
<1>4. \A y \in T : ~(y < x) /\ y \in Nat /\ x \in Nat
  BY <1>2, <1>3
<1> QED
  BY <1>4

\* The median exists: the least number up to which more than half of the rates lie
\* is one of them.
LEMMA MedianIs ==
  ASSUME NEW I, IsFiniteSet(I), I # {}, NEW q \in [I -> Nat],
         NEW bound \in Nat, \A i \in I : q[i] <= bound
  PROVE  LET half == Cardinality(I) \div 2
         IN /\ Median(q) \in {q[i] : i \in I}
            /\ Cardinality({i \in I : q[i] < Median(q)}) <= half
            /\ Cardinality({i \in I : q[i] <= Median(q)}) > half
<1> DEFINE n == Cardinality(I)
           half == n \div 2
           Upto(x) == {i \in I : q[i] <= x}
           Below(x) == {i \in I : q[i] < x}
           T == {x \in Nat : Cardinality(Upto(x)) > half}
<1>1. n \in Nat /\ n > 0 /\ half \in Nat /\ half < n
  <2>1. n \in Nat /\ n # 0
    BY FS_CardinalityType, FS_EmptySet
  <2> HIDE DEF n
  <2> QED
    BY <2>1
<1>2. \A x : IsFiniteSet(Upto(x)) /\ Cardinality(Upto(x)) \in Nat
             /\ IsFiniteSet(Below(x)) /\ Cardinality(Below(x)) \in Nat
  BY FS_Subset, FS_CardinalityType
<1>3. bound \in T
  <2>1. Upto(bound) = I
    OBVIOUS
  <2> QED
    BY <1>1, <2>1
<1>4. PICK x \in T : \A y \in T : x <= y
  <2>1. T \in SUBSET Nat /\ T # {}
    BY <1>3
  <2> HIDE DEF T
  <2> QED
    BY <2>1, LeastNumber
<1>5. x \in Nat /\ Cardinality(Upto(x)) > half
  OBVIOUS
<1>6. Cardinality(Below(x)) <= half
  <2>1. CASE x = 0
    <3>1. Below(x) = {}
      <4>1. \A i \in I : q[i] \in Nat /\ ~(q[i] < 0)
        OBVIOUS
      <4> QED
        BY <2>1, <4>1
    <3>2. Cardinality(Below(x)) = 0
      BY <3>1, FS_EmptySet
    <3> HIDE DEF Below, half
    <3> QED
      BY <1>1, <3>2
  <2>2. CASE x # 0
    <3>1. x - 1 \in Nat /\ ~(x <= x - 1)
      BY <1>5, <2>2
    <3>2. x - 1 \notin T
      <4> HIDE DEF T
      <4> QED
        BY <1>4, <3>1
    <3>3. ~(Cardinality(Upto(x - 1)) > half)
      BY <3>1, <3>2
    <3>4. Below(x) = Upto(x - 1)
      <4>1. \A i \in I : q[i] \in Nat /\ (q[i] < x <=> q[i] <= x - 1)
        BY <1>5
      <4> QED
        BY <4>1
    <3>5. Cardinality(Upto(x - 1)) \in Nat
      BY <1>2
    <3> HIDE DEF Below, Upto, half
    <3> QED
      BY <1>1, <3>3, <3>4, <3>5
  <2> QED
    BY <2>1, <2>2
<1>7. x \in {q[i] : i \in I}
  <2> SUFFICES ASSUME x \notin {q[i] : i \in I} PROVE FALSE
    OBVIOUS
  <2>1. Upto(x) = Below(x)
    <3>1. \A i \in I : q[i] \in Nat /\ q[i] # x
      OBVIOUS
    <3> QED
      BY <1>5, <3>1
  <2>2. Cardinality(Upto(x)) \in Nat
    BY <1>2
  <2> HIDE DEF Upto, Below, half
  <2> QED
    BY <1>1, <1>5, <1>6, <2>1, <2>2
<1>8. DOMAIN q = I
  OBVIOUS
<1>9. \E z \in {q[i] : i \in DOMAIN q} :
        /\ Cardinality({i \in DOMAIN q : q[i] < z}) <= half
        /\ Cardinality({i \in DOMAIN q : q[i] <= z}) > half
  BY <1>5, <1>6, <1>7, <1>8
<1>10. /\ Median(q) \in {q[i] : i \in DOMAIN q}
       /\ Cardinality({i \in DOMAIN q : q[i] < Median(q)}) <= half
       /\ Cardinality({i \in DOMAIN q : q[i] <= Median(q)}) > half
  <2>1. half = Cardinality(DOMAIN q) \div 2
    BY <1>8
  <2> HIDE DEF half
  <2> QED
    BY <1>9, <2>1 DEF Median
<1> QED
  BY <1>8, <1>10

\* Of a set that is larger than another, something is not in the other.
LEMMA SomeOutside ==
  ASSUME NEW A, NEW B, IsFiniteSet(B), IsFiniteSet(A), Cardinality(A) > Cardinality(B)
  PROVE  \E i \in A : i \notin B
<1> SUFFICES ASSUME A \in SUBSET B PROVE FALSE
  OBVIOUS
<1>1. Cardinality(A) <= Cardinality(B) /\ Cardinality(A) \in Nat /\ Cardinality(B) \in Nat
  BY FS_Subset, FS_CardinalityType
<1> QED
  BY <1>1

\* What does not change while the sources are tried.
RateInv ==
  /\ machine \in Machines
  /\ RateIsSound
  /\ source # "done" => rate.by = "default"
  /\ source \in {"kvmclock", "leaf15", "leaf16", "rtc", "second", "pit", "done"}

LEMMA AllRates ==
  ASSUME NEW n \in 0..5
  PROVE  /\ IsFiniteSet(1..n) /\ Cardinality(1..n) = n
         /\ \A J \in SUBSET (1..n) : IsFiniteSet(J) /\ Cardinality(J) \in Nat
<1>1. IsFiniteSet(1..n) /\ Cardinality(1..n) = n
  <2>1. n \in Int /\ 1 \in Int /\ n >= 0
    OBVIOUS
  <2>2. IsFiniteSet(1..n) /\ Cardinality(1..n) = IF 1 > n THEN 0 ELSE n - 1 + 1
    BY <2>1, FS_Interval
  <2>3. (IF 1 > n THEN 0 ELSE n - 1 + 1) = n
    BY <2>1
  <2> QED
    BY <2>2, <2>3
<1> QED
  BY <1>1, FS_Subset, FS_CardinalityType

LEMMA KvmclockSound ==
  ASSUME NEW m \in Machines, Trusted(Estimates(m)), Wild(Estimates(m)) <= 2
  PROVE  \E g \in Good(Estimates(m)) : Agree(g, Median(Estimates(m)))
<1> DEFINE q == Estimates(m)
           I == DOMAIN q
           near == {i \in I : Agree(q[i], Median(q))}
           wild == {i \in I : q[i] \notin Right}
<1>1. PICK n \in 0..5 : m.kvm \in Rates(n)
  BY MachinesAssumption
<1>2. I \in SUBSET (1..n)
  BY <1>1 DEF Estimates, Rates
<1>3. near \in SUBSET (1..n) /\ wild \in SUBSET (1..n)
  <2> HIDE DEF q, I
  <2> QED
    BY <1>2
<1>4. IsFiniteSet(near) /\ IsFiniteSet(wild) /\ Cardinality(near) \in Nat
      /\ Cardinality(wild) \in Nat
  <2> HIDE DEF near, wild
  <2> QED
    BY <1>3, AllRates
<1>5. Cardinality(near) >= 3 /\ Cardinality(wild) <= 2
  BY DEF Trusted, Cluster, Wild
<1>6. PICK i \in near : i \notin wild
  <2>1. Cardinality(near) > Cardinality(wild)
    <3> HIDE DEF near, wild
    <3> QED
      BY <1>4, <1>5
  <2> HIDE DEF near, wild
  <2> QED
    BY <1>4, <2>1, SomeOutside
<1>7. q[i] \in Good(q) /\ Agree(q[i], Median(q))
  <2> HIDE DEF q
  <2> QED
    BY <1>6 DEF Good
<1> QED
  BY <1>7

LEMMA PitSound ==
  ASSUME NEW m \in Machines, DOMAIN m.pit # {}, Wild(m.pit) <= 2
  PROVE  \E g, h \in Good(m.pit) : g <= Median(m.pit) /\ Median(m.pit) <= h
<1> DEFINE q == m.pit
           x == Median(q)
           upto == {i \in 1..5 : q[i] <= x}
           below == {i \in 1..5 : q[i] < x}
           from == {i \in 1..5 : x <= q[i]}
           wild == {i \in 1..5 : q[i] \notin Right}
<1>1. q \in [1..5 -> Nat]
  <2>1. q \in Rates(0) \cup Rates(5)
    BY MachinesAssumption
  <2>2. q \notin Rates(0)
    BY DEF Rates
  <2> QED
    BY <2>1, <2>2 DEF Rates
<1>2. /\ IsFiniteSet(1..5) /\ Cardinality(1..5) = 5
      /\ \A J \in SUBSET (1..5) : IsFiniteSet(J) /\ Cardinality(J) \in Nat
  BY AllRates
<1>3. /\ x \in {q[i] : i \in 1..5} /\ Cardinality(below) <= 2 /\ Cardinality(upto) > 2
  <2> DEFINE bound == q[1] + q[2] + q[3] + q[4] + q[5]
  <2> HIDE DEF q
  <2>1. /\ q[1] \in Nat /\ q[2] \in Nat /\ q[3] \in Nat /\ q[4] \in Nat /\ q[5] \in Nat
    BY <1>1
  <2>2. bound \in Nat /\ \A i \in 1..5 : q[i] <= bound
    <3>1. bound \in Nat /\ q[1] <= bound /\ q[2] <= bound /\ q[3] <= bound /\ q[4] <= bound
          /\ q[5] <= bound
      BY <2>1
    <3> HIDE DEF bound
    <3>2. ASSUME NEW i \in 1..5 PROVE q[i] <= bound
      <4>1. i = 1 \/ i = 2 \/ i = 3 \/ i = 4 \/ i = 5
        OBVIOUS
      <4> QED
        BY <3>1, <4>1
    <3> QED
      BY <3>1, <3>2
  <2> HIDE DEF bound
  <2>3. 1..5 # {} /\ 5 \div 2 = 2
    OBVIOUS
  <2> QED
    BY <1>1, <1>2, <2>2, <2>3, MedianIs
<1>4. x \in Nat /\ \A i \in 1..5 : q[i] \in Nat
  BY <1>1, <1>3
<1>5. Cardinality(wild) <= 2
  <2>1. DOMAIN q = 1..5
    BY <1>1
  <2> QED
    BY <2>1 DEF Wild
<1>6. Cardinality(from) >= 3
  <2>1. from = (1..5) \ below
    BY <1>4
  <2>2. Cardinality(from) = Cardinality(1..5) - Cardinality((1..5) \cap below)
    <3> HIDE DEF from, below
    <3> QED
      BY <1>2, <2>1, FS_Difference
  <2>3. (1..5) \cap below = below
    OBVIOUS
  <2>4. below \in SUBSET (1..5)
    OBVIOUS
  <2> HIDE DEF from, below
  <2>5. Cardinality(below) \in Nat
    BY <1>2, <2>4
  <2> QED
    BY <1>2, <1>3, <2>2, <2>3, <2>5
<1>7. ASSUME NEW A \in SUBSET (1..5), Cardinality(A) >= 3
      PROVE  \E i \in A : q[i] \in Good(q)
  <2>1. wild \in SUBSET (1..5)
    OBVIOUS
  <2>2. PICK i \in A : i \notin wild
    <3> HIDE DEF wild
    <3>1. /\ IsFiniteSet(A) /\ IsFiniteSet(wild) /\ Cardinality(A) \in Nat
          /\ Cardinality(wild) \in Nat
      BY <1>2, <2>1
    <3>2. Cardinality(A) > Cardinality(wild)
      BY <1>5, <1>7, <3>1
    <3> QED
      BY <3>1, <3>2, SomeOutside
  <2>3. i \in DOMAIN q /\ q[i] \in Right
    BY <1>1, <2>2
  <2> HIDE DEF q
  <2> QED
    BY <2>3 DEF Good
<1>8. upto \in SUBSET (1..5) /\ from \in SUBSET (1..5)
  OBVIOUS
<1>9. PICK i \in upto : q[i] \in Good(q)
  <2>1. Cardinality(upto) >= 3
    <3> HIDE DEF upto
    <3> QED
      BY <1>2, <1>3, <1>8
  <2> HIDE DEF upto, q
  <2> QED
    BY <1>7, <1>8, <2>1
<1>10. PICK j \in from : q[j] \in Good(q)
  <2> HIDE DEF from, q
  <2> QED
    BY <1>6, <1>7, <1>8
<1> QED
  BY <1>9, <1>10

\* A source that is tried, with a rate that is as good as it should be.
LEMMA Accepts ==
  ASSUME RateInv, NEW good \in BOOLEAN, NEW hz, NEW next,
         next \in {"kvmclock", "leaf15", "leaf16", "rtc", "second", "pit", "done"},
         source # "done", source # "default", Accept(good, hz, next),
         good => Plausible(hz),
         good /\ source = "kvmclock" /\ Wild(Estimates(machine)) <= 2 =>
           \E g \in Good(Estimates(machine)) : Agree(g, hz),
         good /\ source = "pit" /\ Wild(machine.pit) <= 2 =>
           \E g, h \in Good(machine.pit) : g <= hz /\ hz <= h
  PROVE  RateInv'
<1>1. machine' = machine /\ rate.by = "default" /\ machine \in Machines /\ Plausible(rate.hz)
  BY DEF Accept, RateInv, RateIsSound
<1>2. CASE good
  <2>1. rate' = [by |-> source, hz |-> hz] /\ source' = "done"
    BY <1>2 DEF Accept
  <2>2. rate'.by = source /\ rate'.hz = hz
    BY <2>1
  <2>3. RateIsSound'
    BY <1>1, <1>2, <2>2 DEF RateIsSound, Plausible, Wild, Good, Agree, Estimates
  <2> QED
    BY <1>1, <2>1, <2>3 DEF RateInv
<1>3. CASE ~good
  <2>1. rate' = rate /\ source' = next
    BY <1>3 DEF Accept
  <2>2. RateIsSound'
    BY <1>1, <2>1 DEF RateIsSound, Plausible
  <2> QED
    BY <1>1, <2>1, <2>2 DEF RateInv
<1> QED
  BY <1>2, <1>3

LEMMA RateStep == RateInv /\ [RateNext]_rateVars => RateInv'
<1> SUFFICES ASSUME RateInv, [RateNext]_rateVars PROVE RateInv'
  OBVIOUS
<1>1. machine \in Machines
  BY DEF RateInv
<1>2. CASE TryKvmclock
  <2>1. /\ source = "kvmclock"
        /\ Accept(Trusted(Estimates(machine)), Median(Estimates(machine)), "leaf15")
    BY <1>2 DEF TryKvmclock
  <2>2. Trusted(Estimates(machine)) \in BOOLEAN
    BY DEF Trusted
  <2>3. Trusted(Estimates(machine)) => Plausible(Median(Estimates(machine)))
    BY DEF Trusted
  <2>4. Trusted(Estimates(machine)) /\ Wild(Estimates(machine)) <= 2 =>
          \E g \in Good(Estimates(machine)) : Agree(g, Median(Estimates(machine)))
    BY <1>1, KvmclockSound
  <2> QED
    BY <2>1, <2>2, <2>3, <2>4, Accepts
<1>3. CASE TryLeaf15
  <2>1. source = "leaf15" /\ Accept(Plausible(machine.leaf15), machine.leaf15, "leaf16")
    BY <1>3 DEF TryLeaf15
  <2>2. Plausible(machine.leaf15) \in BOOLEAN
    BY DEF Plausible
  <2> QED
    BY <2>1, <2>2, Accepts
<1>4. CASE TryLeaf16
  <2>1. source = "leaf16" /\ Accept(Plausible(machine.leaf16), machine.leaf16, "rtc")
    BY <1>4 DEF TryLeaf16
  <2>2. Plausible(machine.leaf16) \in BOOLEAN
    BY DEF Plausible
  <2> QED
    BY <2>1, <2>2, Accepts
<1>5. CASE FirstRollover
  <2>1. /\ machine' = machine /\ rate' = rate /\ source = "rtc"
        /\ source' \in {"pit", "second"}
    BY <1>5 DEF FirstRollover
  <2>2. RateIsSound'
    BY <2>1 DEF RateInv, RateIsSound, Plausible, Wild, Good, Agree, Estimates
  <2> QED
    BY <1>1, <2>1, <2>2 DEF RateInv
<1>6. CASE SecondRollover
  <2> DEFINE seen == Changes(edge.at, edge.prev, WindowLimit)
             hz == Earliest(seen) - edge.at
             good == seen # {} /\ Plausible(hz)
  <2>1. source = "second" /\ Accept(good, hz, "pit")
    BY <1>6 DEF SecondRollover
  <2>2. good \in BOOLEAN /\ (good => Plausible(hz))
    BY DEF Plausible
  <2> HIDE DEF good, hz, seen
  <2> QED
    BY <2>1, <2>2, Accepts
<1>7. CASE TryPit
  <2>1. /\ source = "pit" /\ DOMAIN machine.pit # {}
        /\ Accept(Plausible(Median(machine.pit)), Median(machine.pit), "done")
    BY <1>7 DEF TryPit
  <2>2. Plausible(Median(machine.pit)) \in BOOLEAN
    BY DEF Plausible
  <2>3. Wild(machine.pit) <= 2 =>
          \E g, h \in Good(machine.pit) : g <= Median(machine.pit) /\ Median(machine.pit) <= h
    BY <1>1, <2>1, PitSound
  <2> QED
    BY <2>1, <2>2, <2>3, Accepts
<1>8. CASE UNCHANGED rateVars
  BY <1>8 DEF RateInv, rateVars, RateIsSound, Plausible, Wild, Good, Agree, Estimates
<1> QED
  BY <1>2, <1>3, <1>4, <1>5, <1>6, <1>7, <1>8 DEF RateNext

\* For every machine and every set of right rates: the rate is plausible, and two wild
\* estimates or windows cannot displace it (metal_overrides.c:73-215).
THEOREM RateStaysSound == RateSpec => []RateIsSound
<1>1. RateInit => RateInv
  BY BandAssumption DEF RateInit, RateInv, RateIsSound, Plausible
<1>2. RateInv /\ [RateNext]_rateVars => RateInv'
  BY RateStep
<1>3. RateInv => RateIsSound
  BY DEF RateInv
<1> QED
  BY <1>1, <1>2, <1>3, PTL DEF RateSpec

(***************************************************************************)
(* The calendar.  A day of an era is taken apart into its century, its     *)
(* four years, its year and the day of it, where the last of each has a    *)
(* day more or less; the arithmetic of the code finds the year and the     *)
(* month from the sum.                                                     *)
(***************************************************************************)
\* What the quotient of k D + r is, for any D.
LEMMA Divides ==
  ASSUME NEW D \in Nat \ {0}, NEW k \in Int, NEW r \in 0..(D - 1)
  PROVE  (k * D + r) \div D = k
  OBVIOUS

LEMMA Signs ==
  ASSUME NEW D \in Nat \ {0}, NEW k \in Int
  PROVE  /\ k * D \in Int
         /\ k >= 0 => k * D >= 0
         /\ k < 0 => k * D <= -D
         /\ (-k) * D = -(k * D)
         /\ (k + 1) * D = k * D + D
         /\ (-k - 1) * D = -(k * D) - D
         /\ D * k = k * D
         /\ D * (k + 1) = k * D + D
         /\ D * (-k) = -(k * D)
  OBVIOUS

UpTo(x, n) == x \in Int /\ 0 <= x /\ x <= n

IsDay(c, q, y, r) ==
  /\ UpTo(c, 3) /\ UpTo(q, 24) /\ UpTo(y, 3) /\ UpTo(r, 365)
  /\ r = 365 => y = 3 /\ (q # 24 \/ c = 3)

DayOfEra(c, q, y, r) == 36524 * c + 1461 * q + 365 * y + r

LEMMA EraSplits ==
  ASSUME NEW doe \in Int, UpTo(doe, 146096)
  PROVE  \E c, q, y, r \in Int : IsDay(c, q, y, r) /\ doe = DayOfEra(c, q, y, r)
<1>1. PICK c, s \in Int : UpTo(c, 3) /\ UpTo(s, 36524)
                           /\ doe = 36524 * c + s /\ (s = 36524 => c = 3)
  <2>1. CASE doe \div 36524 <= 3
    <3> DEFINE c == doe \div 36524  s == doe - 36524 * c
    <3>1. UpTo(c, 3) /\ UpTo(s, 36523) /\ doe = 36524 * c + s
      BY <2>1, SMT DEF UpTo
    <3> QED
      BY <3>1, SMT DEF UpTo
  <2>2. CASE doe \div 36524 > 3
    <3>1. doe = 36524 * 3 + 36524
      BY <2>2, SMT DEF UpTo
    <3> QED
      BY <3>1, SMT DEF UpTo
  <2> QED
    BY <2>1, <2>2, SMT DEF UpTo
<1>2. PICK q, u \in Int : UpTo(q, 24) /\ UpTo(u, 1460)
                           /\ s = 1461 * q + u /\ (q = 24 /\ u = 1460 => c = 3)
  <2> DEFINE q == s \div 1461  u == s - 1461 * q
  <2>1. UpTo(q, 24) /\ UpTo(u, 1460) /\ s = 1461 * q + u
    BY <1>1, SMT DEF UpTo
  <2> HIDE DEF q, u
  <2>2. q = 24 /\ u = 1460 => s = 36524
    BY <2>1, SMT DEF UpTo
  <2> QED
    BY <1>1, <2>1, <2>2, SMT DEF UpTo
<1>3. PICK y, r \in Int : UpTo(y, 3) /\ UpTo(r, 365) /\ u = 365 * y + r /\ (r = 365 => y = 3)
  <2>1. CASE u = 1460
    <3>1. u = 365 * 3 + 365
      BY <2>1, SMT DEF UpTo
    <3> QED
      BY <3>1, SMT DEF UpTo
  <2>2. CASE u # 1460
    <3> DEFINE y == u \div 365  r == u - 365 * y
    <3>1. UpTo(y, 3) /\ UpTo(r, 364) /\ u = 365 * y + r
      BY <1>2, <2>2, SMT DEF UpTo
    <3> QED
      BY <3>1, SMT DEF UpTo
  <2> QED
    BY <2>1, <2>2, SMT DEF UpTo
<1>4. IsDay(c, q, y, r)
  <2>1. r = 365 => u = 1460
    BY <1>3, SMT DEF UpTo
  <2> QED
    BY <1>1, <1>2, <1>3, <2>1, SMT DEF IsDay, UpTo
<1>5. doe = DayOfEra(c, q, y, r)
  BY <1>1, <1>2, <1>3, SMT DEF DayOfEra, UpTo
<1> QED
  BY <1>4, <1>5, SMT DEF UpTo

LEMMA YearIs ==
  ASSUME NEW c \in Int, NEW q \in Int, NEW y \in Int, NEW r \in Int, IsDay(c, q, y, r)
  PROVE  LET doe == DayOfEra(c, q, y, r)
             yoe == 100 * c + 4 * q + y
         IN /\ UpTo(doe, 146096) /\ UpTo(yoe, 399)
            /\ YearOfEra(doe) = yoe
            /\ yoe \div 4 = 25 * c + q /\ yoe \div 100 = c
            /\ 365 * yoe + 25 * c + q - c + r = doe
<1> DEFINE doe == DayOfEra(c, q, y, r)
           yoe == 100 * c + 4 * q + y
           e   == 24 * c + q + 365 * y + r
           late == IF e >= 1460 THEN 1 ELSE 0
<1>1. /\ UpTo(c, 3) /\ UpTo(q, 24) /\ UpTo(y, 3) /\ UpTo(r, 365)
      /\ r = 365 => y = 3 /\ (q # 24 \/ c = 3)
      /\ doe = 36524 * c + 1461 * q + 365 * y + r
  BY SMT DEF IsDay, DayOfEra, UpTo
<1> HIDE DEF doe
<1>2. UpTo(e, 1556) /\ doe = 1460 * (25 * c + q) + e
  BY <1>1, SMT DEF UpTo
<1>3. doe \div 1460 = 25 * c + q + late
  <2> HIDE DEF e
  <2> QED
    BY <1>1, <1>2, SMT DEF UpTo
<1>4. UpTo(r - late, 364)
  BY <1>1, SMT DEF UpTo
<1>5. doe \div 36524 - doe \div 146096 = c
  <2> DEFINE s == 1461 * q + 365 * y + r
  <2>1. UpTo(s, 36524) /\ (s = 36524 => c = 3) /\ doe = 36524 * c + s
    BY <1>1, SMT DEF UpTo
  <2> HIDE DEF s
  <2>2. CASE s = 36524
    <3>1. doe = 146096
      BY <2>1, <2>2, SMT DEF UpTo
    <3> QED
      BY <2>1, <2>2, <3>1, SMT DEF UpTo
  <2>3. CASE s # 36524
    <3>1. doe \div 36524 = c
      BY <1>1, <2>1, <2>3, SMT DEF UpTo
    <3>2. UpTo(doe, 146095)
      BY <1>1, <2>1, <2>3, SMT DEF UpTo
    <3>3. doe \div 146096 = 0
      BY <3>2, SMT DEF UpTo
    <3> QED
      BY <1>1, <3>1, <3>3, SMT DEF UpTo
  <2> QED
    BY <2>2, <2>3, SMT DEF UpTo
<1>6. YearOfEra(doe) = yoe
  <2> DEFINE p == doe \div 1460  w == doe \div 36524  z == doe \div 146096
  <2>1. p \in Int /\ w \in Int /\ z \in Int /\ doe \in Int
    BY <1>1, SMT DEF UpTo
  <2>2. doe - p + w - z = 365 * yoe + (r - late)
    <3> HIDE DEF p, w, z
    <3>1. p = 25 * c + q + late /\ w - z = c
      BY <1>3, <1>5, SMT DEF p, w, z, UpTo
    <3> QED
      BY <1>1, <2>1, <3>1, SMT DEF UpTo
  <2>3. yoe \in Int
    BY <1>1, SMT DEF UpTo
  <2> HIDE DEF p, w, z, yoe, late
  <2>4. (doe - p + w - z) \div 365 = yoe
    BY <1>4, <2>2, <2>3, SMT DEF UpTo
  <2> QED
    BY <2>4, SMT DEF YearOfEra, p, w, z, UpTo
<1>7. UpTo(doe, 146096) /\ UpTo(yoe, 399)
  BY <1>1, SMT DEF UpTo
<1>8. yoe \div 4 = 25 * c + q /\ yoe \div 100 = c
  BY <1>1, SMT DEF UpTo
<1>9. 365 * yoe + 25 * c + q - c + r = doe
  BY <1>1, SMT DEF UpTo
<1> QED
  BY <1>6, <1>7, <1>8, <1>9 DEF doe

\* The months of a year that begins in March, and the day each begins on.
MonthStart(mp) == (153 * mp + 2) \div 5
MonthOf(r) == (5 * r + 2) \div 153
Number(mp) == IF mp < 10 THEN mp + 3 ELSE mp - 9

DateOf(year, r, sod) ==
  Date(year + (IF Number(MonthOf(r)) <= 2 THEN 1 ELSE 0), Number(MonthOf(r)),
       r - MonthStart(MonthOf(r)) + 1, sod)

LEMMA Months ==
  ASSUME NEW r \in Int, UpTo(r, 365)
  PROVE  /\ UpTo(MonthOf(r), 11)
         /\ MonthStart(MonthOf(r)) \in Int /\ MonthStart(MonthOf(r) + 1) \in Int
         /\ MonthStart(MonthOf(r)) <= r /\ r < MonthStart(MonthOf(r) + 1)
         /\ Number(MonthOf(r)) \in Int
         /\ Number(MonthOf(r)) > 2 => Number(MonthOf(r)) - 3 = MonthOf(r)
         /\ Number(MonthOf(r)) <= 2 => Number(MonthOf(r)) + 9 = MonthOf(r)
  BY SMT DEF UpTo, MonthOf, MonthStart, Number

LEMMA MonthLengths ==
  ASSUME NEW mp \in Int, UpTo(mp, 11), NEW year \in Int
  PROVE  /\ mp < 11 => MonthStart(mp + 1) - MonthStart(mp) = MonthDays(year, Number(mp))
         /\ MonthStart(11) = 337
         /\ Number(mp) = 2 <=> mp = 11
<1>1. /\ MonthStart(0) = 0 /\ MonthStart(1) = 31 /\ MonthStart(2) = 61 /\ MonthStart(3) = 92
      /\ MonthStart(4) = 122 /\ MonthStart(5) = 153 /\ MonthStart(6) = 184
      /\ MonthStart(7) = 214 /\ MonthStart(8) = 245 /\ MonthStart(9) = 275
      /\ MonthStart(10) = 306 /\ MonthStart(11) = 337
  BY SMT DEF MonthStart
<1>2. \/ mp = 0 \/ mp = 1 \/ mp = 2 \/ mp = 3 \/ mp = 4 \/ mp = 5 \/ mp = 6 \/ mp = 7
      \/ mp = 8 \/ mp = 9 \/ mp = 10 \/ mp = 11
  BY SMT DEF UpTo
<1>3. mp < 11 => MonthStart(mp + 1) - MonthStart(mp)
                    = IF Number(mp) \in {4, 6, 9, 11} THEN 30 ELSE 31
  BY <1>1, <1>2, SMT DEF Number
<1>4. Number(mp) = 2 <=> mp = 11
  BY <1>2, SMT DEF Number
<1> QED
  BY <1>1, <1>2, <1>3, <1>4, SMT DEF MonthDays

LEMMA CivilIs ==
  ASSUME NEW era \in Int, NEW c \in Int, NEW q \in Int, NEW y \in Int, NEW r \in Int,
         IsDay(c, q, y, r), NEW days \in Int, NEW sod \in Int,
         days + 719468 = 146097 * era + DayOfEra(c, q, y, r)
  PROVE  CivilToTm(days, sod) = DateOf(100 * c + 4 * q + y + 400 * era, r, sod)
<1> DEFINE z == days + 719468
           doe == DayOfEra(c, q, y, r)
           yoe == 100 * c + 4 * q + y
<1>1. /\ doe \in Int /\ UpTo(doe, 146096) /\ yoe \in Int /\ YearOfEra(doe) = yoe
      /\ yoe \div 4 = 25 * c + q /\ yoe \div 100 = c
      /\ 365 * yoe + 25 * c + q - c + r = doe
  BY YearIs DEF UpTo
<1> HIDE DEF doe, yoe
<1>2. Quotient(IF z >= 0 THEN z ELSE z - 146096, 146097) = era
  <2>1. z \in Int /\ z = 146097 * era + doe /\ 0 <= doe /\ doe < 146097
    BY <1>1, SMT DEF doe, UpTo
  <2> HIDE DEF z
  <2>2. CASE z >= 0
    BY <1>1, <2>1, <2>2, SMT DEF Quotient
  <2>3. CASE ~(z >= 0)
    BY <1>1, <2>1, <2>3, SMT DEF Quotient
  <2> QED
    BY <2>2, <2>3
<1>3. z - era * 146097 = doe
  BY <1>1, SMT DEF doe
<1>4. doe - (365 * yoe + yoe \div 4 - yoe \div 100) = r
  BY <1>1, SMT
<1>5. yoe + era * 400 = 100 * c + 4 * q + y + 400 * era
  BY SMT DEF yoe
<1> QED
  BY <1>1, <1>2, <1>3, <1>4, <1>5, SMT DEF CivilToTm, DateOf, MonthOf, MonthStart, Number

LEMMA DaysIs ==
  ASSUME NEW era \in Int, NEW c \in Int, NEW q \in Int, NEW y \in Int, NEW r \in Int,
         IsDay(c, q, y, r), NEW sod \in Int
  PROVE  LET d == DateOf(100 * c + 4 * q + y + 400 * era, r, sod)
         IN DaysFromCivil(d.year, d.mon, d.mday)
              = 146097 * era + DayOfEra(c, q, y, r) - 719468
<1> DEFINE doe == DayOfEra(c, q, y, r)
           yoe == 100 * c + 4 * q + y
           year == yoe + 400 * era
           mp == MonthOf(r)
           m == Number(mp)
           start == MonthStart(mp)
           d == DateOf(year, r, sod)
<1>1. /\ yoe \in Int /\ UpTo(yoe, 399) /\ doe \in Int
      /\ yoe \div 4 = 25 * c + q /\ yoe \div 100 = c
      /\ 365 * yoe + 25 * c + q - c + r = doe
  BY YearIs DEF UpTo
<1>2. /\ mp \in Int /\ start \in Int /\ m \in Int
      /\ m > 2 => m - 3 = mp
      /\ m <= 2 => m + 9 = mp
  BY Months DEF IsDay, UpTo
<1>3. /\ d.year = year + (IF m <= 2 THEN 1 ELSE 0) /\ d.mon = m
      /\ d.mday = r - start + 1
  BY DEF DateOf, Date
<1> HIDE DEF d, doe, yoe, mp, m
<1>4. (IF d.mon <= 2 THEN d.year - 1 ELSE d.year) = year
  BY <1>1, <1>2, <1>3, SMT
<1>5. Quotient(IF year >= 0 THEN year ELSE year - 399, 400) = era
  BY <1>1, SMT DEF UpTo, Quotient
<1>6. year - era * 400 = yoe
  BY <1>1, SMT
<1>7. (153 * (IF d.mon > 2 THEN d.mon - 3 ELSE d.mon + 9) + 2) \div 5 + d.mday - 1 = r
  <2>1. (IF d.mon > 2 THEN d.mon - 3 ELSE d.mon + 9) = mp
    BY <1>2, <1>3, SMT
  <2>2. (153 * mp + 2) \div 5 = start
    BY DEF MonthStart
  <2> HIDE DEF start
  <2> QED
    BY <1>2, <1>3, <2>1, <2>2, SMT
<1> HIDE DEF year, start
<1>8. DaysFromCivil(d.year, d.mon, d.mday)
        = era * 146097 + yoe * 365 + yoe \div 4 - yoe \div 100 + r - 719468
  BY <1>4, <1>5, <1>6, <1>7, SMT DEF DaysFromCivil
<1>9. DaysFromCivil(d.year, d.mon, d.mday) = 146097 * era + doe - 719468
  BY <1>1, <1>8, SMT
<1> QED
  BY <1>9, SMT DEF d, doe, year, yoe

\* gmtime rounds down, whatever the sign of the time.
LEMMA GmtimeIs ==
  ASSUME NEW days \in Int, NEW sod \in 0..(DaySeconds - 1)
  PROVE  gmtime(days * DaySeconds + sod) = CivilToTm(days, sod)
<1> DEFINE D == DaySeconds
           t == days * D + sod
<1>1. D \in Nat \ {0}
  BY TimesAssumption
<1>2. /\ t \in Int /\ days * D \in Int /\ sod \in Int /\ 0 <= sod /\ sod < D
      /\ days >= 0 => days * D >= 0
      /\ days < 0 => days * D <= -D
  BY <1>1, Signs
<1>3. CASE days >= 0
  <2>1. t >= 0
    BY <1>2, <1>3
  <2>2. t \div D = days
    BY <1>1, Divides
  <2>3. Quotient(t, D) = days
    BY <2>1, <2>2 DEF Quotient
  <2>4. Remainder(t, D) = sod
    <3>1. D * days = days * D
      BY <1>1
    <3> QED
      BY <1>2, <2>3, <3>1 DEF Remainder
  <2> HIDE DEF t, D
  <2>5. gmtime(t) = CivilToTm(days, sod)
    BY <1>2, <2>3, <2>4 DEF gmtime, D
  <2> QED
    BY <2>5 DEF t, D
<1>4. CASE days < 0
  <2>1. t < 0
    BY <1>1, <1>2, <1>4
  <2>2. CASE sod = 0
    <3>1. -t = (-days) * D + 0
      BY <1>1, <1>2, <2>2, Signs
    <3>2. ((-days) * D + 0) \div D = -days
      BY <1>1, Divides
    <3>3. Quotient(t, D) = days
      <4>1. (-t) \div D = -days
        BY <3>1, <3>2
      <4>2. Quotient(t, D) = -((-t) \div D)
        BY <1>2, <2>1 DEF Quotient
      <4> QED
        BY <4>1, <4>2
    <3>4. Remainder(t, D) = sod
      <4>1. D * days = days * D
        BY <1>1
      <4> QED
        BY <1>2, <3>3, <4>1 DEF Remainder
    <3> HIDE DEF t, D
    <3>5. gmtime(t) = CivilToTm(days, sod)
      BY <1>2, <3>3, <3>4 DEF gmtime, D
    <3> QED
      BY <3>5 DEF t, D
  <2>3. CASE sod # 0
    <3> DEFINE k == -days - 1
    <3>1. k \in Int /\ D - sod \in 0..(D - 1)
      BY <1>1, <1>2, <2>3
    <3>2. -t = k * D + (D - sod)
      BY <1>1, <1>2, Signs
    <3>3. (k * D + (D - sod)) \div D = k
      <4> HIDE DEF k, D
      <4> QED
        BY <1>1, <3>1, Divides
    <3>4. Quotient(t, D) = days + 1
      <4>1. (-t) \div D = k
        BY <3>2, <3>3
      <4>2. Quotient(t, D) = -((-t) \div D)
        BY <1>2, <2>1 DEF Quotient
      <4> QED
        BY <4>1, <4>2
    <3>5. Remainder(t, D) = sod - D
      <4>1. D * (days + 1) = days * D + D
        BY <1>1, Signs
      <4> QED
        BY <1>1, <1>2, <3>4, <4>1 DEF Remainder
    <3> HIDE DEF t, D, k
    <3>6. /\ Remainder(t, D) < 0 /\ Quotient(t, D) - 1 = days
          /\ Remainder(t, D) + D = sod
      BY <1>1, <1>2, <3>4, <3>5
    <3>7. gmtime(t) = CivilToTm(days, sod)
      BY <3>6 DEF gmtime, D
    <3> QED
      BY <3>7 DEF t, D
  <2> QED
    BY <2>2, <2>3
<1> QED
  BY <1>3, <1>4

\* A time is a second of a day.
LEMMA DayOf ==
  ASSUME NEW t \in Int
  PROVE  \E days \in Int, sod \in 0..(DaySeconds - 1) : t = days * DaySeconds + sod
<1>1. DaySeconds \in Nat \ {0}
  BY TimesAssumption
<1> DEFINE days == t \div DaySeconds
           sod == t % DaySeconds
<1>2. days \in Int /\ sod \in 0..(DaySeconds - 1) /\ t = days * DaySeconds + sod
  BY <1>1, SMT
<1> QED
  BY <1>2

\* A day is a day of a year of an era.
OnDay(days, era, c, q, y, r) ==
  IsDay(c, q, y, r) /\ days + 719468 = 146097 * era + DayOfEra(c, q, y, r)

LEMMA EraOf ==
  ASSUME NEW days \in Int
  PROVE  \E era, c, q, y, r \in Int : OnDay(days, era, c, q, y, r)
<1> DEFINE z == days + 719468
           era == z \div 146097
           doe == z - 146097 * era
<1>1. z \in Int
  BY SMT
<1>2. era \in Int /\ doe \in Int /\ UpTo(doe, 146096) /\ z = 146097 * era + doe
  <2> HIDE DEF z
  <2> QED
    BY <1>1, SMT DEF UpTo
<1> HIDE DEF doe, era
<1>3. PICK c, q, y, r \in Int : IsDay(c, q, y, r) /\ doe = DayOfEra(c, q, y, r)
  BY <1>2, EraSplits, SMT
<1>4. days + 719468 = 146097 * era + DayOfEra(c, q, y, r)
  BY <1>2, <1>3, SMT
<1> QED
  BY <1>2, <1>3, <1>4, SMT DEF OnDay

YearOf(era, c, q, y) == 100 * c + 4 * q + y + 400 * era

\* The year that February is in.
LEMMA LeapYears ==
  ASSUME NEW era \in Int, NEW c \in Int, NEW q \in Int, NEW y \in Int, NEW r \in Int,
         IsDay(c, q, y, r)
  PROVE  Leap(YearOf(era, c, q, y) + 1) <=> y = 3 /\ (q # 24 \/ c = 3)
<1> DEFINE n == 100 * c + 4 * q + y + 400 * era + 1
<1>1. UpTo(c, 3) /\ UpTo(q, 24) /\ UpTo(y, 3)
  BY DEF IsDay
<1>2. n % 4 = 0 <=> y = 3
  BY <1>1, SMT DEF UpTo
<1>3. n % 100 = 0 <=> y = 3 /\ q = 24
  BY <1>1, SMT DEF UpTo
<1>4. n % 400 = 0 <=> y = 3 /\ q = 24 /\ c = 3
  BY <1>1, SMT DEF UpTo
<1> HIDE DEF n
<1>5. Leap(n) <=> y = 3 /\ (q # 24 \/ c = 3)
  BY <1>2, <1>3, <1>4 DEF Leap
<1> QED
  BY <1>5 DEF n, YearOf

\* The day after: the next one of the year, or the first of the next year.
LEMMA DayAfter ==
  ASSUME NEW era \in Int, NEW c \in Int, NEW q \in Int, NEW y \in Int, NEW r \in Int,
         IsDay(c, q, y, r)
  PROVE  \E era2, c2, q2, y2, r2 \in Int :
           /\ IsDay(c2, q2, y2, r2)
           /\ 146097 * era2 + DayOfEra(c2, q2, y2, r2)
                = 146097 * era + DayOfEra(c, q, y, r) + 1
           /\ \/ /\ r2 = r + 1 /\ YearOf(era2, c2, q2, y2) = YearOf(era, c, q, y)
                 /\ r2 = 365 => Leap(YearOf(era, c, q, y) + 1)
              \/ /\ r2 = 0 /\ YearOf(era2, c2, q2, y2) = YearOf(era, c, q, y) + 1
                 /\ r = IF Leap(YearOf(era, c, q, y) + 1) THEN 365 ELSE 364
<1> DEFINE leap == y = 3 /\ (q # 24 \/ c = 3)
<1>1. Leap(YearOf(era, c, q, y) + 1) <=> leap
  BY LeapYears
<1>2. UpTo(c, 3) /\ UpTo(q, 24) /\ UpTo(y, 3) /\ UpTo(r, 365) /\ (r = 365 => leap)
  BY DEF IsDay
<1>3. CASE r < 364 \/ (r = 364 /\ leap)
  <2>1. IsDay(c, q, y, r + 1) /\ (r + 1 = 365 => leap)
    BY <1>2, <1>3, SMT DEF IsDay, UpTo
  <2>2. DayOfEra(c, q, y, r + 1) = DayOfEra(c, q, y, r) + 1
    BY <1>2, SMT DEF DayOfEra
  <2>3. 146097 * era + DayOfEra(c, q, y, r + 1) = 146097 * era + DayOfEra(c, q, y, r) + 1
    <3>1. DayOfEra(c, q, y, r) \in Int
      BY SMT DEF DayOfEra
    <3> QED
      BY <2>2, <3>1, SMT
  <2> QED
    BY <1>1, <2>1, <2>3, SMT
<1>4. CASE ~(r < 364 \/ (r = 364 /\ leap))
  <2>1. r = IF leap THEN 365 ELSE 364
    BY <1>2, <1>4, SMT DEF UpTo
  <2> DEFINE ey == y = 3  eq == ey /\ q = 24  ec == eq /\ c = 3
             y2 == IF ey THEN 0 ELSE y + 1
             q2 == IF ~ey THEN q ELSE IF eq THEN 0 ELSE q + 1
             c2 == IF ~eq THEN c ELSE IF ec THEN 0 ELSE c + 1
             era2 == IF ec THEN era + 1 ELSE era
  <2>2. era2 \in Int /\ c2 \in Int /\ q2 \in Int /\ y2 \in Int /\ IsDay(c2, q2, y2, 0)
    BY <1>2, SMT DEF IsDay, UpTo
  <2>3. YearOf(era2, c2, q2, y2) = YearOf(era, c, q, y) + 1
    BY <1>2, SMT DEF YearOf, UpTo
  <2>4. 146097 * era2 + DayOfEra(c2, q2, y2, 0) = 146097 * era + DayOfEra(c, q, y, r) + 1
    BY <1>2, <2>1, SMT DEF DayOfEra, UpTo
  <2> HIDE DEF era2, c2, q2, y2, leap
  <2> QED
    BY <1>1, <2>1, <2>2, <2>3, <2>4, SMT
<1> QED
  BY <1>3, <1>4

LEMMA DateFields ==
  ASSUME NEW y, NEW m, NEW d, NEW sod
  PROVE  /\ Date(y, m, d, sod).year = y /\ Date(y, m, d, sod).mon = m
         /\ Date(y, m, d, sod).mday = d /\ Date(y, m, d, sod).sod = sod
  BY DEF Date

LEMMA NextInYear ==
  ASSUME NEW year \in Int, NEW r \in Int, NEW sod, UpTo(r, 365), UpTo(r + 1, 365),
         r + 1 = 365 => Leap(year + 1)
  PROVE  DateOf(year, r + 1, sod) = Tomorrow(DateOf(year, r, sod))
<1> DEFINE tm == DateOf(year, r, sod)
           mp == MonthOf(r)
           m == Number(mp)
           after == DateOf(year, r + 1, sod)
           mp2 == MonthOf(r + 1)
           y == year + (IF m <= 2 THEN 1 ELSE 0)
           d == r - MonthStart(mp) + 1
<1>1. /\ mp \in Int /\ UpTo(mp, 11) /\ m \in Int
      /\ MonthStart(mp) \in Int /\ MonthStart(mp + 1) \in Int
      /\ MonthStart(mp) <= r /\ r < MonthStart(mp + 1)
  BY Months DEF UpTo
<1>2. /\ mp2 \in Int /\ UpTo(mp2, 11)
      /\ MonthStart(mp2) \in Int /\ MonthStart(mp2 + 1) \in Int
      /\ MonthStart(mp2) <= r + 1 /\ r + 1 < MonthStart(mp2 + 1)
  BY Months DEF UpTo
<1>3. /\ mp < 11 => MonthStart(mp + 1) - MonthStart(mp) = MonthDays(y, m)
      /\ MonthStart(11) = 337 /\ (m = 2 <=> mp = 11)
  <2>1. y \in Int
    BY <1>1, SMT
  <2> HIDE DEF y, m, mp
  <2> QED
    BY <1>1, <2>1, MonthLengths DEF m
<1>4. /\ tm.year = y /\ tm.mon = m /\ tm.mday = d /\ tm.sod = sod
      /\ after = Date(year + (IF Number(mp2) <= 2 THEN 1 ELSE 0), Number(mp2),
                      (r + 1) - MonthStart(mp2) + 1, sod)
  <2>1. tm = Date(y, m, d, sod)
    BY DEF DateOf
  <2>2. after = Date(year + (IF Number(mp2) <= 2 THEN 1 ELSE 0), Number(mp2),
                     (r + 1) - MonthStart(mp2) + 1, sod)
    BY DEF DateOf
  <2> HIDE DEF tm, after, y, m, d, mp, mp2
  <2> QED
    BY <2>1, <2>2, DateFields
<1>5. \/ mp2 = mp /\ r + 1 < MonthStart(mp + 1)
      \/ mp2 = mp + 1 /\ mp < 11 /\ r + 1 = MonthStart(mp + 1)
  BY SMT DEF UpTo, MonthOf, MonthStart
<1>6. CASE mp2 = mp /\ r + 1 < MonthStart(mp + 1)
  <2>1. tm.mday < MonthDays(tm.year, tm.mon)
    <3>1. CASE mp < 11
      <4> HIDE DEF tm, mp, m, y
      <4> QED
        BY <1>1, <1>3, <1>4, <1>6, <3>1, SMT
    <3>2. CASE mp = 11
      <4>1. m = 2 /\ y = year + 1
        BY <1>3, <3>2, SMT
      <4>2. tm.mday = r - 337 + 1
        BY <1>3, <1>4, <3>2
      <4>3. MonthDays(tm.year, tm.mon) = IF Leap(year + 1) THEN 29 ELSE 28
        BY <1>4, <4>1 DEF MonthDays
      <4> HIDE DEF tm, mp, m, y
      <4> QED
        BY <4>2, <4>3, SMT DEF UpTo
    <3> QED
      BY <1>1, <3>1, <3>2, SMT DEF UpTo
  <2>2. Tomorrow(tm) = Date(y, m, d + 1, sod)
    <3> HIDE DEF tm, y, m, d
    <3> QED
      BY <1>4, <2>1 DEF Tomorrow
  <2>3. (r + 1) - MonthStart(mp2) + 1 = d + 1
    BY <1>1, <1>6, SMT
  <2>4. after = Date(y, m, d + 1, sod)
    <3> HIDE DEF after, d
    <3> QED
      BY <1>4, <1>6, <2>3
  <2> QED
    BY <2>2, <2>4
<1>7. CASE mp2 = mp + 1 /\ mp < 11 /\ r + 1 = MonthStart(mp + 1)
  <2>1. ~(tm.mday < MonthDays(tm.year, tm.mon))
    <3> HIDE DEF tm, mp, m, y
    <3> QED
      BY <1>1, <1>3, <1>4, <1>7, SMT
  <2>2. (r + 1) - MonthStart(mp2) + 1 = 1
    <3> HIDE DEF mp, mp2
    <3> QED
      BY <1>1, <1>7, SMT
  <2>3. CASE m < 12
    <3>1. Number(mp2) = m + 1 /\ (m + 1 <= 2 <=> m <= 2)
      <4> HIDE DEF mp, mp2
      <4> QED
        BY <1>1, <1>7, <2>3, SMT DEF UpTo, Number
    <3>2. Tomorrow(tm) = Date(y, m + 1, 1, sod)
      <4> HIDE DEF tm, y, m, d
      <4> QED
        BY <1>4, <2>1, <2>3 DEF Tomorrow
    <3>3. after = Date(y, m + 1, 1, sod)
      <4> HIDE DEF after, m
      <4> QED
        BY <1>4, <2>2, <3>1
    <3> QED
      BY <3>2, <3>3
  <2>4. CASE ~(m < 12)
    <3>1. Number(mp2) = 1 /\ ~(m <= 2)
      <4> HIDE DEF mp, mp2
      <4> QED
        BY <1>1, <1>7, <2>4, SMT DEF UpTo, Number
    <3>2. Tomorrow(tm) = Date(y + 1, 1, 1, sod)
      <4> HIDE DEF tm, y, m, d
      <4> QED
        BY <1>4, <2>1, <2>4 DEF Tomorrow
    <3>3. after = Date(y + 1, 1, 1, sod)
      <4> HIDE DEF after, m
      <4> QED
        BY <1>4, <2>2, <3>1
    <3> QED
      BY <3>2, <3>3
  <2> QED
    BY <2>3, <2>4
<1> QED
  BY <1>5, <1>6, <1>7

LEMMA NextYear ==
  ASSUME NEW year \in Int, NEW r \in Int, NEW sod,
         r = IF Leap(year + 1) THEN 365 ELSE 364
  PROVE  DateOf(year + 1, 0, sod) = Tomorrow(DateOf(year, r, sod))
<1> DEFINE tm == DateOf(year, r, sod)
<1>1. MonthOf(r) = 11 /\ Number(11) = 2 /\ MonthStart(11) = 337
  BY SMT DEF MonthOf, Number, MonthStart
<1>2. MonthOf(0) = 0 /\ Number(0) = 3 /\ MonthStart(0) = 0
  BY SMT DEF MonthOf, Number, MonthStart
<1>3. tm = Date(year + 1, 2, r - 337 + 1, sod)
  BY <1>1 DEF DateOf
<1>4. DateOf(year + 1, 0, sod) = Date(year + 1, 3, 1, sod)
  <2>1. year + 1 + 0 = year + 1 /\ 0 - 0 + 1 = 1 /\ ~(3 <= 2)
    BY SMT
  <2> QED
    BY <1>2, <2>1 DEF DateOf
<1> HIDE DEF tm
<1>5. tm.year = year + 1 /\ tm.mon = 2 /\ tm.mday = r - 337 + 1 /\ tm.sod = sod
  BY <1>3, DateFields
<1>6. ~(tm.mday < MonthDays(tm.year, tm.mon)) /\ tm.mon < 12 /\ tm.mon + 1 = 3
  BY <1>5, SMT DEF MonthDays
<1>7. Tomorrow(tm) = Date(year + 1, 3, 1, sod)
  BY <1>5, <1>6 DEF Tomorrow
<1> QED
  BY <1>4, <1>7 DEF tm

\* The answers of the calendar, for every time.
LEMMA CalendarRight ==
  ASSUME NEW t \in Int
  PROVE  mktime(gmtime(t)) = t /\ gmtime(t + DaySeconds) = Tomorrow(gmtime(t))
<1>1. PICK days \in Int, sod \in 0..(DaySeconds - 1) : t = days * DaySeconds + sod
  BY DayOf
<1>0. PICK era, c, q, y, r \in Int : OnDay(days, era, c, q, y, r)
  BY EraOf
<1>2. IsDay(c, q, y, r) /\ days + 719468 = 146097 * era + DayOfEra(c, q, y, r)
  BY <1>0, SMT DEF OnDay
<1>3. DaySeconds \in Nat \ {0} /\ sod \in Int
  BY TimesAssumption
<1> DEFINE year == YearOf(era, c, q, y)
           tm == DateOf(year, r, sod)
<1>4. gmtime(t) = tm
  <2>1. CivilToTm(days, sod) = tm
    BY <1>2, <1>3, CivilIs, SMT DEF YearOf
  <2> QED
    BY <1>1, <2>1, GmtimeIs
<1>5. mktime(tm) = t
  <2>1. DaysFromCivil(tm.year, tm.mon, tm.mday)
          = 146097 * era + DayOfEra(c, q, y, r) - 719468
    BY <1>2, <1>3, DaysIs, SMT DEF YearOf
  <2>2. DaysFromCivil(tm.year, tm.mon, tm.mday) = days
    BY <1>2, <2>1, SMT DEF DayOfEra
  <2>3. tm.sod = sod
    BY DEF DateOf, Date
  <2> HIDE DEF tm
  <2> QED
    BY <1>1, <2>2, <2>3 DEF mktime
<1>6. gmtime(t + DaySeconds) = Tomorrow(tm)
  <2>1. t + DaySeconds = (days + 1) * DaySeconds + sod
    BY <1>1, <1>3, Signs
  <2>2. PICK era2, c2, q2, y2, r2 \in Int :
           /\ IsDay(c2, q2, y2, r2)
           /\ 146097 * era2 + DayOfEra(c2, q2, y2, r2)
                = 146097 * era + DayOfEra(c, q, y, r) + 1
           /\ \/ /\ r2 = r + 1 /\ YearOf(era2, c2, q2, y2) = YearOf(era, c, q, y)
                 /\ r2 = 365 => Leap(YearOf(era, c, q, y) + 1)
              \/ /\ r2 = 0 /\ YearOf(era2, c2, q2, y2) = YearOf(era, c, q, y) + 1
                 /\ r = IF Leap(YearOf(era, c, q, y) + 1) THEN 365 ELSE 364
    BY <1>2, DayAfter, SMT
  <2>3. (days + 1) + 719468 = 146097 * era2 + DayOfEra(c2, q2, y2, r2)
    <3>1. DayOfEra(c, q, y, r) \in Int
      BY SMT DEF DayOfEra
    <3> QED
      BY <1>2, <2>2, <3>1, SMT
  <2>4. CivilToTm(days + 1, sod) = DateOf(YearOf(era2, c2, q2, y2), r2, sod)
    <3>1. days + 1 \in Int
      OBVIOUS
    <3> QED
      BY <1>3, <2>2, <2>3, <3>1, CivilIs, SMT DEF YearOf
  <2>5. gmtime(t + DaySeconds) = DateOf(YearOf(era2, c2, q2, y2), r2, sod)
    <3>1. days + 1 \in Int
      OBVIOUS
    <3>2. gmtime((days + 1) * DaySeconds + sod) = CivilToTm(days + 1, sod)
      BY <3>1, GmtimeIs
    <3> QED
      BY <2>1, <2>4, <3>2
  <2>6. year \in Int /\ UpTo(r, 365) /\ UpTo(r2, 365)
    BY <1>2, <2>2, SMT DEF YearOf, IsDay
  <2> HIDE DEF year
  <2>7. DateOf(YearOf(era2, c2, q2, y2), r2, sod) = Tomorrow(tm)
    <3>1. CASE r2 = 0
      <4>1. YearOf(era2, c2, q2, y2) = year + 1 /\ r = IF Leap(year + 1) THEN 365 ELSE 364
        <5>1. r2 # r + 1
          BY <2>6, <3>1, SMT DEF UpTo
        <5> QED
          BY <2>2, <5>1 DEF year
      <4> QED
        BY <2>6, <3>1, <4>1, NextYear
    <3>2. CASE r2 # 0
      <4>1. r2 = r + 1 /\ YearOf(era2, c2, q2, y2) = year /\ (r2 = 365 => Leap(year + 1))
        BY <2>2, <3>2 DEF year
      <4> QED
        BY <2>6, <4>1, NextInYear
    <3> QED
      BY <3>1, <3>2
  <2> QED
    BY <2>5, <2>7
<1> QED
  BY <1>4, <1>5, <1>6

CalInv == time \in Int /\ date = gmtime(time)

LEMMA CalStep == CalInv /\ [NextDay]_calVars => CalInv'
  BY TimesAssumption DEF CalInv, NextDay, calVars

\* For every time, of any sign, mktime undoes gmtime, and the date of the next day is the
\* one that the calendar says (syscall_shim.c:465-504).
THEOREM CalendarIsKept == CalSpec => CalendarKept
<1>1. CalInit => CalInv
  BY TimesAssumption DEF CalInit, CalInv
<1>2. CalInv => MktimeUndoes
  BY CalendarRight DEF CalInv, MktimeUndoes
<1>3. CalInv /\ CalInv' /\ [NextDay]_calVars
        => [date' = Tomorrow(date) /\ MktimeUndoes /\ MktimeUndoes']_calVars
  <2>1. ASSUME CalInv, NextDay PROVE date' = Tomorrow(date)
    BY <2>1, CalendarRight DEF CalInv, NextDay
  <2>2. ASSUME CalInv' PROVE MktimeUndoes'
    BY <2>2, CalendarRight DEF CalInv, MktimeUndoes
  <2> QED
    BY <1>2, <2>1, <2>2 DEF calVars
<1> QED
  BY <1>1, <1>3, CalStep, PTL DEF CalSpec, CalendarKept
================================================================================
