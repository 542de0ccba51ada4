---------------------------- MODULE PlayerProofs ----------------------------
(***************************************************************************)
(* The player's memory, for every song, cache and size of buffers: nothing *)
(* but the order of the main thread's calls keeps the audio thread off     *)
(* what was freed, so the invariant ties what is allocated to where the    *)
(* main thread is, and a running callback to an open device.               *)
(*                                                                         *)
(* Then the library files, for every catalog: what the writers put at the  *)
(* offsets they noted ahead is what the reader finds there.                *)
(***************************************************************************)
EXTENDS Player, FiniteSetTheorems, SequenceTheorems, WellFoundedInduction, TLAPS

Before   == {"args"}
Loaded   == {"count", "init"}
Playing  == {"register", "install", "found", "open", "poll", "close"}
Stopping == {"stop", "free"}

(* What is allocated when the main thread is at pc. *)
MemoryAt ==
  /\ pc \in Before \cup Loaded \cup Playing \cup {"render"} \cup Stopping \cup {"exit"}
  /\ mem \in [Memory -> {"none", "live", "freed", "twice"}]
  /\ pc \in Before  => \A m \in Memory : mem[m] = "none"
  /\ pc \in Loaded  => mem["data"] = "live" /\ \A m \in Memory \ {"data"} : mem[m] = "none"
  /\ pc \in Playing \cup {"render"} \cup Stopping =>
       mem["data"] = "live" /\ mem["state"] = "live" /\ mem["cache"] = "live"
  /\ pc \in Playing  => mem["buf"] = "none"
  /\ pc = "render"   => mem["buf"] \in {"none", "live"}
  /\ pc \in Stopping => mem["buf"] \in {"none", "freed"}
  /\ pc = "exit"     => \A m \in Memory : mem[m] \in {"none", "freed"}

(* The device is open only between its opening and its closing, and only   *)
(* an open device has a callback that runs.                                *)
DeviceAt ==
  /\ audio \in [open : BOOLEAN, cb : Nat, accum : Nat]
  /\ audio.open => pc \in {"poll", "close"}
  /\ audio.cb > 0 => audio.open

MemoryInv == MemoryAt /\ DeviceAt

LEMMA MemoryInit == ASSUME Init PROVE MemoryInv
<1>1. pc = "args" /\ mem = [m \in Memory |-> "none"]
      /\ audio = [open |-> FALSE, cb |-> 0, accum |-> 0]
  BY DEF Init
<1>2. MemoryAt
  BY <1>1 DEF MemoryAt, Before, Loaded, Playing, Stopping
<1>3. DeviceAt
  BY <1>1 DEF DeviceAt
<1> QED BY <1>2, <1>3 DEF MemoryInv

(* Free leaves alone what was never allocated, and frees the rest.         *)
LEMMA FreeTyped ==
  ASSUME NEW s \in [Memory -> {"none", "live", "freed", "twice"}], NEW M \in SUBSET Memory
  PROVE  /\ Free(s, M) \in [Memory -> {"none", "live", "freed", "twice"}]
         /\ \A m \in Memory \ M : Free(s, M)[m] = s[m]
         /\ \A m \in M : s[m] = "none" => Free(s, M)[m] = "none"
         /\ \A m \in M : s[m] = "live" => Free(s, M)[m] = "freed"
  BY DEF Free

----------------------------------------------------------------------------
(* One lemma for each group of the main thread's steps. *)

(* Up to the registration of the song. *)
LEMMA LoadingKeepsMemory ==
  ASSUME MemoryInv, timbre_bank_load \/ load_file \/ count_xmi_tracks \/ xmi_init \/ register_seq
  PROVE  MemoryInv'
<1> USE DEF MemoryInv, MemoryAt, Memory, Before, Loaded, Playing, Stopping
<1>1. audio' = audio /\ pc \notin {"poll", "close"}
  BY DEF timbre_bank_load, load_file, count_xmi_tracks, xmi_init, register_seq, sound
<1>2. MemoryAt'
  <2>1. CASE timbre_bank_load
    <3>1. pc' = pc /\ mem' = mem
      BY <2>1 DEF timbre_bank_load
    <3> QED BY <3>1
  <2>2. CASE load_file
    <3>1. pc = "args" /\ (\/ pc' = "exit" /\ mem' = mem
                          \/ pc' = "count" /\ mem' = [mem EXCEPT !["data"] = "live"])
      BY <2>2 DEF load_file, malloc
    <3> QED BY <3>1
  <2>3. CASE count_xmi_tracks
    <3>1. pc = "count" /\ (\/ pc' \in {"count", "init"} /\ mem' = mem
                           \/ pc' = "exit" /\ mem' = Free(mem, {"data"}))
      BY <2>3 DEF count_xmi_tracks
    <3> QED BY <3>1, FreeTyped
  <2>4. CASE xmi_init
    <3>1. pc = "init" /\ (\/ pc' = "exit" /\ mem' = Free(mem, {"data"})
                          \/ pc' = "exit"
                             /\ mem' = Free(Free([mem EXCEPT !["cache"] = "live"], {"cache"}), {"data"})
                          \/ pc' = "register"
                             /\ mem' = [[mem EXCEPT !["cache"] = "live"] EXCEPT !["state"] = "live"])
      BY <2>4 DEF xmi_init, malloc
    <3>2. CASE pc' = "exit" /\ mem' = Free(mem, {"data"})
      BY <3>1, <3>2, FreeTyped
    <3>3. CASE pc' = "exit"
               /\ mem' = Free(Free([mem EXCEPT !["cache"] = "live"], {"cache"}), {"data"})
      <4> DEFINE s == [mem EXCEPT !["cache"] = "live"]
                 t == Free(s, {"cache"})
      <4>1. s \in [Memory -> {"none", "live", "freed", "twice"}]
            /\ s["data"] = "live" /\ s["cache"] = "live" /\ s["state"] = "none" /\ s["buf"] = "none"
        BY <3>1
      <4>2. t \in [Memory -> {"none", "live", "freed", "twice"}]
            /\ t["data"] = "live" /\ t["cache"] = "freed" /\ t["state"] = "none" /\ t["buf"] = "none"
        <5> HIDE DEF s
        <5> QED BY <4>1, FreeTyped
      <4>3. mem' = Free(t, {"data"}) /\ pc' = "exit"
        BY <3>3
      <4> HIDE DEF t
      <4>4. /\ mem' \in [Memory -> {"none", "live", "freed", "twice"}]
            /\ mem'["data"] = "freed" /\ mem'["cache"] = "freed"
            /\ mem'["state"] = "none" /\ mem'["buf"] = "none"
        BY <4>2, <4>3, FreeTyped
      <4> QED BY <4>3, <4>4
    <3>4. CASE pc' = "register"
               /\ mem' = [[mem EXCEPT !["cache"] = "live"] EXCEPT !["state"] = "live"]
      BY <3>1, <3>4
    <3> QED BY <3>1, <3>2, <3>3, <3>4
  <2>5. CASE register_seq
    <3>1. pc = "register" /\ pc' = "install" /\ mem' = mem
      BY <2>5 DEF register_seq
    <3> QED BY <3>1
  <2> QED BY <2>1, <2>2, <2>3, <2>4, <2>5
<1>3. DeviceAt'
  BY <1>1 DEF DeviceAt
<1> QED BY <1>2, <1>3

(* The timbres' installation, and the rendering to a file. *)
LEMMA RenderingKeepsMemory ==
  ASSUME MemoryInv,
         find_timbre \/ install_timbre \/ start_seq \/ render_start \/ render_chunk \/ render_end
  PROVE  MemoryInv'
<1> USE DEF MemoryInv, MemoryAt, Memory, Before, Loaded, Playing, Stopping
<1>1. audio' = audio /\ pc \notin {"poll", "close"}
  <2>1. CASE find_timbre \/ install_timbre \/ start_seq
    BY <2>1 DEF find_timbre, install_timbre, start_seq, sound
  <2>2. CASE render_start \/ render_end
    BY <2>2 DEF render_start, render_end, sound
  <2>3. CASE render_chunk
    BY <2>3 DEF render_chunk, Rendering
  <2> QED BY <2>1, <2>2, <2>3
<1>2. MemoryAt'
  <2>1. CASE find_timbre \/ install_timbre \/ start_seq
    <3>1. /\ pc \in {"install", "found"}
          /\ pc' \in {"install", "found", "render", "open"}
          /\ mem' = mem
      BY <2>1 DEF find_timbre, install_timbre, start_seq
    <3> QED BY <3>1
  <2>2. CASE render_start
    <3>1. pc = "render" /\ mem["buf"] = "none"
          /\ (\/ pc' = "stop" /\ mem' = mem
              \/ pc' = "render" /\ mem' = [mem EXCEPT !["buf"] = "live"])
      BY <2>2 DEF render_start, malloc
    <3> QED BY <3>1
  <2>3. CASE render_chunk \/ render_end
    <3>1. pc = "render" /\ mem["buf"] = "live"
          /\ (\/ pc' = pc /\ mem' = mem
              \/ pc' = "stop" /\ mem' = Free(mem, {"buf"}))
      BY <2>3 DEF render_chunk, render_end, Rendering
    <3> QED BY <3>1, FreeTyped
  <2> QED BY <2>1, <2>2, <2>3
<1>3. DeviceAt'
  BY <1>1 DEF DeviceAt
<1> QED BY <1>2, <1>3

(* Playing through the device. *)
LEMMA DeviceKeepsMemory ==
  ASSUME MemoryInv, PlayerAssumption,
         sdl_audio_init \/ poll \/ sdl_audio_close \/ audio_thread
  PROVE  MemoryInv'
<1> USE DEF MemoryInv, MemoryAt, Memory, Before, Loaded, Playing, Stopping
<1>1. MemoryAt'
  <2>1. /\ mem' = mem
        /\ \/ pc = "open" /\ pc' \in {"stop", "poll"}
           \/ pc = "poll" /\ pc' = "close"
           \/ pc = "close" /\ pc' = "stop"
           \/ pc' = pc
    BY DEF sdl_audio_init, poll, sdl_audio_close, audio_thread, callback_begin, callback_sample
  <2> QED BY <2>1
<1>2. DeviceAt'
  <2>1. CASE sdl_audio_init
    <3>1. pc = "open" /\ (\/ pc' = "stop" /\ audio' = audio
                          \/ pc' = "poll" /\ audio' = [open |-> TRUE, cb |-> 0, accum |-> 0])
      BY <2>1 DEF sdl_audio_init
    <3>2. CASE audio' = audio
      BY <3>1, <3>2 DEF DeviceAt
    <3>3. CASE pc' = "poll" /\ audio' = [open |-> TRUE, cb |-> 0, accum |-> 0]
      <4>1. audio' \in [open : BOOLEAN, cb : Nat, accum : Nat]
        BY <3>3
      <4> QED BY <3>3, <4>1 DEF DeviceAt
    <3>4. pc = "open" => ~ audio.open
      BY DEF DeviceAt
    <3> QED BY <3>1, <3>2, <3>3, <3>4 DEF DeviceAt
  <2>2. CASE poll
    <3>1. pc' = "close" /\ audio' = audio
      BY <2>2 DEF poll, sound
    <3> QED BY <3>1 DEF DeviceAt
  <2>3. CASE sdl_audio_close
    <3>1. audio.cb = 0 /\ audio' = [audio EXCEPT !.open = FALSE]
      BY <2>3 DEF sdl_audio_close
    <3>2. audio' \in [open : BOOLEAN, cb : Nat, accum : Nat]
      BY <3>1 DEF DeviceAt
    <3>3. ~ audio'.open /\ audio'.cb = 0
      BY <3>1 DEF DeviceAt
    <3> QED BY <3>2, <3>3 DEF DeviceAt
  <2>4. CASE callback_begin
    <3>1. pc' = pc /\ audio.open /\ audio' = [audio EXCEPT !.cb = Samples] /\ Samples \in Nat
      BY <2>4 DEF callback_begin, PlayerAssumption
    <3> QED BY <3>1 DEF DeviceAt
  <2>5. CASE callback_sample
    <3>1. /\ pc' = pc /\ audio.cb > 0
          /\ audio' = [audio EXCEPT !.cb = @ - 1,
                                    !.accum = (IF audio.accum > spt THEN 0 ELSE @) + 1]
      BY <2>5 DEF callback_sample
    <3> DEFINE accum == (IF audio.accum > spt THEN 0 ELSE audio.accum) + 1
    <3>2. accum \in Nat /\ audio.cb - 1 \in Nat
      BY <3>1 DEF DeviceAt
    <3> HIDE DEF accum
    <3>3. audio' \in [open : BOOLEAN, cb : Nat, accum : Nat] /\ audio'.open = audio.open
      BY <3>1, <3>2 DEF DeviceAt, accum
    <3> QED BY <3>1, <3>3 DEF DeviceAt
  <2> QED BY <2>1, <2>2, <2>3, <2>4, <2>5 DEF audio_thread
<1> QED BY <1>1, <1>2

(* The end of the program: the device was closed, or never opened. *)
LEMMA ShutdownKeepsMemory ==
  ASSUME MemoryInv, xmi_stop \/ xmi_deinit
  PROVE  MemoryInv'
<1> USE DEF MemoryInv, MemoryAt, Memory, Before, Loaded, Playing, Stopping
<1>1. audio' = audio /\ pc \notin {"poll", "close"}
  BY DEF xmi_stop, xmi_deinit, sound
<1>2. MemoryAt'
  <2>1. CASE xmi_stop
    <3>1. pc = "stop" /\ pc' = "free" /\ mem' = mem
      BY <2>1 DEF xmi_stop
    <3> QED BY <3>1
  <2>2. CASE xmi_deinit
    <3>1. pc = "free" /\ pc' = "exit" /\ mem' = Free(mem, {"state", "cache", "data"})
      BY <2>2 DEF xmi_deinit
    <3> QED BY <3>1, FreeTyped
  <2> QED BY <2>1, <2>2
<1>3. DeviceAt'
  BY <1>1 DEF DeviceAt
<1> QED BY <1>2, <1>3

LEMMA StutterKeepsMemory ==
  ASSUME MemoryInv, UNCHANGED <<pc, mem, audio>>
  PROVE  MemoryInv'
<1>1. MemoryAt'
  BY DEF MemoryInv, MemoryAt
<1>2. DeviceAt'
  BY DEF MemoryInv, DeviceAt
<1> QED BY <1>1, <1>2 DEF MemoryInv

LEMMA MemoryNext ==
  ASSUME MemoryInv, PlayerAssumption, [Next]_vars
  PROVE  MemoryInv'
<1>1. CASE main
  BY <1>1, LoadingKeepsMemory, RenderingKeepsMemory, DeviceKeepsMemory, ShutdownKeepsMemory
  DEF main
<1>2. CASE audio_thread
  BY <1>2, DeviceKeepsMemory
<1>3. CASE sigint
  BY <1>3, StutterKeepsMemory DEF sigint
<1>4. CASE UNCHANGED player
  BY <1>4, StutterKeepsMemory DEF player
<1> QED BY <1>1, <1>2, <1>3, <1>4 DEF Next, vars

LEMMA MemoryInvSound == ASSUME MemoryInv PROVE MemorySound
<1> USE DEF MemoryInv, MemoryAt, Memory, Before, Loaded, Playing, Stopping
<1>1. ServeOnLive
  BY DEF ServeOnLive, DeviceAt
<1>2. ASSUME NEW m \in Memory PROVE mem[m] # "twice"
  OBVIOUS
<1>3. pc = "exit" => \A m \in Memory : mem[m] # "live"
  OBVIOUS
<1>4. FreedOnce
  BY <1>2, <1>3 DEF FreedOnce
<1> QED BY <1>1, <1>4 DEF MemorySound

(* The song, the driver's state and the cache outlive every callback of    *)
(* the audio thread, and at the end, whichever step failed, all memory was *)
(* freed and none of it twice.                                             *)
THEOREM MemorySoundAlways == FairSpec => []MemorySound
<1>1. Init => MemoryInv
  BY MemoryInit
<1>2. MemoryInv /\ [Next]_vars => MemoryInv'
  BY MemoryNext, PlayerAssumption
<1>3. MemoryInv => MemorySound
  BY MemoryInvSound
<1> QED BY <1>1, <1>2, <1>3, PTL DEF FairSpec

----------------------------------------------------------------------------
(* The libraries GLIB writes.  Helpers first: the least element of a set   *)
(* of numbers, the decoding of a word, and the parser's checks.            *)
LEMMA LeastMember ==
  ASSUME NEW S \in SUBSET Nat, S # {}
  PROVE  Min(S) \in S /\ \A x \in S : Min(S) <= x
<1> DEFINE R == {ss \in Nat \X Nat : ss[1] < ss[2]}
<1>1. IsWellFoundedOn(R, Nat)
  BY NatLessThanWellFounded DEF OpToRel
<1>2. \E x \in S : \A y \in S : ~ (<<y, x>> \in R)
  <2> HIDE DEF R
  <2> QED BY <1>1, WFMin
<1>3. PICK x \in S : \A y \in S : ~ (<<y, x>> \in R)
  BY <1>2
<1>4. ASSUME NEW y \in S PROVE x <= y
  <2>1. ~ (<<y, x>> \in R) /\ x \in Nat /\ y \in Nat
    BY <1>3
  <2> QED BY <2>1
<1> QED BY <1>4 DEF Min

LEMMA Concatenation ==
  ASSUME NEW U, NEW s \in Seq(U), NEW t \in Seq(U), NEW r, r = s \o t
  PROVE  /\ r \in Seq(U) /\ Len(r) = Len(s) + Len(t)
         /\ \A i \in 1 .. Len(s) : r[i] = s[i]
         /\ \A i \in 1 .. Len(t) : r[Len(s) + i] = t[i]
OBVIOUS

LEMMA Appended ==
  ASSUME NEW U, NEW s \in Seq(U), NEW e \in U, NEW r, r = Append(s, e), NEW n, n = Len(s)
  PROVE  /\ r \in Seq(U) /\ Len(r) = n + 1 /\ r[n + 1] = e
         /\ \A j \in 1 .. n : r[j] = s[j]
OBVIOUS

LEMMA WordValue ==
  ASSUME NEW n \in Nat
  PROVE  /\ Word(n) \in Seq(Nat) /\ Len(Word(n)) = 2
         /\ Word(n)[1] + 256 * Word(n)[2] = n
<1>1. n % 256 \in Nat /\ n \div 256 \in Nat /\ (n % 256) + 256 * (n \div 256) = n
  OBVIOUS
<1> QED BY <1>1 DEF Word

(* The checks of a line: four of the function, one of "=", four more.      *)
InOrder(E, A, B, C) ==
  /\ Len(E) = 10 /\ DOMAIN E = 1 .. 10 /\ \A i \in 1 .. 4 : E[i] = A[i]
  /\ E[5] = B[1] /\ E[6] = C[1] /\ E[7] = C[2]

LEMMA CheckOrder ==
  ASSUME NEW U, NEW A \in Seq(U), NEW B \in Seq(U), NEW C \in Seq(U), NEW D \in Seq(U),
         NEW E, E = A \o (B \o C) \o D
  PROVE  Len(A) = 4 /\ Len(B) = 1 /\ Len(C) = 4 /\ Len(D) = 1 => InOrder(E, A, B, C)
<1>1. PICK F : F = B \o C
  OBVIOUS
<1>2. PICK G : G = A \o F
  OBVIOUS
<1>3. /\ F \in Seq(U) /\ Len(F) = Len(B) + Len(C)
      /\ \A i \in 1 .. Len(B) : F[i] = B[i]
      /\ \A i \in 1 .. Len(C) : F[Len(B) + i] = C[i]
  BY <1>1, Concatenation
<1>4. /\ G \in Seq(U) /\ Len(G) = Len(A) + Len(F)
      /\ \A i \in 1 .. Len(A) : G[i] = A[i]
      /\ \A i \in 1 .. Len(F) : G[Len(A) + i] = F[i]
  BY <1>2, <1>3, Concatenation
<1>5. /\ E \in Seq(U) /\ Len(E) = Len(G) + Len(D)
      /\ \A i \in 1 .. Len(G) : E[i] = G[i]
  BY <1>1, <1>2, <1>4, Concatenation
<1>6. SUFFICES ASSUME Len(A) = 4, Len(B) = 1, Len(C) = 4, Len(D) = 1
               PROVE  InOrder(E, A, B, C)
  OBVIOUS
<1>7. Len(F) = 5 /\ F[1] = B[1] /\ F[2] = C[1] /\ F[3] = C[2]
  <2>1. /\ 1 \in 1 .. Len(B) /\ 1 \in 1 .. Len(C) /\ 2 \in 1 .. Len(C)
        /\ Len(B) + 1 = 2 /\ Len(B) + 2 = 3 /\ Len(B) + Len(C) = 5
    BY <1>6
  <2> QED BY <1>3, <2>1
<1>8. /\ Len(G) = 9 /\ \A i \in 1 .. 4 : G[i] = A[i]
      /\ G[5] = F[1] /\ G[6] = F[2] /\ G[7] = F[3]
  <2>1. /\ Len(A) + 1 = 5 /\ Len(A) + 2 = 6 /\ Len(A) + 3 = 7 /\ Len(A) + 5 = 9
        /\ 1 .. Len(A) = 1 .. 4
    BY <1>6
  <2>2. 1 \in 1 .. Len(F) /\ 2 \in 1 .. Len(F) /\ 3 \in 1 .. Len(F)
    BY <1>7
  <2> QED BY <1>4, <1>7, <2>1, <2>2
<1>9. Len(E) = 10 /\ \A i \in 1 .. 9 : E[i] = G[i]
  <2>1. 9 + Len(D) = 10
    BY <1>6
  <2> QED BY <1>5, <1>8, <2>1
<1>10. E[5] = G[5] /\ E[6] = G[6] /\ E[7] = G[7] /\ \A i \in 1 .. 4 : E[i] = G[i]
  <2>1. 5 \in 1 .. 9 /\ 6 \in 1 .. 9 /\ 7 \in 1 .. 9 /\ \A i \in 1 .. 4 : i \in 1 .. 9
    OBVIOUS
  <2> QED BY <1>9, <2>1, Zenon
<1>11. DOMAIN E = 1 .. 10
  <2>1. DOMAIN E = 1 .. Len(E)
    <3>1. \A e \in Seq(U) : DOMAIN e = 1 .. Len(e)
      OBVIOUS
    <3> QED BY <1>5, <3>1, Zenon
  <2> QED BY <1>9, <2>1, Zenon
<1> QED BY <1>7, <1>8, <1>9, <1>10, <1>11 DEF InOrder

LEMMA FourChecks ==
  ASSUME NEW s, s = <<s[1], s[2], s[3], s[4]>>,
         NEW U, s[1] \in U, s[2] \in U, s[3] \in U, s[4] \in U
  PROVE  s \in Seq(U) /\ Len(s) = 4
<1>1. \A a, b, c, d : a \in U /\ b \in U /\ c \in U /\ d \in U =>
         <<a, b, c, d>> \in Seq(U) /\ Len(<<a, b, c, d>>) = 4
  OBVIOUS
<1> QED BY <1>1, Zenon

LEMMA OneCheck ==
  ASSUME NEW a, NEW U, a \in U, NEW s, s = <<a>>
  PROVE  s \in Seq(U) /\ Len(s) = 1
OBVIOUS

(* A line without errors assigns a timbre from one of three sources.       *)
LEMMA SourceKnown ==
  ASSUME LinesAssumption, NEW l \in Lines, l.lv.t = "timbre", LineError(l) = 0
  PROVE  l.rv.t \in {"BIN_file", "MTB_file", "BNK_inst"}
<1> DEFINE A == CallErrors(l.lv, TRUE)
           B == << <<~l.eq, 8>> >>
           C == CallErrors(l.rv, FALSE)
           D == << <<l.extra, 9>> >>
           E == LineErrors(l)
           failed == {n \in DOMAIN E : E[n][1]}
<1>1. tokens["timbre"].rval_req
  BY DEF tokens
<1>2. E = A \o (B \o C) \o D
  BY <1>1 DEF LineErrors
<1>3. /\ A = <<A[1], A[2], A[3], A[4]>>
      /\ A[1] = <<l.lv.err # 0, l.lv.err>>
      /\ A[2][2] = 6 /\ A[3][2] = 13 /\ A[4][2] = 11
  BY DEF CallErrors
<1>4. /\ C = <<C[1], C[2], C[3], C[4]>>
      /\ C[1] = <<l.rv.err # 0, l.rv.err>>
      /\ C[2] = <<~tokens[l.rv.t].rval_OK, 6>>
  BY DEF CallErrors
<1>5. B = <<B[1]>> /\ B[1][2] = 8 /\ D = <<D[1]>>
  OBVIOUS
<1> HIDE DEF A, B, C, D, E
<1>6. /\ Len(E) = 10 /\ DOMAIN E = 1 .. 10 /\ \A i \in 1 .. 4 : E[i] = A[i]
      /\ E[5] = B[1] /\ E[6] = C[1] /\ E[7] = C[2]
  <2> DEFINE U == {A[1], A[2], A[3], A[4], B[1], C[1], C[2], C[3], C[4], D[1]}
  <2>1. B \in Seq(U) /\ Len(B) = 1 /\ D \in Seq(U) /\ Len(D) = 1
    <3>1. B[1] \in U /\ D[1] \in U
      OBVIOUS
    <3> HIDE DEF U
    <3> QED BY <1>5, <3>1, OneCheck
  <2>2. /\ A[1] \in U /\ A[2] \in U /\ A[3] \in U /\ A[4] \in U
        /\ C[1] \in U /\ C[2] \in U /\ C[3] \in U /\ C[4] \in U
    OBVIOUS
  <2> HIDE DEF U
  <2>3. A \in Seq(U) /\ Len(A) = 4
    BY <1>3, <2>2, FourChecks, Zenon
  <2>4. C \in Seq(U) /\ Len(C) = 4
    BY <1>4, <2>2, FourChecks, Zenon
  <2>5. A \in Seq(U) /\ B \in Seq(U) /\ C \in Seq(U) /\ D \in Seq(U)
    BY <2>1, <2>3, <2>4
  <2>6. Len(A) = 4 /\ Len(B) = 1 /\ Len(C) = 4 /\ Len(D) = 1 => InOrder(E, A, B, C)
    BY <1>2, <2>5, CheckOrder
  <2> QED BY <2>1, <2>3, <2>4, <2>6 DEF InOrder
<1>7. ASSUME NEW n \in 1 .. 7, E[n][1] PROVE E[n][2] # 0
  <2>1. n = 1 \/ n = 2 \/ n = 3 \/ n = 4 \/ n = 5 \/ n = 6 \/ n = 7
    OBVIOUS
  <2>2. A[1][1] = (l.lv.err # 0) /\ A[1][2] = l.lv.err
    BY <1>3
  <2>3. C[1][1] = (l.rv.err # 0) /\ C[1][2] = l.rv.err
    BY <1>4
  <2>4. C[2][2] = 6
    BY <1>4
  <2>5. /\ E[1] = A[1] /\ E[2] = A[2] /\ E[3] = A[3] /\ E[4] = A[4]
        /\ E[5] = B[1] /\ E[6] = C[1] /\ E[7] = C[2]
    BY <1>6
  <2>6. E[2][2] # 0 /\ E[3][2] # 0 /\ E[4][2] # 0 /\ E[5][2] # 0 /\ E[7][2] # 0
    BY <1>3, <1>5, <2>4, <2>5
  <2>7. E[1][1] => E[1][2] # 0
    BY <2>2, <2>5
  <2>8. E[6][1] => E[6][2] # 0
    BY <2>3, <2>5
  <2> QED BY <1>7, <2>1, <2>6, <2>7, <2>8
<1>8. DOMAIN E = 1 .. 10
  BY <1>6
<1>9. ~E[7][1]
  <2>1. SUFFICES ASSUME 7 \in failed PROVE FALSE
    BY <1>8
  <2>2. failed \in SUBSET Nat /\ failed # {}
    BY <1>8, <2>1
  <2>3. LineError(l) = E[Min(failed)][2]
    BY <2>2 DEF LineError, E
  <2>4. Min(failed) \in failed /\ Min(failed) <= 7
    <3> HIDE DEF failed
    <3> QED BY <2>1, <2>2, LeastMember
  <2>5. Min(failed) \in 1 .. 7 /\ E[Min(failed)][1]
    BY <1>8, <2>4
  <2> QED BY <1>7, <2>3, <2>5
<1>10. tokens[l.rv.t].rval_OK /\ l.rv.t \in DOMAIN tokens
  <2>1. E[7] = <<~tokens[l.rv.t].rval_OK, 6>>
    BY <1>4, <1>6
  <2>2. E[7][1] = ~tokens[l.rv.t].rval_OK
    BY <2>1
  <2> QED BY <1>9, <2>2 DEF LinesAssumption
<1> QED BY <1>10 DEF tokens

----------------------------------------------------------------------------
(* Where a library in the making keeps what was assigned.                  *)

(* From the offset o on, body has a timbre: its length word and its data.  *)
At(body, o, data) ==
  /\ o \in Nat /\ o + Len(data) + 2 <= Len(body)
  /\ body[o + 1] + 256 * body[o + 2] = Len(data) + 2
  /\ \A j \in 1 .. Len(data) : body[o + 2 + j] = data[j]

IsHead(h) == h = [bank |-> h.bank, patch |-> h.patch, offset |-> h.offset]

(* s is a library with its header[]. *)
Shaped(s) ==
  /\ s = [lib |-> s.lib, hdr |-> s.hdr, err |-> s.err]
  /\ s.lib = [filename |-> s.lib.filename, entries |-> s.lib.entries,
              body |-> s.lib.body, log |-> s.lib.log]
  /\ s.hdr = [i \in 0 .. MaxTimbres |-> s.hdr[i]]
  /\ \A i \in 0 .. MaxTimbres : IsHead(s.hdr[i])

(* The n-th entry is the n-th assignment, and header[] is one entry ahead. *)
Stored(s) ==
  /\ Shaped(s)
  /\ s.lib.entries \in 0 .. MaxTimbres
  /\ s.lib.body \in Seq(Nat)
  /\ s.lib.log \in Seq([timbre : Nat \X Nat, data : Seq(Nat)])
  /\ Len(s.lib.log) = s.lib.entries
  /\ s.hdr[s.lib.entries].offset = Len(s.lib.body)
  /\ \A n \in 1 .. s.lib.entries :
       /\ <<s.hdr[n - 1].bank, s.hdr[n - 1].patch>> = s.lib.log[n].timbre
       /\ At(s.lib.body, s.hdr[n - 1].offset, s.lib.log[n].data)

LEMMA AtGrows ==
  ASSUME NEW body \in Seq(Nat), NEW o, NEW data \in Seq(Nat), At(body, o, data),
         NEW r \in Seq(Nat), Len(r) >= Len(body), \A i \in 1 .. Len(body) : r[i] = body[i]
  PROVE  At(r, o, data)
<1>0. Len(data) \in Nat /\ Len(body) \in Nat /\ Len(r) \in Nat
  OBVIOUS
<1>1. o \in Nat /\ o + Len(data) + 2 <= Len(body)
  BY DEF At
<1>2. o + 1 \in 1 .. Len(body) /\ o + 2 \in 1 .. Len(body)
      /\ \A j \in 1 .. Len(data) : o + 2 + j \in 1 .. Len(body)
  BY <1>0, <1>1
<1>3. r[o + 1] = body[o + 1] /\ r[o + 2] = body[o + 2]
      /\ \A j \in 1 .. Len(data) : r[o + 2 + j] = body[o + 2 + j]
  BY <1>2
<1>4. o + Len(data) + 2 <= Len(r)
  BY <1>0, <1>1
<1> QED BY <1>1, <1>3, <1>4 DEF At

(* What a write appends. *)
LEMMA WrittenBehind ==
  ASSUME NEW body \in Seq(Nat), NEW timb \in Seq(Nat), NEW w \in Seq(Nat),
         w[1] + 256 * w[2] = Len(timb) + 2,
         NEW q, q = body \o w, NEW r, r = q \o timb
  PROVE  Len(w) = 2 =>
         /\ r \in Seq(Nat) /\ Len(r) = Len(body) + Len(timb) + 2
         /\ \A i \in 1 .. Len(body) : r[i] = body[i]
         /\ At(r, Len(body), timb)
<1>5. /\ q \in Seq(Nat) /\ Len(q) = Len(body) + Len(w)
      /\ \A i \in 1 .. Len(body) : q[i] = body[i]
      /\ \A i \in 1 .. Len(w) : q[Len(body) + i] = w[i]
  BY Concatenation
<1>6. /\ r \in Seq(Nat) /\ Len(r) = Len(q) + Len(timb)
      /\ \A i \in 1 .. Len(q) : r[i] = q[i]
      /\ \A i \in 1 .. Len(timb) : r[Len(q) + i] = timb[i]
  <2>1. q \in Seq(Nat)
    BY <1>5
  <2> QED BY <2>1, Concatenation
<1>2. SUFFICES ASSUME Len(w) = 2
               PROVE  /\ r \in Seq(Nat) /\ Len(r) = Len(body) + Len(timb) + 2
                      /\ \A i \in 1 .. Len(body) : r[i] = body[i]
                      /\ At(r, Len(body), timb)
  OBVIOUS
<1>7. PICK l : l = Len(body)
  OBVIOUS
<1>8. PICK m : m = Len(timb)
  OBVIOUS
<1>9. l \in Nat /\ m \in Nat /\ Len(q) = l + 2 /\ Len(r) = l + m + 2
  BY <1>2, <1>5, <1>6, <1>7, <1>8
<1>10. 1 \in 1 .. Len(w) /\ 2 \in 1 .. Len(w)
  BY <1>2
<1>11. q[l + 1] = w[1] /\ q[l + 2] = w[2]
  BY <1>5, <1>7, <1>10
<1>12. l + 1 \in 1 .. Len(q) /\ l + 2 \in 1 .. Len(q) /\ \A i \in 1 .. l : i \in 1 .. Len(q)
  BY <1>9
<1>13. r[l + 1] = w[1] /\ r[l + 2] = w[2]
  BY <1>6, <1>11, <1>12
<1>14. \A i \in 1 .. l : r[i] = body[i]
  BY <1>5, <1>6, <1>7, <1>12
<1>15. \A j \in 1 .. m : r[l + 2 + j] = timb[j]
  BY <1>6, <1>8, <1>9
<1>16. r[l + 1] + 256 * r[l + 2] = m + 2
  BY <1>8, <1>13
<1>17. l + m + 2 <= Len(r)
  BY <1>9
<1>18. At(r, l, timb)
  BY <1>8, <1>9, <1>15, <1>16, <1>17 DEF At
<1> QED BY <1>6, <1>7, <1>8, <1>9, <1>14, <1>18

LEMMA Written ==
  ASSUME NEW body \in Seq(Nat), NEW timb \in Seq(Nat),
         NEW r, r = body \o Word(Len(timb) + 2) \o timb
  PROVE  /\ r \in Seq(Nat) /\ Len(r) = Len(body) + Len(timb) + 2
         /\ \A i \in 1 .. Len(body) : r[i] = body[i]
         /\ At(r, Len(body), timb)
<1>1. PICK w : w = Word(Len(timb) + 2)
  OBVIOUS
<1>2. w \in Seq(Nat) /\ Len(w) = 2 /\ w[1] + 256 * w[2] = Len(timb) + 2
  BY <1>1, WordValue
<1>3. PICK q : q = body \o w
  OBVIOUS
<1>4. r = q \o timb
  BY <1>1, <1>3
<1>5. w \in Seq(Nat) /\ w[1] + 256 * w[2] = Len(timb) + 2
  BY <1>2
<1>6. Len(w) = 2 =>
         /\ r \in Seq(Nat) /\ Len(r) = Len(body) + Len(timb) + 2
         /\ \A i \in 1 .. Len(body) : r[i] = body[i]
         /\ At(r, Len(body), timb)
  BY <1>3, <1>4, <1>5, WrittenBehind
<1> QED BY <1>2, <1>6

LEMMA Updated ==
  ASSUME NEW N \in Nat, NEW f, f = [j \in 0 .. N |-> f[j]], NEW i \in 0 .. N, NEW h,
         NEW g, g = [f EXCEPT ![i] = h]
  PROVE  /\ g = [j \in 0 .. N |-> g[j]] /\ g[i] = h
         /\ \A j \in 0 .. N : j # i => g[j] = f[j]
OBVIOUS

LEMMA ElementOf ==
  ASSUME NEW U, NEW s \in Seq(U), NEW n \in 1 .. Len(s)
  PROVE  s[n] \in U
OBVIOUS

LEMMA Moved ==
  ASSUME NEW x, NEW a, NEW b, NEW c, NEW y, NEW g,
         x = [bank |-> a, patch |-> b, offset |-> c], g = [x EXCEPT !.offset = y]
  PROVE  g = [bank |-> a, patch |-> b, offset |-> y]
OBVIOUS

(* A write stores the timbre and leaves the others where they are. *)
LEMMA WriteKeeps ==
  ASSUME LibraryAssumption, NEW s, Stored(s), NEW t \in Nat \X Nat, NEW timb \in Seq(Nat)
  PROVE  Stored(GTL_write_timbre(s, t, timb))
<1> DEFINE i == s.lib.entries
           r == GTL_write_timbre(s, t, timb)
<1>1. CASE i >= MaxTimbres \/ s.err # 0
  <2> DEFINE x == IF s.err = 0 THEN 17 ELSE s.err
  <2>1. r = [s EXCEPT !.err = x]
    BY <1>1 DEF GTL_write_timbre
  <2> HIDE DEF r, x
  <2>2. r.lib = s.lib /\ r.hdr = s.hdr /\ r = [lib |-> r.lib, hdr |-> r.hdr, err |-> r.err]
    BY <2>1 DEF Stored, Shaped
  <2>3. Stored(r)
    BY <2>2 DEF Stored, Shaped
  <2> QED BY <2>3 DEF r
<1>2. CASE ~(i >= MaxTimbres \/ s.err # 0)
  <2> DEFINE h == [bank |-> t[1], patch |-> t[2], offset |-> s.hdr[i].offset]
             H == [s.hdr EXCEPT ![i] = h]
             y == s.hdr[i].offset + Len(timb) + 2
             G == [H EXCEPT ![i + 1].offset = y]
             body == s.lib.body \o Word(Len(timb) + 2) \o timb
             e == [timbre |-> t, data |-> timb]
             log == Append(s.lib.log, e)
             L == [filename |-> s.lib.filename, entries |-> i + 1, body |-> body, log |-> log]
  <2>1. i \in 0 .. MaxTimbres - 1 /\ i + 1 \in 1 .. MaxTimbres /\ i \in Nat /\ MaxTimbres \in Nat
    <3>1. i \in 0 .. MaxTimbres /\ MaxTimbres \in Nat
      BY DEF Stored, LibraryAssumption
    <3> HIDE DEF i
    <3> QED BY <1>2, <3>1
  <2>2. r = [lib |-> L, hdr |-> G, err |-> 0]
    BY <1>2 DEF GTL_write_timbre
  <2> DEFINE g == [H[i + 1] EXCEPT !.offset = y]
  <2>a. H = [s.hdr EXCEPT ![i] = h] /\ G = [H EXCEPT ![i + 1] = g]
        /\ g = [H[i + 1] EXCEPT !.offset = y]
    OBVIOUS
  <2> HIDE DEF r, L, G, y, H, h, i, g
  <2>3. /\ s.hdr = [j \in 0 .. MaxTimbres |-> s.hdr[j]]
        /\ \A j \in 0 .. MaxTimbres : IsHead(s.hdr[j])
    BY DEF Stored, Shaped
  <2>b. /\ i \in 0 .. MaxTimbres /\ i # i + 1 /\ MaxTimbres \in Nat /\ i + 1 \in 0 .. MaxTimbres
        /\ \A j \in 0 .. i - 1 : j \in 0 .. MaxTimbres /\ j # i /\ j # i + 1
    BY <2>1
  <2>4. /\ H = [j \in 0 .. MaxTimbres |-> H[j]]
        /\ H[i] = h
        /\ \A j \in 0 .. MaxTimbres : j # i => H[j] = s.hdr[j]
    BY <2>b, <2>3, <2>a, Updated, Zenon
  <2>5. /\ G = [j \in 0 .. MaxTimbres |-> G[j]]
        /\ G[i + 1] = g
        /\ \A j \in 0 .. MaxTimbres : j # i + 1 => G[j] = H[j]
    <3> DEFINE k == i + 1
    <3>1. k \in 0 .. MaxTimbres /\ G = [H EXCEPT ![k] = g]
      BY <2>1, <2>a
    <3> HIDE DEF k
    <3>2. /\ G = [j \in 0 .. MaxTimbres |-> G[j]] /\ G[k] = g
          /\ \A j \in 0 .. MaxTimbres : j # k => G[j] = H[j]
      BY <2>1, <2>4, <3>1, Updated
    <3> QED BY <3>2 DEF k
  <2>6. H[i + 1] = s.hdr[i + 1]
    BY <2>b, <2>4, Zenon
  <2>7. G[i] = h /\ \A j \in 0 .. i - 1 : G[j] = s.hdr[j]
    BY <2>b, <2>4, <2>5, Zenon
  <2>8. G[i + 1] = [bank |-> s.hdr[i + 1].bank, patch |-> s.hdr[i + 1].patch, offset |-> y]
    <3>1. H[i + 1] = [bank   |-> s.hdr[i + 1].bank, patch |-> s.hdr[i + 1].patch,
                      offset |-> s.hdr[i + 1].offset]
      BY <2>b, <2>3, <2>6 DEF IsHead
    <3>2. g = [bank |-> s.hdr[i + 1].bank, patch |-> s.hdr[i + 1].patch, offset |-> y]
      <4> DEFINE x == H[i + 1]
                 a == s.hdr[i + 1].bank
                 p == s.hdr[i + 1].patch
                 o == s.hdr[i + 1].offset
      <4>1. x = [bank |-> a, patch |-> p, offset |-> o] /\ g = [x EXCEPT !.offset = y]
        BY <2>a, <3>1
      <4> HIDE DEF x, a, p, o
      <4>2. g = [bank |-> a, patch |-> p, offset |-> y]
        BY <4>1, Moved
      <4> QED BY <4>2 DEF a, p
    <3> QED BY <2>5, <3>2
  <2>9. \A j \in 0 .. MaxTimbres : IsHead(G[j])
    <3> TAKE j \in 0 .. MaxTimbres
    <3>1. CASE j = i
      BY <2>7, <3>1 DEF IsHead, h
    <3>2. CASE j = i + 1
      BY <2>8, <3>2 DEF IsHead
    <3>3. CASE j # i /\ j # i + 1
      BY <2>3, <2>4, <2>5, <3>3
    <3> QED BY <3>1, <3>2, <3>3
  <2> DEFINE b == s.lib.body
             n == Len(s.lib.log)
             Entry == [timbre : Nat \X Nat, data : Seq(Nat)]
  <2>c. r.lib.entries = i + 1 /\ r.lib.body = body /\ r.lib.log = log /\ r.hdr = G /\ r.err = 0
        /\ r.lib = [filename |-> r.lib.filename, entries |-> r.lib.entries,
                    body |-> r.lib.body, log |-> r.lib.log]
        /\ r = [lib |-> r.lib, hdr |-> r.hdr, err |-> r.err]
    BY <2>2 DEF L
  <2>10. Shaped(r)
    BY <2>5, <2>9, <2>c DEF Shaped
  <2>11. b \in Seq(Nat) /\ s.lib.log \in Seq(Entry) /\ n = i /\ s.hdr[i].offset = Len(b)
    BY DEF Stored, i
  <2>12. /\ body \in Seq(Nat) /\ Len(body) = Len(b) + Len(timb) + 2
         /\ \A j \in 1 .. Len(b) : body[j] = b[j]
         /\ At(body, Len(b), timb)
    BY <2>11, Written
  <2>13. /\ log \in Seq(Entry) /\ Len(log) = i + 1 /\ log[i + 1] = e
         /\ \A j \in 1 .. i : log[j] = s.lib.log[j]
    <3>1. e \in Entry
      OBVIOUS
    <3> DEFINE q == s.lib.log
    <3>2. q \in Seq(Entry) /\ log = Append(q, e) /\ i = Len(q)
      BY <2>11
    <3> HIDE DEF e, Entry, q, log
    <3>3. /\ log \in Seq(Entry) /\ Len(log) = i + 1 /\ log[i + 1] = e
          /\ \A j \in 1 .. i : log[j] = q[j]
      BY <3>1, <3>2, Appended
    <3> QED BY <3>3 DEF q
  <2>14. e.timbre = t /\ e.data = timb /\ <<h.bank, h.patch>> = t /\ h.offset = Len(b)
    BY <2>11 DEF h
  <2>15. y = Len(body)
    BY <2>11, <2>12 DEF y
  <2>16. G[i + 1].offset = Len(body)
    BY <2>8, <2>15
  <2> HIDE DEF body, log, e, b, n, y
  <2>17. ASSUME NEW k \in 1 .. i + 1
         PROVE  /\ <<G[k - 1].bank, G[k - 1].patch>> = log[k].timbre
                /\ At(body, G[k - 1].offset, log[k].data)
    <3>1. CASE k = i + 1
      <4>1. k - 1 = i
        BY <2>1, <3>1
      <4> QED BY <2>7, <2>12, <2>13, <2>14, <3>1, <4>1
    <3>2. CASE k # i + 1
      <4>1. k \in 1 .. i /\ k - 1 \in 0 .. i - 1
        BY <2>1, <3>2
      <4>2. G[k - 1] = s.hdr[k - 1] /\ log[k] = s.lib.log[k]
        BY <2>7, <2>13, <4>1
      <4>3. /\ <<s.hdr[k - 1].bank, s.hdr[k - 1].patch>> = s.lib.log[k].timbre
            /\ At(b, s.hdr[k - 1].offset, s.lib.log[k].data)
        BY <4>1 DEF Stored, i, b
      <4>4. s.lib.log[k] \in Entry
        <5>1. k \in 1 .. Len(s.lib.log)
          BY <2>11, <4>1 DEF n
        <5> HIDE DEF Entry
        <5> QED BY <2>11, <5>1, ElementOf
      <4>5. s.lib.log[k].data \in Seq(Nat)
        BY <4>4
      <4>6. Len(body) >= Len(b)
        BY <2>11, <2>12
      <4>7. At(body, s.hdr[k - 1].offset, s.lib.log[k].data)
        BY <2>11, <2>12, <4>3, <4>5, <4>6, AtGrows
      <4> QED BY <4>2, <4>3, <4>7
    <3> QED BY <3>1, <3>2
  <2>18. i + 1 \in 0 .. MaxTimbres
    BY <2>1
  <2> HIDE DEF Entry
  <2>d. /\ r.lib.entries \in 0 .. MaxTimbres
        /\ r.lib.body \in Seq(Nat)
        /\ r.lib.log \in Seq(Entry)
        /\ Len(r.lib.log) = r.lib.entries
        /\ r.hdr[r.lib.entries].offset = Len(r.lib.body)
    BY <2>12, <2>13, <2>16, <2>18, <2>c
  <2>e. \A k \in 1 .. r.lib.entries :
          /\ <<r.hdr[k - 1].bank, r.hdr[k - 1].patch>> = r.lib.log[k].timbre
          /\ At(r.lib.body, r.hdr[k - 1].offset, r.lib.log[k].data)
    BY <2>17, <2>c
  <2>19. Stored(r)
    BY <2>10, <2>d, <2>e DEF Stored, Entry
  <2> QED BY <2>19 DEF r
<1> QED BY <1>1, <1>2

(* All the timbres of an .MTB file, the k-th after the ones before it.     *)
Writes(s, t, timbs, f, m) ==
  f = [k \in 0 .. m |->
         IF k = 0 THEN s ELSE GTL_write_timbre(f[k - 1], NthPatch(t, k - 1), timbs[k])]

LEMMA WritesDefined ==
  ASSUME NEW s, NEW t, NEW timbs, NEW m \in Nat
  PROVE  \E f : Writes(s, t, timbs, f, m)
<1> DEFINE bad == {j \in Nat : ~ \E f : Writes(s, t, timbs, f, j)}
<1>1. SUFFICES ASSUME bad # {} PROVE FALSE
  OBVIOUS
<1>2. PICK j \in bad : \A x \in bad : j <= x
  <2>1. bad \in SUBSET Nat
    OBVIOUS
  <2> HIDE DEF bad
  <2> QED BY <1>1, <2>1, LeastMember
<1>3. CASE j = 0
  <2>1. Writes(s, t, timbs, [k \in 0 .. 0 |-> s], 0)
    BY DEF Writes
  <2> QED BY <1>2, <1>3, <2>1
<1>4. CASE j # 0
  <2> DEFINE n == j - 1
  <2>1. n \in Nat /\ j = n + 1 /\ n \notin bad
    <3>1. j \in Nat
      OBVIOUS
    <3> HIDE DEF bad
    <3> QED BY <1>2, <1>4, <3>1
  <2>2. PICK f : Writes(s, t, timbs, f, n)
    BY <2>1
  <2>3. \A k \in 0 .. n :
          f[k] = IF k = 0 THEN s ELSE GTL_write_timbre(f[k - 1], NthPatch(t, k - 1), timbs[k])
    BY <2>2 DEF Writes
  <2> DEFINE y == GTL_write_timbre(f[n], NthPatch(t, n), timbs[n + 1])
             g == [k \in 0 .. n + 1 |-> IF k = n + 1 THEN y ELSE f[k]]
  <2> HIDE DEF n
  <2>4. \A k \in 0 .. n : g[k] = f[k]
    BY <2>1
  <2>5. g[n + 1] = y
    BY <2>1
  <2>6. g = [k \in 0 .. n + 1 |-> g[k]]
    OBVIOUS
  <2> HIDE DEF g
  <2>7. ASSUME NEW k \in 0 .. n + 1
        PROVE  g[k] = IF k = 0 THEN s ELSE GTL_write_timbre(g[k - 1], NthPatch(t, k - 1), timbs[k])
    <3>1. CASE k = n + 1
      <4>1. k # 0 /\ k - 1 = n /\ g[n] = f[n]
        BY <2>1, <2>4, <3>1
      <4> QED BY <2>5, <3>1, <4>1
    <3>2. CASE k = 0
      <4>1. 0 \in 0 .. n
        BY <2>1
      <4> QED BY <2>3, <2>4, <3>2, <4>1
    <3>3. CASE k # n + 1 /\ k # 0
      <4>1. k \in 0 .. n /\ k - 1 \in 0 .. n
        BY <2>1, <3>3
      <4> QED BY <2>3, <2>4, <3>3, <4>1
    <3> QED BY <3>1, <3>2, <3>3
  <2>8. Writes(s, t, timbs, g, n + 1)
    BY <2>6, <2>7 DEF Writes
  <2> QED BY <1>2, <2>1, <2>8
<1> QED BY <1>3, <1>4

LEMMA Quotient ==
  ASSUME NEW a \in Nat, NEW b \in Nat \ {0}
  PROVE  a \div b \in Nat /\ a % b \in Nat
OBVIOUS

LEMMA NthPatchTyped ==
  ASSUME LibraryAssumption, NEW t \in Nat \X Nat, NEW k \in Nat
  PROVE  NthPatch(t, k) \in Nat \X Nat
<1>1. t[1] \in Nat /\ t[2] + k \in Nat /\ PatchCount \in Nat \ {0}
  BY DEF LibraryAssumption
<1> DEFINE x == t[2] + k
           P == PatchCount
<1>2. x \div P \in Nat /\ x % P \in Nat
  <2>1. x \in Nat /\ P \in Nat \ {0}
    BY <1>1
  <2> HIDE DEF x, P
  <2> QED BY <2>1, Quotient
<1>3. (t[1] + x \div P) % 256 \in Nat
  <2> DEFINE q == x \div P
  <2> HIDE DEF q
  <2>1. q \in Nat
    BY <1>2 DEF q
  <2> QED BY <1>1, <2>1
<1> QED BY <1>2, <1>3 DEF NthPatch

LEMMA WriteAllKeeps ==
  ASSUME LibraryAssumption, NEW s, Stored(s), NEW t \in Nat \X Nat, NEW timbs \in Seq(Seq(Nat))
  PROVE  Stored(GTL_write_MTB(s, t, timbs))
<1> DEFINE m == Len(timbs)
           after == CHOOSE f : f = [k \in 0 .. m |->
                      IF k = 0 THEN s
                      ELSE GTL_write_timbre(f[k - 1], NthPatch(t, k - 1), timbs[k])]
<1>0. m \in Nat
  OBVIOUS
<1>1. GTL_write_MTB(s, t, timbs) = after[m]
  BY DEF GTL_write_MTB
<1>2. Writes(s, t, timbs, after, m)
  <2>1. \E f : Writes(s, t, timbs, f, m)
    BY <1>0, WritesDefined
  <2>2. \E f : f = [k \in 0 .. m |->
                      IF k = 0 THEN s
                      ELSE GTL_write_timbre(f[k - 1], NthPatch(t, k - 1), timbs[k])]
    BY <2>1 DEF Writes
  <2>3. after = [k \in 0 .. m |->
                   IF k = 0 THEN s
                   ELSE GTL_write_timbre(after[k - 1], NthPatch(t, k - 1), timbs[k])]
    BY <2>2
  <2> HIDE DEF after
  <2> QED BY <2>3 DEF Writes
<1> HIDE DEF after
<1> DEFINE bad == {k \in 0 .. m : ~ Stored(after[k])}
<1>3. bad = {}
  <2>1. SUFFICES ASSUME bad # {} PROVE FALSE
    OBVIOUS
  <2>2. bad \in SUBSET Nat
    BY <1>0
  <2>3. PICK k \in bad : \A x \in bad : k <= x
    <3> HIDE DEF bad
    <3> QED BY <2>1, <2>2, LeastMember
  <2>4. k \in 0 .. m /\ ~ Stored(after[k])
    OBVIOUS
  <2>5. after[k] = IF k = 0 THEN s
                   ELSE GTL_write_timbre(after[k - 1], NthPatch(t, k - 1), timbs[k])
    BY <1>2, <2>4 DEF Writes
  <2>6. k # 0
    BY <2>4, <2>5
  <2>7. k - 1 \in 0 .. m /\ k - 1 \in Nat /\ k \in 1 .. m
    BY <1>0, <2>4, <2>6
  <2>8. Stored(after[k - 1])
    <3>1. k - 1 \notin bad
      <4> HIDE DEF bad
      <4> QED BY <2>3, <2>7
    <3> QED BY <2>7, <3>1
  <2>9. timbs[k] \in Seq(Nat)
    BY <2>7, ElementOf
  <2>10. NthPatch(t, k - 1) \in Nat \X Nat
    BY <2>7, NthPatchTyped
  <2> QED BY <2>4, <2>5, <2>6, <2>8, <2>9, <2>10, WriteKeeps
<1>4. m \in 0 .. m
  BY <1>0
<1> QED BY <1>1, <1>3, <1>4

(* A library is closed and the next begun, which has nothing yet.          *)
LEMMA CloseKeepsShape ==
  ASSUME LibraryAssumption, NEW s, Stored(s)
  PROVE  Shaped(GTL_close(s))
<1> DEFINE N == s.lib.entries
           off(i) == s.hdr[i].offset + HeaderBytes * N + 2
           H == [i \in DOMAIN s.hdr |->
                   IF i < N THEN [s.hdr[i] EXCEPT !.offset = off(i)] ELSE s.hdr[i]]
           r == GTL_close(s)
<1>1. /\ s = [lib |-> s.lib, hdr |-> s.hdr, err |-> s.err]
      /\ s.lib = [filename |-> s.lib.filename, entries |-> s.lib.entries,
                  body |-> s.lib.body, log |-> s.lib.log]
      /\ s.hdr = [i \in 0 .. MaxTimbres |-> s.hdr[i]]
      /\ \A i \in 0 .. MaxTimbres : IsHead(s.hdr[i])
  BY DEF Stored, Shaped
<1>2. r = [s EXCEPT !.hdr = H]
  BY DEF GTL_close
<1>3. DOMAIN s.hdr = 0 .. MaxTimbres
  BY <1>1
<1>4. ASSUME NEW i \in 0 .. MaxTimbres PROVE IsHead(H[i])
  <2>1. IsHead(s.hdr[i])
    BY <1>1
  <2>2. CASE i < N
    <3> DEFINE g == [s.hdr[i] EXCEPT !.offset = off(i)]
    <3>1. H[i] = g
      BY <1>3, <2>2
    <3> DEFINE x == s.hdr[i]
               a == x.bank
               p == x.patch
               o == x.offset
               y == off(i)
    <3>2. x = [bank |-> a, patch |-> p, offset |-> o] /\ g = [x EXCEPT !.offset = y]
      BY <2>1 DEF IsHead
    <3> HIDE DEF x, a, p, o, y, g, H
    <3>3. g = [bank |-> a, patch |-> p, offset |-> y]
      BY <3>2, Moved
    <3> QED BY <3>1, <3>3 DEF IsHead
  <2>3. CASE ~(i < N)
    BY <1>3, <2>1, <2>3
  <2> QED BY <2>2, <2>3
<1>5. H = [i \in 0 .. MaxTimbres |-> H[i]]
  BY <1>3
<1> HIDE DEF H, r
<1>6. r.lib = s.lib /\ r.hdr = H /\ r = [lib |-> r.lib, hdr |-> r.hdr, err |-> r.err]
  BY <1>1, <1>2
<1>7. Shaped(r)
  BY <1>1, <1>4, <1>5, <1>6 DEF Shaped
<1> QED BY <1>7 DEF r

LEMMA CreateStores ==
  ASSUME LibraryAssumption, NEW s, Shaped(s)
  PROVE  Stored(GTL_create(s))
<1> DEFINE r == GTL_create(s)
           L == [NoLibrary EXCEPT !.filename = s.lib.filename]
           g == [s.hdr[0] EXCEPT !.offset = 0]
           H == [s.hdr EXCEPT ![0] = g]
<1>1. r = [[s EXCEPT !.lib = L] EXCEPT !.hdr = H]
  BY DEF GTL_create, Shaped
<1>2. s = [lib |-> s.lib, hdr |-> s.hdr, err |-> s.err]
  BY DEF Shaped
<1>3. L = [filename |-> s.lib.filename, entries |-> 0, body |-> <<>>, log |-> <<>>]
  BY DEF NoLibrary
<1>4. /\ s.hdr = [i \in 0 .. MaxTimbres |-> s.hdr[i]]
      /\ \A i \in 0 .. MaxTimbres : IsHead(s.hdr[i])
  BY DEF Shaped
<1>5. MaxTimbres \in Nat /\ 0 \in 0 .. MaxTimbres
  BY DEF LibraryAssumption
<1>6. g = [bank |-> s.hdr[0].bank, patch |-> s.hdr[0].patch, offset |-> 0]
  <2> DEFINE x == s.hdr[0]
             a == x.bank
             p == x.patch
             o == x.offset
  <2>1. x = [bank |-> a, patch |-> p, offset |-> o] /\ g = [x EXCEPT !.offset = 0]
    BY <1>4, <1>5 DEF IsHead
  <2> HIDE DEF x, a, p, o, g
  <2>2. g = [bank |-> a, patch |-> p, offset |-> 0]
    BY <2>1, Moved
  <2> QED BY <2>2 DEF a, p, x
<1>7. H = [s.hdr EXCEPT ![0] = g]
  OBVIOUS
<1> HIDE DEF g, H, L, r
<1>8. /\ H = [i \in 0 .. MaxTimbres |-> H[i]] /\ H[0] = g
      /\ \A i \in 0 .. MaxTimbres : i # 0 => H[i] = s.hdr[i]
  BY <1>4, <1>5, <1>7, Updated
<1>9. r = [lib |-> L, hdr |-> H, err |-> s.err]
  BY <1>1, <1>2
<1>10. /\ r.lib = L /\ r.hdr = H /\ r = [lib |-> r.lib, hdr |-> r.hdr, err |-> r.err]
       /\ r.lib = [filename |-> r.lib.filename, entries |-> r.lib.entries,
                   body |-> r.lib.body, log |-> r.lib.log]
       /\ r.lib.entries = 0 /\ r.lib.body = <<>> /\ r.lib.log = <<>>
  BY <1>3, <1>9
<1>11. \A i \in 0 .. MaxTimbres : IsHead(H[i])
  <2> TAKE i \in 0 .. MaxTimbres
  <2>1. CASE i = 0
    BY <1>6, <1>8, <2>1 DEF IsHead
  <2>2. CASE i # 0
    BY <1>4, <1>8, <2>2
  <2> QED BY <2>1, <2>2
<1>12. Shaped(r)
  BY <1>8, <1>10, <1>11 DEF Shaped
<1> DEFINE Entry == [timbre : Nat \X Nat, data : Seq(Nat)]
<1>13. r.lib.body \in Seq(Nat) /\ r.lib.log \in Seq(Entry)
       /\ Len(r.lib.log) = r.lib.entries /\ Len(r.lib.body) = 0
       /\ 1 .. r.lib.entries = {}
  <2> HIDE DEF Entry
  <2> QED BY <1>10
<1>14. r.hdr[r.lib.entries].offset = Len(r.lib.body)
  BY <1>6, <1>8, <1>10, <1>13
<1>15. r.lib.entries \in 0 .. MaxTimbres
  BY <1>5, <1>10
<1>16. \A n \in 1 .. r.lib.entries :
       /\ <<r.hdr[n - 1].bank, r.hdr[n - 1].patch>> = r.lib.log[n].timbre
       /\ At(r.lib.body, r.hdr[n - 1].offset, r.lib.log[n].data)
  BY <1>13
<1>17. Stored(r)
  BY <1>12, <1>13, <1>14, <1>15, <1>16 DEF Stored
<1> QED BY <1>17 DEF r

----------------------------------------------------------------------------
(* What is made of an instrument are bytes.                                *)
LEMMA Joined ==
  ASSUME NEW U, NEW s \in Seq(U), NEW t \in Seq(U)
  PROVE  s \o t \in Seq(U)
OBVIOUS

LEMMA OneByte ==
  ASSUME NEW a \in Nat
  PROVE  <<a>> \in Seq(Nat)
OBVIOUS

LEMMA FiveBytes ==
  ASSUME NEW a \in Nat, NEW b \in Nat, NEW c \in Nat, NEW d \in Nat, NEW e \in Nat
  PROVE  <<a, b, c, d, e>> \in Seq(Nat)
OBVIOUS

LEMMA Op1Bytes ==
  ASSUME NEW o \in Operator
  PROVE  Op1(o) \in Seq(Nat)
<1>1. /\ o.freq_mult \in Nat /\ o.env_scaling \in Nat /\ o.sustain_sound \in Nat
      /\ o.amp_vib \in Nat /\ o.pitch_vib \in Nat /\ o.out_lvl \in Nat /\ o.key_scale_lvl \in Nat
      /\ o.decay \in Nat /\ o.attack \in Nat /\ o.release \in Nat /\ o.sustain_lvl \in Nat
      /\ o.waveform \in Nat
  BY DEF Operator
<1> DEFINE a == (o.freq_mult % 16) + Flag(o.env_scaling, 16) + Flag(o.sustain_sound, 32)
                  + Flag(o.amp_vib, 64) + Flag(o.pitch_vib, 128)
           b == ((o.out_lvl % 64) + 64 * o.key_scale_lvl) % 256
           c == (o.decay % 16) + 16 * (o.attack % 16)
           d == (o.release % 16) + 16 * (o.sustain_lvl % 16)
<1>2. /\ Flag(o.env_scaling, 16) \in Nat /\ Flag(o.sustain_sound, 32) \in Nat
      /\ Flag(o.amp_vib, 64) \in Nat /\ Flag(o.pitch_vib, 128) \in Nat
  BY DEF Flag
<1>3. a \in Nat
  BY <1>1, <1>2
<1>4. b \in Nat
  BY <1>1
<1>5. c \in Nat /\ d \in Nat
  BY <1>1
<1>6. Op1(o) = <<a, b, c, d, o.waveform>>
  BY DEF Op1
<1> HIDE DEF a, b, c, d
<1> QED BY <1>1, <1>3, <1>4, <1>5, <1>6, FiveBytes

LEMMA Op2Bytes ==
  ASSUME NEW o \in [1 .. 5 -> Nat]
  PROVE  Op2(o) \in Seq(Nat)
<1>1. o[1] \in Nat /\ o[2] \in Nat /\ o[3] \in Nat /\ o[4] \in Nat /\ o[5] % 8 \in Nat
  OBVIOUS
<1> QED BY <1>1, FiveBytes DEF Op2

LEMMA OldBytes ==
  ASSUME NEW i \in OldInstrument
  PROVE  BNK1_to_AD(i) \in Seq(Nat)
<1>1. i.mod \in Operator /\ i.car \in Operator /\ i.feedback \in Nat /\ i.connection \in Nat
  BY DEF OldInstrument
<1> DEFINE x == 2 * (i.feedback % 8) + (1 - (i.connection % 2))
<1>2. x \in Nat
  BY <1>1
<1>3. Op1(i.mod) \in Seq(Nat) /\ Op1(i.car) \in Seq(Nat)
  BY <1>1, Op1Bytes
<1>4. BNK1_to_AD(i) = Op1(i.mod) \o <<x>> \o Op1(i.car)
  BY DEF BNK1_to_AD
<1> DEFINE m == Op1(i.mod)
           c == Op1(i.car)
           y == <<x>>
<1>5. m \in Seq(Nat) /\ y \in Seq(Nat) /\ c \in Seq(Nat) /\ BNK1_to_AD(i) = (m \o y) \o c
  BY <1>2, <1>3, <1>4, OneByte
<1> HIDE DEF m, y, c, x
<1>6. m \o y \in Seq(Nat)
  BY <1>5, Joined
<1> QED BY <1>5, <1>6, Joined

LEMMA NewBytes ==
  ASSUME NEW i \in NewInstrument
  PROVE  BNK2_to_AD(i) \in Seq(Nat) /\ BNK2_to_OPL3(i) \in Seq(Nat)
<1>1. i.ops[1] \in [1 .. 5 -> Nat] /\ i.ops[2] \in [1 .. 5 -> Nat]
      /\ i.ops[3] \in [1 .. 5 -> Nat] /\ i.ops[4] \in [1 .. 5 -> Nat] /\ i.C4xxxFFFC \in Nat
  BY DEF NewInstrument
<1> DEFINE a == Op2(i.ops[1])
           b == Op2(i.ops[2])
           c == Op2(i.ops[3])
           d == Op2(i.ops[4])
           x == <<i.C4xxxFFFC % 16>>
           y == <<(i.C4xxxFFFC % 16) + 128 * (i.C4xxxFFFC \div 128)>>
           z == <<0>>
<1>2. a \in Seq(Nat) /\ b \in Seq(Nat) /\ c \in Seq(Nat) /\ d \in Seq(Nat)
  BY <1>1, Op2Bytes
<1>3. x \in Seq(Nat) /\ y \in Seq(Nat) /\ z \in Seq(Nat)
  <2>1. i.C4xxxFFFC % 16 \in Nat /\ (i.C4xxxFFFC % 16) + 128 * (i.C4xxxFFFC \div 128) \in Nat
    BY <1>1
  <2> QED BY <2>1, OneByte
<1>4. BNK2_to_AD(i) = (a \o x) \o b /\ BNK2_to_OPL3(i) = ((((a \o y) \o b) \o c) \o z) \o d
  BY DEF BNK2_to_AD, BNK2_to_OPL3
<1> HIDE DEF a, b, c, d, x, y, z
<1>5. (a \o x) \o b \in Seq(Nat)
  BY <1>2, <1>3, Joined
<1>6. (((a \o y) \o b) \o c) \o z \in Seq(Nat)
  <2>1. a \o y \in Seq(Nat)
    BY <1>2, <1>3, Joined
  <2>2. (a \o y) \o b \in Seq(Nat)
    BY <1>2, <2>1, Joined
  <2>3. ((a \o y) \o b) \o c \in Seq(Nat)
    BY <1>2, <2>2, Joined
  <2> QED BY <1>3, <2>3, Joined
<1>7. ((((a \o y) \o b) \o c) \o z) \o d \in Seq(Nat)
  BY <1>2, <1>6, Joined
<1> QED BY <1>4, <1>5, <1>7

(* The instrument of that title. *)
LEMMA TitledFound ==
  ASSUME NEW index, NEW title, DOMAIN index \subseteq Nat, Titled(index, title) # {}
  PROVE  \E n \in DOMAIN index : find_instrument(index, title) = index[n].inst
<1> DEFINE T == Titled(index, title)
<1>1. T \in SUBSET Nat /\ T \subseteq DOMAIN index /\ T # {}
  BY DEF Titled
<1> HIDE DEF T
<1>2. Min(T) \in T
  BY <1>1, LeastMember
<1>3. find_instrument(index, title) = index[Min(T)].inst
  BY DEF find_instrument, T
<1> QED BY <1>1, <1>2, <1>3

LEMMA BankKeeps ==
  ASSUME LibraryAssumption, FilesAssumption, NEW f \in DOMAIN BnkFiles,
         NEW s, Stored(s), NEW t \in Nat \X Nat, NEW title, NEW txp \in Nat
  PROVE  Stored(IF BnkFiles[f].type = 1
                THEN GTL_write_BNK1(s, t, BnkFiles[f].index, title, txp)
                ELSE GTL_write_BNK2(s, t, BnkFiles[f].index, title, txp))
<1> DEFINE index == BnkFiles[f].index
           inst == find_instrument(index, title)
<1>1. /\ DOMAIN index \subseteq Nat
      /\ \A n \in DOMAIN index :
           index[n].inst \in IF BnkFiles[f].type = 1 THEN OldInstrument ELSE NewInstrument
  BY DEF FilesAssumption
<1>2. ASSUME NEW x PROVE Stored([s EXCEPT !.err = x])
  <2> DEFINE r == [s EXCEPT !.err = x]
  <2>1. r.lib = s.lib /\ r.hdr = s.hdr /\ r = [lib |-> r.lib, hdr |-> r.hdr, err |-> r.err]
    <3>1. s = [lib |-> s.lib, hdr |-> s.hdr, err |-> s.err]
      BY DEF Stored, Shaped
    <3> QED BY <3>1
  <2> HIDE DEF r
  <2>2. Stored(r)
    BY <2>1 DEF Stored, Shaped
  <2> QED BY <2>2 DEF r
<1>3. CASE BnkFiles[f].type = 1
  <2>1. CASE Titled(index, title) = {}
    BY <1>2, <1>3, <2>1 DEF GTL_write_BNK1
  <2>2. CASE Titled(index, title) # {}
    <3>1. inst \in OldInstrument
      BY <1>1, <1>3, <2>2, TitledFound
    <3> DEFINE timb == <<txp>> \o BNK1_to_AD(inst)
    <3>2. timb \in Seq(Nat)
      <4>1. <<txp>> \in Seq(Nat) /\ BNK1_to_AD(inst) \in Seq(Nat)
        BY <3>1, OldBytes, OneByte
      <4> QED BY <4>1, Joined
    <3>3. GTL_write_BNK1(s, t, index, title, txp)
            = IF inst.voice_num # 0 THEN [s EXCEPT !.err = 22] ELSE GTL_write_timbre(s, t, timb)
      BY <2>2 DEF GTL_write_BNK1
    <3> HIDE DEF timb, inst
    <3>4. Stored(GTL_write_timbre(s, t, timb))
      BY <3>2, WriteKeeps
    <3> DEFINE wrong == [s EXCEPT !.err = 22]
               right == GTL_write_timbre(s, t, timb)
    <3>5. Stored(wrong) /\ Stored(right)
      BY <1>2, <3>4
    <3>6. GTL_write_BNK1(s, t, index, title, txp) = wrong
          \/ GTL_write_BNK1(s, t, index, title, txp) = right
      BY <3>3
    <3> HIDE DEF wrong, right
    <3>7. Stored(GTL_write_BNK1(s, t, index, title, txp))
      BY <3>5, <3>6
    <3> QED BY <1>3, <3>7
  <2> QED BY <2>1, <2>2
<1>4. CASE BnkFiles[f].type # 1
  <2>1. CASE Titled(index, title) = {}
    BY <1>2, <1>4, <2>1 DEF GTL_write_BNK2
  <2>2. CASE Titled(index, title) # {}
    <3>1. inst \in NewInstrument
      BY <1>1, <1>4, <2>2, TitledFound
    <3> DEFINE regs == IF inst.fourop THEN BNK2_to_OPL3(inst) ELSE BNK2_to_AD(inst)
               timb == <<(txp + inst.transpose) % 256>> \o regs
    <3>2. timb \in Seq(Nat)
      <4>1. regs \in Seq(Nat)
        BY <3>1, NewBytes
      <4>2. (txp + inst.transpose) % 256 \in Nat
        <5>1. inst.transpose \in Nat
          BY <3>1 DEF NewInstrument
        <5> HIDE DEF inst
        <5> QED BY <5>1
      <4>3. <<(txp + inst.transpose) % 256>> \in Seq(Nat)
        BY <4>2, OneByte
      <4> QED BY <4>1, <4>3, Joined
    <3>3. GTL_write_BNK2(s, t, index, title, txp)
            = IF inst.percussive THEN [s EXCEPT !.err = 22] ELSE GTL_write_timbre(s, t, timb)
      BY <2>2 DEF GTL_write_BNK2
    <3> HIDE DEF timb, inst
    <3>4. Stored(GTL_write_timbre(s, t, timb))
      BY <3>2, WriteKeeps
    <3> QED BY <1>2, <1>4, <3>3, <3>4
  <2> QED BY <2>1, <2>2
<1> QED BY <1>3, <1>4

(* Whatever a line assigns is stored. *)
LEMMA AssignKeeps ==
  ASSUME LibraryAssumption, FilesAssumption, LinesAssumption,
         NEW l \in Lines, l.lv.t = "timbre", LineError(l) = 0,
         NEW s, Stored(s), l.rv.t = "BNK_inst" => BNK.file \in DOMAIN BnkFiles
  PROVE  Stored(Assigned(l, s))
<1> DEFINE t == <<l.lv.args[1], l.lv.args[2]>>
           a == l.rv.args[1]
<1>1. t \in Nat \X Nat /\ (l.rv.t = "BNK_inst" => l.rv.args[2] \in Nat)
  BY DEF LinesAssumption
<1>2. l.rv.t \in {"BIN_file", "MTB_file", "BNK_inst"}
  BY SourceKnown
<1>3. Stored([s EXCEPT !.err = 20])
  <2> DEFINE r == [s EXCEPT !.err = 20]
  <2>1. r.lib = s.lib /\ r.hdr = s.hdr /\ r = [lib |-> r.lib, hdr |-> r.hdr, err |-> r.err]
    <3>1. s = [lib |-> s.lib, hdr |-> s.hdr, err |-> s.err]
      BY DEF Stored, Shaped
    <3> QED BY <3>1
  <2> HIDE DEF r
  <2>2. Stored(r)
    BY <2>1 DEF Stored, Shaped
  <2> QED BY <2>2 DEF r
<1>4. CASE l.rv.t = "BIN_file"
  <2>1. Assigned(l, s) = IF a \in DOMAIN BinFiles THEN GTL_write_timbre(s, t, BinFiles[a])
                         ELSE [s EXCEPT !.err = 20]
    BY <1>4 DEF Assigned
  <2>2. a \in DOMAIN BinFiles => BinFiles[a] \in Seq(Nat)
    BY DEF FilesAssumption
  <2> HIDE DEF a, t
  <2> QED BY <1>1, <1>3, <2>1, <2>2, WriteKeeps
<1>5. CASE l.rv.t = "MTB_file"
  <2>1. Assigned(l, s) = IF a \in DOMAIN MtbFiles THEN GTL_write_MTB(s, t, MtbFiles[a])
                         ELSE [s EXCEPT !.err = 20]
    BY <1>5 DEF Assigned
  <2>2. a \in DOMAIN MtbFiles => MtbFiles[a] \in Seq(Seq(Nat))
    BY DEF FilesAssumption
  <2> HIDE DEF a, t
  <2> QED BY <1>1, <1>3, <2>1, <2>2, WriteAllKeeps
<1>6. CASE l.rv.t = "BNK_inst"
  <2> DEFINE bnk == BnkFiles[BNK.file]
             x == l.rv.args[2]
  <2>1. Assigned(l, s) = IF bnk.type = 1 THEN GTL_write_BNK1(s, t, bnk.index, a, x)
                         ELSE GTL_write_BNK2(s, t, bnk.index, a, x)
    BY <1>6 DEF Assigned
  <2>2. BNK.file \in DOMAIN BnkFiles /\ x \in Nat
    BY <1>1, <1>6
  <2>3. Stored(IF bnk.type = 1 THEN GTL_write_BNK1(s, t, bnk.index, a, x)
               ELSE GTL_write_BNK2(s, t, bnk.index, a, x))
    <3> HIDE DEF a, t, x
    <3> QED BY <1>1, <2>2, BankKeeps
  <2> QED BY <2>1, <2>3
<1> QED BY <1>2, <1>4, <1>5, <1>6

----------------------------------------------------------------------------
(* A library file and the assignments it was made from.                    *)
Assignment == [timbre : Nat \X Nat, data : Seq(Nat)]
Heading    == [bank : Nat, patch : Nat, offset : Nat]

Start(log) == HeaderBytes * Len(log) + 2

Kept(file, log) ==
  /\ log \in Seq(Assignment)
  /\ file.entries \in Seq(Heading) /\ Len(file.entries) = Len(log)
  /\ file.body \in Seq(Nat)
  /\ \A n \in 1 .. Len(log) :
       /\ <<file.entries[n].bank, file.entries[n].patch>> = log[n].timbre
       /\ At(file.body, file.entries[n].offset - Start(log), log[n].data)

LEMMA FunctionSeq ==
  ASSUME NEW N \in Nat, NEW U, NEW f, f = [i \in 1 .. N |-> f[i]], \A i \in 1 .. N : f[i] \in U
  PROVE  f \in Seq(U) /\ Len(f) = N
<1>1. f \in [1 .. N -> U]
  OBVIOUS
<1> QED BY <1>1

(* What is closed keeps what was stored. *)
LEMMA FileKept ==
  ASSUME LibraryAssumption, NEW s, Stored(s)
  PROVE  Kept(File(GTL_close(s)), s.lib.log)
<1> DEFINE N == s.lib.entries
           r == GTL_close(s)
           file == File(r)
           E == file.entries
           log == s.lib.log
           body == s.lib.body
           X == HeaderBytes * N + 2
<1>1. /\ log \in Seq(Assignment) /\ body \in Seq(Nat) /\ Len(log) = N /\ N \in 0 .. MaxTimbres
      /\ MaxTimbres \in Nat
      /\ s.hdr = [i \in 0 .. MaxTimbres |-> s.hdr[i]]
      /\ \A i \in 0 .. MaxTimbres : IsHead(s.hdr[i])
      /\ s = [lib |-> s.lib, hdr |-> s.hdr, err |-> s.err]
  BY DEF Stored, Shaped, Assignment, LibraryAssumption
<1>2. \A n \in 1 .. N :
        /\ <<s.hdr[n - 1].bank, s.hdr[n - 1].patch>> = log[n].timbre
        /\ At(body, s.hdr[n - 1].offset, log[n].data)
  BY DEF Stored
<1> DEFINE H == [i \in DOMAIN s.hdr |->
                   IF i < N THEN [s.hdr[i] EXCEPT !.offset = @ + HeaderBytes * N + 2] ELSE s.hdr[i]]
<1>3. r = [s EXCEPT !.hdr = H]
  BY DEF GTL_close
<1>4. r.lib = s.lib /\ r.hdr = H
  <2> HIDE DEF H, r
  <2> QED BY <1>1, <1>3
<1>5. file = [entries |-> [i \in 1 .. N |-> H[i - 1]], body |-> body]
  <2> HIDE DEF H, r
  <2> QED BY <1>4 DEF File
<1> HIDE DEF file, r
<1>6. E = [i \in 1 .. N |-> H[i - 1]] /\ file.body = body
  BY <1>5
<1>7. N \in Nat /\ X \in Nat /\ X = Start(log)
  BY <1>1 DEF Start, HeaderBytes
<1>8. ASSUME NEW n \in 1 .. N
      PROVE  /\ E[n] \in Heading
             /\ <<E[n].bank, E[n].patch>> = log[n].timbre
             /\ At(body, E[n].offset - X, log[n].data)
  <2> DEFINE x == s.hdr[n - 1]
             a == x.bank
             p == x.patch
             o == x.offset
             y == o + HeaderBytes * N + 2
             g == [x EXCEPT !.offset = y]
  <2>1. n - 1 \in 0 .. MaxTimbres /\ n - 1 < N
    BY <1>1, <1>7
  <2>2. n - 1 \in DOMAIN s.hdr /\ IsHead(x)
    BY <1>1, <2>1
  <2>3. E[n] = g
    BY <1>6, <2>1, <2>2
  <2>4. x = [bank |-> a, patch |-> p, offset |-> o] /\ g = [x EXCEPT !.offset = y]
    BY <2>2 DEF IsHead
  <2>5. <<a, p>> = log[n].timbre /\ At(body, o, log[n].data)
    BY <1>2
  <2>6. log[n] \in Assignment
    BY <1>1, ElementOf
  <2>7. log[n].timbre \in Nat \X Nat
    BY <2>6 DEF Assignment
  <2>8. a \in Nat /\ p \in Nat
    BY <2>5, <2>7
  <2>9. o \in Nat
    BY <2>5 DEF At
  <2>10. y \in Nat /\ y - X = o
    BY <1>7, <2>9 DEF HeaderBytes
  <2> HIDE DEF x, a, p, o, y, g, E, X
  <2>11. g = [bank |-> a, patch |-> p, offset |-> y]
    BY <2>4, Moved
  <2> QED BY <2>3, <2>5, <2>8, <2>10, <2>11 DEF Heading
<1> HIDE DEF E, N, log, body, X, H
<1>9. E = [i \in 1 .. N |-> E[i]]
  BY <1>6
<1>10. E \in Seq(Heading) /\ Len(E) = N
  BY <1>7, <1>8, <1>9, FunctionSeq
<1>11. \A n \in 1 .. Len(log) :
         /\ <<E[n].bank, E[n].patch>> = log[n].timbre
         /\ At(file.body, E[n].offset - Start(log), log[n].data)
  BY <1>1, <1>6, <1>7, <1>8
<1>12. Kept(file, log)
  BY <1>1, <1>6, <1>10, <1>11 DEF Kept, E
<1> QED BY <1>12 DEF file, r, log

(* No timbre is of the bank that ends the search. *)
NoEnd(log) == \A n \in DOMAIN log : log[n].timbre[1] # EndBank

Assigning(log, t) == {k \in DOMAIN log : log[k].timbre = t}

(* The search stops at what was assigned, and nowhere else. *)
LEMMA HitsAssigned ==
  ASSUME NEW file, NEW log, Kept(file, log), NoEnd(log), NEW t
  PROVE  /\ Hits(file, t) = Assigning(log, t)
         /\ Assigning(log, t) \in SUBSET (1 .. Len(log))
<1> DEFINE E == file.entries
           N == Len(log)
           B == Len(file.body)
<1>1. /\ E \in Seq(Heading) /\ Len(E) = N /\ log \in Seq(Assignment) /\ file.body \in Seq(Nat)
      /\ \A n \in 1 .. N : /\ <<E[n].bank, E[n].patch>> = log[n].timbre
                           /\ At(file.body, E[n].offset - Start(log), log[n].data)
  BY DEF Kept
<1>2. N \in Nat /\ B \in Nat /\ DOMAIN E = 1 .. N /\ DOMAIN log = 1 .. N
  <2> HIDE DEF E
  <2> QED BY <1>1
<1>3. Start(log) = 6 * N + 2 /\ Size(file) = 6 * N + 2 + B
  BY <1>1 DEF Start, Size, HeaderBytes
<1> HIDE DEF E, N, B
<1>4. ASSUME NEW n \in 1 .. N
      PROVE  /\ E[n].bank # EndBank
             /\ E[n].offset > 0 /\ E[n].offset + 2 <= Size(file)
  <2>1. log[n] \in Assignment /\ E[n] \in Heading
    BY <1>1, <1>2, ElementOf DEF N
  <2>2. E[n].bank = log[n].timbre[1]
    BY <1>1
  <2>3. log[n].timbre[1] # EndBank
    BY <1>2 DEF NoEnd
  <2> DEFINE o == E[n].offset
             d == Len(log[n].data)
  <2>4. o - Start(log) \in Nat /\ o - Start(log) + d + 2 <= B
    BY <1>1 DEF At, B
  <2>5. o \in Nat /\ d \in Nat
    BY <2>1 DEF Heading, Assignment
  <2> HIDE DEF o, d
  <2>6. o > 0 /\ o + 2 <= Size(file)
    BY <1>2, <1>3, <2>4, <2>5
  <2> QED BY <2>2, <2>3, <2>6 DEF o
<1>5. ASSUME NEW i \in 1 .. N PROVE \A j \in 1 .. i : E[j].bank # EndBank
  <2>1. \A j \in 1 .. i : j \in 1 .. N
    BY <1>2
  <2> QED BY <1>4, <2>1
<1>6. Hits(file, t) = {i \in 1 .. N : <<E[i].bank, E[i].patch>> = t}
  BY <1>2, <1>4, <1>5 DEF Hits, E
<1>7. Assigning(log, t) = {k \in 1 .. N : log[k].timbre = t}
  BY <1>2 DEF Assigning
<1> QED BY <1>1, <1>6, <1>7 DEF N

(* The bytes at an entry are the data that was assigned. *)
LEMMA EntryRead ==
  ASSUME NEW file, NEW log, Kept(file, log), NEW n \in 1 .. Len(log)
  PROVE  /\ TimbreAt(file, file.entries[n].offset) = log[n].data
         /\ file.entries[n].offset \in Nat
<1> DEFINE E == file.entries
           body == file.body
           data == log[n].data
           d == Len(data)
           B == Len(body)
           y == E[n].offset
           o == y - Start(log)
           at == y - (HeaderBytes * Len(E) + 2) + 1
           last == at + body[at] + 256 * body[at + 1] - 1
<1>1. /\ E \in Seq(Heading) /\ Len(E) = Len(log) /\ log \in Seq(Assignment) /\ body \in Seq(Nat)
      /\ At(body, o, data)
  BY DEF Kept
<1>2. E[n] \in Heading /\ log[n] \in Assignment
  <2> HIDE DEF E
  <2>1. n \in 1 .. Len(E)
    BY <1>1
  <2> QED BY <1>1, <2>1, ElementOf
<1>3. y \in Nat /\ data \in Seq(Nat)
  BY <1>2 DEF Heading, Assignment
<1>4. d \in Nat /\ B \in Nat /\ Len(log) \in Nat /\ Start(log) \in Nat
  <2> HIDE DEF data, body
  <2> QED BY <1>1, <1>3 DEF Start, HeaderBytes
<1>5. at = o + 1
  BY <1>1, <1>3, <1>4 DEF Start, HeaderBytes
<1>6. /\ o \in Nat /\ o + d + 2 <= B
      /\ body[o + 1] + 256 * body[o + 2] = d + 2
      /\ \A j \in 1 .. d : body[o + 2 + j] = data[j]
  BY <1>1 DEF At
<1>7. TimbreAt(file, y) = IF at \notin 1 .. Len(body) - 1 \/ last > Len(body) THEN Null
                          ELSE SubSeq(body, at + 2, last)
  BY DEF TimbreAt
<1> HIDE DEF o, E, at
<1>8. at + 1 = o + 2 /\ at + 2 = o + 3 /\ at \in 1 .. B - 1
  BY <1>4, <1>5, <1>6
<1>9. body[at] + 256 * body[at + 1] = d + 2
  BY <1>5, <1>6, <1>8
<1>10. body[at] \in Nat /\ body[at + 1] \in Nat
  <2>1. at \in 1 .. Len(body) /\ at + 1 \in 1 .. Len(body)
    BY <1>4, <1>8
  <2> HIDE DEF body
  <2> QED BY <1>1, <2>1, ElementOf
<1>11. last = o + d + 2
  <2> DEFINE u == body[at]
             v == body[at + 1]
  <2>1. u + 256 * v = d + 2 /\ u \in Nat /\ v \in Nat /\ last = at + u + 256 * v - 1 /\ at = o + 1
    BY <1>5, <1>9, <1>10
  <2> HIDE DEF u, v, last, d
  <2> QED BY <1>4, <1>6, <2>1
<1> HIDE DEF last
<1>12. TimbreAt(file, y) = SubSeq(body, o + 3, o + d + 2)
  <2>1. ~(at \notin 1 .. B - 1 \/ last > B)
    <3> HIDE DEF d, B
    <3> QED BY <1>4, <1>6, <1>8, <1>11
  <2>2. TimbreAt(file, y) = SubSeq(body, at + 2, last)
    BY <1>7, <2>1
  <2> QED BY <1>8, <1>11, <2>2
<1>13. SubSeq(body, o + 3, o + d + 2) = data
  <2> DEFINE S == SubSeq(body, o + 3, o + d + 2)
             a == o + 3
             b == o + d + 2
  <2>1. a \in Int /\ b \in Int /\ \A i \in a .. b : i \in 1 .. B
    <3> HIDE DEF d, B
    <3> QED BY <1>4, <1>6
  <2>2. S \in Seq(Nat) /\ Len(S) = d /\ \A i \in 1 .. d : S[i] = body[a + i - 1]
    <3> HIDE DEF body, d
    <3>1. /\ SubSeq(body, a, b) \in Seq(Nat)
          /\ Len(SubSeq(body, a, b)) = IF a <= b THEN b - a + 1 ELSE 0
          /\ \A i \in 1 .. b - a + 1 : SubSeq(body, a, b)[i] = body[a + i - 1]
      <4>1. \A i \in a .. b : body[i] \in Nat
        BY <1>1, <2>1, ElementOf DEF B
      <4> HIDE DEF a, b
      <4> QED BY <2>1, <4>1, SubSeqProperties
    <3>2. b - a + 1 = d /\ (IF a <= b THEN b - a + 1 ELSE 0) = d
      BY <1>4, <1>6
    <3> QED BY <3>1, <3>2
  <2>3. \A i \in 1 .. d : S[i] = data[i]
    <3> TAKE i \in 1 .. d
    <3>1. a + i - 1 = o + 2 + i
      BY <1>4, <1>6
    <3> QED BY <1>6, <2>2, <3>1
  <2> HIDE DEF S
  <2>4. S \in Seq(Nat) /\ data \in Seq(Nat) /\ Len(S) = Len(data)
        /\ \A i \in 1 .. Len(S) : S[i] = data[i]
    BY <1>3, <2>2, <2>3
  <2> HIDE DEF data
  <2>5. S = data
    BY <2>4, SeqEqual
  <2> QED BY <2>5 DEF S
<1> QED BY <1>3, <1>12, <1>13 DEF E

----------------------------------------------------------------------------
(* The invariant of GLIB: what it writes, and what it wrote.               *)
DiskKept ==
  \A f \in LibFiles : disk[f] # Null => Kept(disk[f], written[f])

LibraryInv ==
  /\ Stored(Writer)
  /\ BNK = [file |-> BNK.file, freed |-> BNK.freed] /\ BNK.file \in DOMAIN BnkFiles \cup {Null}
  /\ disk = [f \in LibFiles |-> disk[f]] /\ written = [f \in LibFiles |-> written[f]]
  /\ DiskKept

LEMMA StoredAgain ==
  ASSUME NEW s, Stored(s), NEW r, r = [lib |-> s.lib, hdr |-> s.hdr, err |-> 0]
  PROVE  Stored(r)
<1>1. r.lib = s.lib /\ r.hdr = s.hdr /\ r = [lib |-> r.lib, hdr |-> r.hdr, err |-> r.err]
  OBVIOUS
<1> QED BY <1>1 DEF Stored, Shaped

LEMMA StoredRenamed ==
  ASSUME NEW s, Stored(s), NEW f, NEW r,
         r = [lib |-> [s.lib EXCEPT !.filename = f], hdr |-> s.hdr, err |-> 0]
  PROVE  Stored(r)
<1> DEFINE L == [s.lib EXCEPT !.filename = f]
<1>1. s.lib = [filename |-> s.lib.filename, entries |-> s.lib.entries,
               body |-> s.lib.body, log |-> s.lib.log]
  BY DEF Stored, Shaped
<1>2. /\ L = [filename |-> f, entries |-> s.lib.entries, body |-> s.lib.body, log |-> s.lib.log]
  BY <1>1
<1>3. r = [lib |-> L, hdr |-> s.hdr, err |-> 0]
  OBVIOUS
<1> HIDE DEF L
<1>4. /\ r.lib = [filename |-> r.lib.filename, entries |-> r.lib.entries,
                  body |-> r.lib.body, log |-> r.lib.log]
      /\ r.lib.entries = s.lib.entries /\ r.lib.body = s.lib.body /\ r.lib.log = s.lib.log
      /\ r.hdr = s.hdr /\ r = [lib |-> r.lib, hdr |-> r.hdr, err |-> r.err]
  BY <1>2, <1>3
<1> QED BY <1>4 DEF Stored, Shaped

LEMMA EmptyStored ==
  ASSUME LibraryAssumption, NEW r, r = [lib |-> NoLibrary, hdr |-> EmptyHeader, err |-> 0]
  PROVE  Stored(r)
<1>1. /\ r.lib = [filename |-> r.lib.filename, entries |-> r.lib.entries,
                  body |-> r.lib.body, log |-> r.lib.log]
      /\ r.lib.entries = 0 /\ r.lib.body = <<>> /\ r.lib.log = <<>>
      /\ r.hdr = EmptyHeader /\ r = [lib |-> r.lib, hdr |-> r.hdr, err |-> r.err]
  BY DEF NoLibrary
<1>2. /\ EmptyHeader = [i \in 0 .. MaxTimbres |-> EmptyHeader[i]]
      /\ \A i \in 0 .. MaxTimbres : IsHead(EmptyHeader[i])
      /\ EmptyHeader[0].offset = 0 /\ 0 \in 0 .. MaxTimbres
  BY DEF EmptyHeader, LibraryAssumption, IsHead
<1>3. Shaped(r)
  BY <1>1, <1>2 DEF Shaped
<1> DEFINE U == [timbre : Nat \X Nat, data : Seq(Nat)]
<1> HIDE DEF U
<1>4. r.lib.body \in Seq(Nat) /\ r.lib.log \in Seq(U) /\ Len(r.lib.log) = r.lib.entries
      /\ Len(r.lib.body) = 0 /\ 1 .. r.lib.entries = {}
  <2>1. \A b, g, e : b = <<>> /\ g = <<>> /\ e = 0 =>
          b \in Seq(Nat) /\ g \in Seq(U) /\ Len(g) = e /\ Len(b) = 0 /\ 1 .. e = {}
    OBVIOUS
  <2>2. r.lib.body = <<>> /\ r.lib.log = <<>> /\ r.lib.entries = 0
    BY <1>1
  <2> QED BY <2>1, <2>2, Zenon
<1>5. r.hdr[r.lib.entries].offset = Len(r.lib.body) /\ r.lib.entries \in 0 .. MaxTimbres
  BY <1>1, <1>2, <1>4
<1>6. \A n \in 1 .. r.lib.entries :
        /\ <<r.hdr[n - 1].bank, r.hdr[n - 1].patch>> = r.lib.log[n].timbre
        /\ At(r.lib.body, r.hdr[n - 1].offset, r.lib.log[n].data)
  BY <1>4
<1> QED BY <1>3, <1>4, <1>5, <1>6 DEF Stored, U

LEMMA LibraryStart ==
  ASSUME LibraryAssumption, LibraryInit
  PROVE  LibraryInv
<1>1. Stored(Writer)
  BY EmptyStored DEF Writer, LibraryInit
<1>2. BNK = [file |-> BNK.file, freed |-> BNK.freed] /\ BNK.file \in DOMAIN BnkFiles \cup {Null}
  BY DEF LibraryInit, NoBank
<1>3. /\ disk = [f \in LibFiles |-> disk[f]] /\ written = [f \in LibFiles |-> written[f]]
      /\ \A f \in LibFiles : disk[f] = Null
  BY DEF LibraryInit
<1> QED BY <1>1, <1>2, <1>3 DEF LibraryInv, DiskKept

(* The disk after a library was closed. *)
LEMMA ClosedKeeps ==
  ASSUME LibraryAssumption, LibraryInv, Closed
  PROVE  /\ disk' = [f \in LibFiles |-> disk'[f]] /\ written' = [f \in LibFiles |-> written'[f]]
         /\ DiskKept'
<1> DEFINE F == File(GTL_close(Writer))
<1>1. disk = [f \in LibFiles |-> disk[f]] /\ written = [f \in LibFiles |-> written[f]]
  BY DEF LibraryInv
<1>2. CASE GTL.filename = Null
  <2>1. disk' = disk /\ written' = written
    BY <1>2 DEF Closed
  <2> QED BY <1>1, <2>1 DEF LibraryInv, DiskKept
<1>3. CASE GTL.filename # Null
  <2>1. /\ disk' = [disk EXCEPT ![GTL.filename] = F]
        /\ written' = [written EXCEPT ![GTL.filename] = GTL.log]
    BY <1>3 DEF Closed
  <2>2. Kept(F, GTL.log)
    <3>1. Stored(Writer) /\ Writer.lib.log = GTL.log
      BY DEF LibraryInv, Writer
    <3> QED BY <3>1, FileKept
  <2> HIDE DEF F
  <2>3. disk' = [f \in LibFiles |-> disk'[f]] /\ written' = [f \in LibFiles |-> written'[f]]
    BY <1>1, <2>1
  <2>4. ASSUME NEW f \in LibFiles, disk'[f] # Null PROVE Kept(disk'[f], written'[f])
    <3>1. CASE f = GTL.filename
      <4>1. disk'[f] = F /\ written'[f] = GTL.log
        BY <1>1, <2>1, <3>1
      <4> QED BY <2>2, <4>1
    <3>2. CASE f # GTL.filename
      <4>1. disk'[f] = disk[f] /\ written'[f] = written[f]
        BY <1>1, <2>1, <3>2
      <4>2. Kept(disk[f], written[f])
        BY <2>4, <4>1 DEF LibraryInv, DiskKept
      <4> QED BY <4>1, <4>2
    <3> QED BY <3>1, <3>2
  <2> QED BY <2>3, <2>4 DEF DiskKept
<1> QED BY <1>2, <1>3

LEMMA SameDiskKept ==
  ASSUME LibraryInv, disk' = disk, written' = written
  PROVE  /\ disk' = [f \in LibFiles |-> disk'[f]] /\ written' = [f \in LibFiles |-> written'[f]]
         /\ DiskKept'
BY DEF LibraryInv, DiskKept

(* One lemma for each line. *)
LEMMA TimbreLineKeeps ==
  ASSUME LibraryAssumption, FilesAssumption, LinesAssumption, LibraryInv,
         NEW l \in Lines, timbre_line(l)
  PROVE  LibraryInv'
<1>1. /\ BNK' = BNK /\ disk' = disk /\ written' = written
      /\ l.lv.t = "timbre" /\ LineError(l) = 0
  BY DEF timbre_line
<1>2. Stored(Writer')
  <2>1. Stored(Writer)
    BY DEF LibraryInv
  <2>2. CASE UNCHANGED <<GTL, header>>
    BY <2>1, <2>2 DEF Writer
  <2>3. CASE ~ UNCHANGED <<GTL, header>>
    <3> DEFINE A == Assigned(l, Writer)
    <3>1. GTL' = A.lib /\ header' = A.hdr /\ (l.rv.t = "BNK_inst" => BNK.file # Null)
      BY <2>3 DEF timbre_line
    <3>2. l.rv.t = "BNK_inst" => BNK.file \in DOMAIN BnkFiles
      BY <3>1 DEF LibraryInv
    <3>3. Stored(A)
      BY <1>1, <2>1, <3>2, AssignKeeps
    <3> HIDE DEF A
    <3>4. Writer' = [lib |-> A.lib, hdr |-> A.hdr, err |-> 0]
      BY <3>1 DEF Writer
    <3> QED BY <3>3, <3>4, StoredAgain
  <2> QED BY <2>2, <2>3
<1>3. BNK' = [file |-> BNK'.file, freed |-> BNK'.freed] /\ BNK'.file \in DOMAIN BnkFiles \cup {Null}
  BY <1>1 DEF LibraryInv
<1> QED BY <1>1, <1>2, <1>3, SameDiskKept DEF LibraryInv

LEMMA BankLineKeeps ==
  ASSUME LibraryAssumption, LibraryInv, NEW l \in Lines, BNK_file_line(l)
  PROVE  LibraryInv'
<1>1. /\ GTL' = GTL /\ header' = header /\ disk' = disk /\ written' = written
      /\ BNK' = IF l.lv.args[1] \in DOMAIN BnkFiles
                THEN [file |-> l.lv.args[1], freed |-> FALSE] ELSE BNK
  BY DEF BNK_file_line
<1>2. Stored(Writer')
  BY <1>1 DEF LibraryInv, Writer
<1>3. BNK' = [file |-> BNK'.file, freed |-> BNK'.freed] /\ BNK'.file \in DOMAIN BnkFiles \cup {Null}
  BY <1>1 DEF LibraryInv
<1> QED BY <1>1, <1>2, <1>3, SameDiskKept DEF LibraryInv

LEMMA OutfileLineKeeps ==
  ASSUME LibraryAssumption, LibraryInv, NEW l \in Lines, outfile_line(l)
  PROVE  LibraryInv'
<1> DEFINE q == IF GTL.filename = Null THEN Writer ELSE GTL_close(Writer)
           s == GTL_create(q)
           f == l.lv.args[1]
<1>1. /\ Closed /\ GTL' = [s.lib EXCEPT !.filename = f] /\ header' = s.hdr
      /\ BNK' = [BNK EXCEPT !.freed = BNK.file # Null]
  BY DEF outfile_line
<1>2. Stored(s)
  <2>1. Stored(Writer)
    BY DEF LibraryInv
  <2>2. Shaped(Writer)
    BY <2>1 DEF Stored
  <2>3. Shaped(GTL_close(Writer))
    BY <2>1, CloseKeepsShape
  <2>4. Shaped(q)
    BY <2>2, <2>3
  <2> HIDE DEF q
  <2> QED BY <2>4, CreateStores
<1>3. Stored(Writer')
  <2> HIDE DEF s, f
  <2>1. Writer' = [lib |-> [s.lib EXCEPT !.filename = f], hdr |-> s.hdr, err |-> 0]
    BY <1>1 DEF Writer
  <2> QED BY <1>2, <2>1, StoredRenamed
<1>4. BNK' = [file |-> BNK'.file, freed |-> BNK'.freed] /\ BNK'.file \in DOMAIN BnkFiles \cup {Null}
  BY <1>1 DEF LibraryInv
<1> QED BY <1>1, <1>3, <1>4, ClosedKeeps DEF LibraryInv

LEMMA EndKeeps ==
  ASSUME LibraryAssumption, LibraryInv, end_of_catalog
  PROVE  LibraryInv'
<1>1. Closed /\ GTL' = NoLibrary /\ header' = EmptyHeader /\ BNK' = NoBank
  BY DEF end_of_catalog
<1>2. Stored(Writer')
  <2>1. Writer' = [lib |-> NoLibrary, hdr |-> EmptyHeader, err |-> 0]
    BY <1>1 DEF Writer
  <2> QED BY <2>1, EmptyStored
<1>3. BNK' = [file |-> BNK'.file, freed |-> BNK'.freed] /\ BNK'.file \in DOMAIN BnkFiles \cup {Null}
  BY <1>1 DEF NoBank
<1> QED BY <1>1, <1>2, <1>3, ClosedKeeps DEF LibraryInv

LEMMA LibraryStutter ==
  ASSUME LibraryInv, UNCHANGED <<GTL, header, BNK, disk, written>>
  PROVE  LibraryInv'
<1>1. GTL' = GTL /\ header' = header /\ BNK' = BNK /\ disk' = disk /\ written' = written
  OBVIOUS
<1>2. Stored(Writer')
  BY <1>1 DEF LibraryInv, Writer
<1>3. BNK' = [file |-> BNK'.file, freed |-> BNK'.freed] /\ BNK'.file \in DOMAIN BnkFiles \cup {Null}
  BY <1>1 DEF LibraryInv
<1> QED BY <1>1, <1>2, <1>3, SameDiskKept DEF LibraryInv

LEMMA LibraryNext ==
  ASSUME LibraryAssumption, FilesAssumption, LinesAssumption, LibraryInv, [Next]_vars
  PROVE  LibraryInv'
<1>1. CASE UNCHANGED <<GTL, header, BNK, disk, written>>
  BY <1>1, LibraryStutter
<1>2. CASE compile_GTL
  <2>1. ASSUME NEW l \in Lines, bad_line(l) PROVE LibraryInv'
    BY <2>1, LibraryStutter DEF bad_line
  <2>2. ASSUME NEW l \in Lines, timbre_line(l) PROVE LibraryInv'
    BY <2>2, TimbreLineKeeps
  <2>3. ASSUME NEW l \in Lines, BNK_file_line(l) PROVE LibraryInv'
    BY <2>3, BankLineKeeps
  <2>4. ASSUME NEW l \in Lines, outfile_line(l) PROVE LibraryInv'
    BY <2>4, OutfileLineKeeps
  <2>5. CASE end_of_catalog
    BY <2>5, EndKeeps
  <2>6. CASE freed_twice
    BY <2>6, LibraryStutter DEF freed_twice
  <2> QED BY <1>2, <2>1, <2>2, <2>3, <2>4, <2>5, <2>6 DEF compile_GTL
<1> QED BY <1>1, <1>2 DEF Next, vars, glib

(* The reader finds in a file what its library was assigned.               *)
LEMMA KeptReads ==
  ASSUME LibraryAssumption, NEW file, NEW log, Kept(file, log), NoEnd(log), NEW n \in DOMAIN log
  PROVE  LET firsts == Assigning(log, log[n].timbre)
             off == timbre_bank_find(file, log[n].timbre)
         IN  off # Null /\ TimbreAt(file, off) = log[Min(firsts)].data
<1> DEFINE t == log[n].timbre
           A == Assigning(log, t)
<1>1. Hits(file, t) = A /\ A \in SUBSET (1 .. Len(log))
  BY HitsAssigned
<1>2. n \in A
  BY DEF Assigning
<1> HIDE DEF A, t
<1>3. Len(log) \in Nat
  BY DEF Kept
<1>4. A \in SUBSET Nat /\ A # {}
  BY <1>1, <1>2, <1>3
<1>5. Min(A) \in A
  BY <1>4, LeastMember
<1>6. Min(A) \in 1 .. Len(log)
  BY <1>1, <1>5
<1>7. timbre_bank_find(file, t) = file.entries[Min(A)].offset
  BY <1>1, <1>2 DEF timbre_bank_find
<1>8. /\ TimbreAt(file, file.entries[Min(A)].offset) = log[Min(A)].data
      /\ file.entries[Min(A)].offset \in Nat
  BY <1>6, EntryRead
<1>9. timbre_bank_find(file, t) # Null /\ TimbreAt(file, timbre_bank_find(file, t)) = log[Min(A)].data
  BY <1>7, <1>8 DEF LibraryAssumption
<1> QED BY <1>9 DEF A, t

LEMMA LibraryInvReads ==
  ASSUME LibraryAssumption, LibraryInv
  PROVE  LibraryReads
<1> SUFFICES ASSUME NEW f \in LibFiles, disk[f] # Null,
                    \A n \in DOMAIN written[f] : written[f][n].timbre[1] # EndBank,
                    NEW n \in DOMAIN written[f]
             PROVE  LET w == written[f][n]
                        firsts == {k \in DOMAIN written[f] : written[f][k].timbre = w.timbre}
                        off == timbre_bank_find(disk[f], w.timbre)
                    IN  off # Null /\ TimbreAt(disk[f], off) = written[f][Min(firsts)].data
  BY DEF LibraryReads
<1>1. Kept(disk[f], written[f]) /\ NoEnd(written[f])
  BY DEF LibraryInv, DiskKept, NoEnd
<1>2. LET firsts == Assigning(written[f], written[f][n].timbre)
          off == timbre_bank_find(disk[f], written[f][n].timbre)
      IN  off # Null /\ TimbreAt(disk[f], off) = written[f][Min(firsts)].data
  BY <1>1, KeptReads
<1> QED BY <1>2 DEF Assigning


----------------------------------------------------------------------------
(* The player's importer.  What it takes from a bank are old instruments.  *)
Picks(b, f, m) ==
  f = [n \in 0 .. m |->
         IF n = 0 THEN <<>>
         ELSE f[n - 1] \o (IF b.index[n].used /\ b.index[n].inst.voice_num = 0
                           THEN <<b.index[n]>> ELSE <<>>)]

LEMMA PicksDefined ==
  ASSUME NEW b, NEW m \in Nat
  PROVE  \E f : Picks(b, f, m)
<1> DEFINE bad == {j \in Nat : ~ \E f : Picks(b, f, j)}
           more(n) == IF b.index[n].used /\ b.index[n].inst.voice_num = 0
                      THEN <<b.index[n]>> ELSE <<>>
<1>1. SUFFICES ASSUME bad # {} PROVE FALSE
  OBVIOUS
<1>2. PICK j \in bad : \A x \in bad : j <= x
  <2>1. bad \in SUBSET Nat
    OBVIOUS
  <2> HIDE DEF bad
  <2> QED BY <1>1, <2>1, LeastMember
<1>3. CASE j = 0
  <2>1. Picks(b, [k \in 0 .. 0 |-> <<>>], 0)
    BY DEF Picks
  <2> QED BY <1>2, <1>3, <2>1
<1>4. CASE j # 0
  <2> DEFINE n == j - 1
  <2>1. n \in Nat /\ j = n + 1 /\ n \notin bad
    <3>1. j \in Nat
      OBVIOUS
    <3> HIDE DEF bad
    <3> QED BY <1>2, <1>4, <3>1
  <2>2. PICK f : Picks(b, f, n)
    BY <2>1
  <2>3. \A k \in 0 .. n : f[k] = IF k = 0 THEN <<>> ELSE f[k - 1] \o more(k)
    BY <2>2 DEF Picks
  <2> DEFINE y == f[n] \o more(n + 1)
             g == [k \in 0 .. n + 1 |-> IF k = n + 1 THEN y ELSE f[k]]
  <2> HIDE DEF n
  <2>4. \A k \in 0 .. n : g[k] = f[k]
    BY <2>1
  <2>5. g[n + 1] = y
    <3> HIDE DEF y
    <3> QED BY <2>1
  <2>6. g = [k \in 0 .. n + 1 |-> g[k]]
    OBVIOUS
  <2> HIDE DEF g
  <2>7. ASSUME NEW k \in 0 .. n + 1
        PROVE  g[k] = IF k = 0 THEN <<>> ELSE g[k - 1] \o more(k)
    <3> HIDE DEF more
    <3>1. CASE k = n + 1
      <4>1. k # 0 /\ k - 1 = n /\ g[n] = f[n]
        BY <2>1, <2>4, <3>1
      <4> QED BY <2>5, <3>1, <4>1
    <3>2. CASE k = 0
      <4>1. 0 \in 0 .. n
        BY <2>1
      <4> QED BY <2>3, <2>4, <3>2, <4>1
    <3>3. CASE k # n + 1 /\ k # 0
      <4>1. k \in 0 .. n /\ k - 1 \in 0 .. n
        BY <2>1, <3>3
      <4> QED BY <2>3, <2>4, <3>3, <4>1
    <3> QED BY <3>1, <3>2, <3>3
  <2>8. Picks(b, g, n + 1)
    BY <2>6, <2>7 DEF Picks
  <2> QED BY <1>2, <2>1, <2>8
<1> QED BY <1>3, <1>4

OldEntries == {e \in {BnkFiles[f].index[n] : f \in DOMAIN BnkFiles, n \in Nat} : e.inst \in OldInstrument}

LEMMA UsableOld ==
  ASSUME FilesAssumption, NEW f \in DOMAIN BnkFiles, BnkFiles[f].type = 1
  PROVE  Usable(BnkFiles[f]) \in Seq(OldEntries)
<1> DEFINE b == BnkFiles[f]
           m == Len(b.index)
           among == CHOOSE g : g = [n \in 0 .. m |->
                      IF n = 0 THEN <<>>
                      ELSE g[n - 1] \o (IF b.index[n].used /\ b.index[n].inst.voice_num = 0
                                        THEN <<b.index[n]>> ELSE <<>>)]
<1>0. m \in Nat /\ DOMAIN b.index = 1 .. m
      /\ \A n \in 1 .. m : b.index[n].inst \in OldInstrument
  BY DEF FilesAssumption
<1>1. Usable(b) = among[m]
  BY DEF Usable
<1>2. Picks(b, among, m)
  <2>1. \E g : Picks(b, g, m)
    BY <1>0, PicksDefined
  <2>2. \E g : g = [n \in 0 .. m |->
                      IF n = 0 THEN <<>>
                      ELSE g[n - 1] \o (IF b.index[n].used /\ b.index[n].inst.voice_num = 0
                                        THEN <<b.index[n]>> ELSE <<>>)]
    BY <2>1 DEF Picks
  <2>3. among = [n \in 0 .. m |->
                   IF n = 0 THEN <<>>
                   ELSE among[n - 1] \o (IF b.index[n].used /\ b.index[n].inst.voice_num = 0
                                         THEN <<b.index[n]>> ELSE <<>>)]
    BY <2>2
  <2> HIDE DEF among
  <2> QED BY <2>3 DEF Picks
<1> HIDE DEF among
<1> DEFINE bad == {n \in 0 .. m : among[n] \notin Seq(OldEntries)}
<1>3. bad = {}
  <2>1. SUFFICES ASSUME bad # {} PROVE FALSE
    OBVIOUS
  <2>2. bad \in SUBSET Nat
    BY <1>0
  <2>3. PICK k \in bad : \A x \in bad : k <= x
    <3> HIDE DEF bad
    <3> QED BY <2>1, <2>2, LeastMember
  <2>4. k \in 0 .. m /\ among[k] \notin Seq(OldEntries)
    OBVIOUS
  <2> DEFINE more == IF b.index[k].used /\ b.index[k].inst.voice_num = 0
                     THEN <<b.index[k]>> ELSE <<>>
  <2>5. among[k] = IF k = 0 THEN <<>> ELSE among[k - 1] \o more
    BY <1>2, <2>4 DEF Picks
  <2>6. k # 0
    <3> HIDE DEF OldEntries
    <3>1. <<>> \in Seq(OldEntries)
      OBVIOUS
    <3> QED BY <2>4, <2>5, <3>1
  <2>7. k - 1 \in 0 .. m /\ k - 1 \in Nat /\ k \in 1 .. m
    BY <1>0, <2>4, <2>6
  <2>8. among[k - 1] \in Seq(OldEntries)
    <3>1. k - 1 \notin bad
      <4> HIDE DEF bad
      <4> QED BY <2>3, <2>7
    <3> QED BY <2>7, <3>1
  <2>9. b.index[k] \in OldEntries
    BY <1>0, <2>7 DEF OldEntries
  <2>10. more \in Seq(OldEntries)
    <3>1. \A e \in OldEntries : <<e>> \in Seq(OldEntries) /\ <<>> \in Seq(OldEntries)
      OBVIOUS
    <3> QED BY <2>9, <3>1
  <2> HIDE DEF more
  <2> QED BY <2>4, <2>5, <2>6, <2>8, <2>10, Joined
<1>4. m \in 0 .. m
  BY <1>0
<1> QED BY <1>1, <1>3, <1>4

(* Pieces of the same length, one behind the other. *)
LEMMA FlattenDefined ==
  ASSUME NEW c, NEW m \in Nat
  PROVE  \E f : f = [i \in 1 .. m |-> IF i = 1 THEN c[i] ELSE f[i - 1] \o c[i]]
<1> DEFINE P(f, j) == f = [i \in 1 .. j |-> IF i = 1 THEN c[i] ELSE f[i - 1] \o c[i]]
           bad == {j \in Nat : ~ \E f : P(f, j)}
<1>1. SUFFICES ASSUME bad # {} PROVE FALSE
  OBVIOUS
<1>2. PICK j \in bad : \A x \in bad : j <= x
  <2>1. bad \in SUBSET Nat
    OBVIOUS
  <2> HIDE DEF bad
  <2> QED BY <1>1, <2>1, LeastMember
<1>3. CASE j = 0
  <2> DEFINE g == [i \in 1 .. 0 |-> c[i]]
  <2>1. P(g, 0)
    OBVIOUS
  <2> HIDE DEF P
  <2> QED BY <1>2, <1>3, <2>1
<1>4. CASE j # 0
  <2> DEFINE n == j - 1
  <2>1. n \in Nat /\ j = n + 1 /\ n \notin bad
    <3>1. j \in Nat
      OBVIOUS
    <3> HIDE DEF bad
    <3> QED BY <1>2, <1>4, <3>1
  <2>2. PICK f : P(f, n)
    <3> HIDE DEF P
    <3> QED BY <2>1
  <2>3. \A k \in 1 .. n : f[k] = IF k = 1 THEN c[k] ELSE f[k - 1] \o c[k]
    BY <2>2
  <2> DEFINE y == IF n = 0 THEN c[1] ELSE f[n] \o c[n + 1]
             g == [k \in 1 .. n + 1 |-> IF k = n + 1 THEN y ELSE f[k]]
  <2> HIDE DEF n
  <2>4. \A k \in 1 .. n : g[k] = f[k]
    BY <2>1
  <2>5. g[n + 1] = y
    BY <2>1
  <2>6. g = [k \in 1 .. n + 1 |-> g[k]]
    OBVIOUS
  <2> HIDE DEF g
  <2>7. ASSUME NEW k \in 1 .. n + 1
        PROVE  g[k] = IF k = 1 THEN c[k] ELSE g[k - 1] \o c[k]
    <3>1. CASE k = n + 1 /\ n = 0
      BY <2>5, <3>1
    <3>2. CASE k = n + 1 /\ n # 0
      <4>1. k # 1 /\ k - 1 = n /\ g[n] = f[n]
        BY <2>1, <2>4, <3>2
      <4> QED BY <2>5, <3>2, <4>1
    <3>3. CASE k # n + 1 /\ k = 1
      <4>1. k \in 1 .. n
        BY <2>1, <3>3
      <4> QED BY <2>3, <2>4, <3>3, <4>1
    <3>4. CASE k # n + 1 /\ k # 1
      <4>1. k \in 1 .. n /\ k - 1 \in 1 .. n
        BY <2>1, <3>4
      <4> QED BY <2>3, <2>4, <3>4, <4>1
    <3> QED BY <3>1, <3>2, <3>3, <3>4
  <2>8. g = [k \in 1 .. n + 1 |-> IF k = 1 THEN c[k] ELSE g[k - 1] \o c[k]]
    BY <2>6, <2>7
  <2>9. P(g, n + 1)
    BY <2>8
  <2> HIDE DEF P
  <2> QED BY <1>2, <2>1, <2>9
<1> QED BY <1>3, <1>4

(* body is the concatenation of the n sequences of K numbers that c lists. *)
Tiled(body, c, K, n) ==
  /\ body \in Seq(Nat)
  /\ Len(body) = K * n
  /\ \A k \in 1 .. n, j \in 1 .. K : body[K * (k - 1) + j] = c[k][j]

LEMMA FlattenedTiles ==
  ASSUME NEW K \in Nat, NEW n \in Nat \ {0}, NEW c \in Seq(Seq(Nat)), Len(c) = n,
         \A k \in 1 .. n : Len(c[k]) = K
  PROVE  Tiled(FlattenSeq(c), c, K, n)
<1> DEFINE body == FlattenSeq(c)
           flat == CHOOSE f : f = [i \in 1 .. Len(c) |-> IF i = 1 THEN c[i] ELSE f[i - 1] \o c[i]]
<1>1. body = flat[n]
  <2>1. Len(c) # 0
    OBVIOUS
  <2> QED BY <2>1 DEF FlattenSeq
<1> HIDE DEF body
<1>2. flat = [i \in 1 .. n |-> IF i = 1 THEN c[i] ELSE flat[i - 1] \o c[i]]
  <2>1. \E f : f = [i \in 1 .. Len(c) |-> IF i = 1 THEN c[i] ELSE f[i - 1] \o c[i]]
    <3> HIDE DEF flat
    <3> QED BY FlattenDefined
  <2>2. flat = [i \in 1 .. Len(c) |-> IF i = 1 THEN c[i] ELSE flat[i - 1] \o c[i]]
    BY <2>1
  <2> HIDE DEF flat
  <2> QED BY <2>2
<1> HIDE DEF flat
<1>3. \A i \in 1 .. n : flat[i] = IF i = 1 THEN c[i] ELSE flat[i - 1] \o c[i]
  BY <1>2
<1>4. \A k \in 1 .. n : c[k] \in Seq(Nat) /\ Len(c[k]) = K
  BY ElementOf
<1> DEFINE Good(f, i) == /\ f \in Seq(Nat) /\ Len(f) = K * i
                         /\ \A k \in 1 .. i, j \in 1 .. K : f[K * (k - 1) + j] = c[k][j]
           bad == {i \in 1 .. n : ~ Good(flat[i], i)}
<1>5. bad = {}
  <2>1. SUFFICES ASSUME bad # {} PROVE FALSE
    OBVIOUS
  <2>2. bad \in SUBSET Nat
    OBVIOUS
  <2>3. PICK i \in bad : \A x \in bad : i <= x
    <3> HIDE DEF bad
    <3> QED BY <2>1, <2>2, LeastMember
  <2>4. i \in 1 .. n /\ ~ Good(flat[i], i)
    OBVIOUS
  <2>5. CASE i = 1
    <3>1. flat[1] = c[1] /\ 1 \in 1 .. n
      BY <1>3, <2>4, <2>5
    <3>2. Good(c[1], 1)
      <4>1. c[1] \in Seq(Nat) /\ Len(c[1]) = K * 1
        BY <1>4, <3>1
      <4>2. ASSUME NEW k \in 1 .. 1, NEW j \in 1 .. K
            PROVE  c[1][K * (k - 1) + j] = c[k][j]
        <5>1. k = 1 /\ K * (k - 1) + j = j
          OBVIOUS
        <5> QED BY <5>1
      <4> QED BY <4>1, <4>2
    <3> HIDE DEF Good
    <3> QED BY <2>4, <2>5, <3>1, <3>2
  <2>6. CASE i # 1
    <3> DEFINE h == i - 1
               f == flat[h]
               L == K * h
    <3>1. h \in 1 .. n /\ h \in Nat /\ i = h + 1 /\ i \in 1 .. n
      BY <2>4, <2>6
    <3>2. Good(f, h)
      <4>1. h \notin bad
        <5> HIDE DEF bad
        <5> QED BY <2>3, <3>1
      <4> HIDE DEF Good
      <4> QED BY <3>1, <4>1
    <3>3. flat[i] = f \o c[i]
      BY <1>3, <2>6, <3>1
    <3>4. L \in Nat /\ L + K = K * i
      BY <3>1
    <3> HIDE DEF f, h, L
    <3>5. c[i] \in Seq(Nat) /\ Len(c[i]) = K /\ f \in Seq(Nat) /\ Len(f) = L
      BY <1>4, <3>1, <3>2 DEF L
    <3>6. /\ flat[i] \in Seq(Nat) /\ Len(flat[i]) = Len(f) + Len(c[i])
          /\ \A j \in 1 .. Len(f) : flat[i][j] = f[j]
          /\ \A j \in 1 .. Len(c[i]) : flat[i][Len(f) + j] = c[i][j]
      <4> DEFINE t == c[i]
                 r == flat[i]
      <4>1. r = f \o t /\ t \in Seq(Nat) /\ f \in Seq(Nat)
        BY <3>3, <3>5
      <4> HIDE DEF t, r
      <4>2. /\ r \in Seq(Nat) /\ Len(r) = Len(f) + Len(t)
            /\ \A j \in 1 .. Len(f) : r[j] = f[j]
            /\ \A j \in 1 .. Len(t) : r[Len(f) + j] = t[j]
        BY <4>1, Concatenation
      <4> QED BY <4>2 DEF t, r
    <3>7. Len(flat[i]) = K * i
      BY <3>4, <3>5, <3>6
    <3>8. ASSUME NEW k \in 1 .. i, NEW j \in 1 .. K
          PROVE  flat[i][K * (k - 1) + j] = c[k][j]
      <4>1. CASE k = i
        <5>1. K * (k - 1) + j = L + j
          BY <3>1, <4>1 DEF L
        <5> QED BY <3>5, <3>6, <4>1, <5>1
      <4>2. CASE k # i
        <5> DEFINE p == K * (k - 1)
                   q == K * (h - k)
        <5>1. k \in 1 .. h /\ k - 1 \in Nat /\ h - k \in Nat
          BY <3>1, <4>2
        <5>2. p \in Nat /\ q \in Nat /\ p + K + q = L
          BY <3>1, <5>1 DEF L
        <5>3. f[p + j] = c[k][j]
          BY <3>2, <5>1
        <5> HIDE DEF p, q
        <5>4. p + j \in 1 .. L
          BY <3>4, <5>2
        <5>5. flat[i][p + j] = f[p + j]
          BY <3>5, <3>6, <5>4
        <5> QED BY <5>3, <5>5 DEF p
      <4> QED BY <4>1, <4>2
    <3>9. Good(flat[i], i)
      BY <3>6, <3>7, <3>8
    <3> HIDE DEF Good
    <3> QED BY <2>4, <3>9
  <2> QED BY <2>5, <2>6
<1>6. Good(flat[n], n)
  <2>1. n \in 1 .. n
    OBVIOUS
  <2> HIDE DEF Good
  <2> QED BY <1>5, <2>1
<1>7. Tiled(flat[n], c, K, n)
  BY <1>6 DEF Tiled
<1> QED BY <1>1, <1>7 DEF body

(* The two conversions of an old instrument agree. *)
LEMMA Op1Registers ==
  ASSUME NEW o \in Operator
  PROVE  Op1(o) \in Seq(Nat) /\ Len(Op1(o)) = 5
<1>1. Len(Op1(o)) = 5
  BY DEF Op1
<1> QED BY <1>1, Op1Bytes

Eleven(m, y, c, r) ==
  /\ r \in Seq(Nat) /\ Len(r) = 11 /\ r[6] = y[1]
  /\ \A i \in 1 .. 5 : r[i] = m[i]
  /\ \A i \in 7 .. 11 : r[i] = c[i - 6]

LEMMA ElevenBytes ==
  ASSUME NEW m \in Seq(Nat), NEW y \in Seq(Nat), NEW c \in Seq(Nat),
         NEW p, p = m \o y, NEW r, r = p \o c
  PROVE  Len(m) = 5 /\ Len(y) = 1 /\ Len(c) = 5 => Eleven(m, y, c, r)
<1>2. /\ p \in Seq(Nat) /\ Len(p) = Len(m) + Len(y)
      /\ \A i \in 1 .. Len(m) : p[i] = m[i]
      /\ \A i \in 1 .. Len(y) : p[Len(m) + i] = y[i]
  BY Concatenation
<1>3. /\ r \in Seq(Nat) /\ Len(r) = Len(p) + Len(c)
      /\ \A i \in 1 .. Len(p) : r[i] = p[i]
      /\ \A i \in 1 .. Len(c) : r[Len(p) + i] = c[i]
  <2>1. p \in Seq(Nat)
    BY <1>2
  <2> QED BY <2>1, Concatenation
<1>a. r \in Seq(Nat)
  BY <1>3
<1>4. SUFFICES ASSUME Len(m) = 5, Len(y) = 1, Len(c) = 5
               PROVE  Eleven(m, y, c, r)
  OBVIOUS
<1>5. Len(p) = 6 /\ 1 \in 1 .. Len(y)
  BY <1>2, <1>4
<1>6. p[6] = y[1]
  <2>1. Len(m) + 1 = 6
    BY <1>4
  <2>2. p[Len(m) + 1] = y[1]
    BY <1>2, <1>5
  <2> QED BY <2>1, <2>2
<1>7. Len(r) = 11 /\ r[6] = y[1]
  <2>1. Len(r) = 11 /\ 6 \in 1 .. Len(p)
    BY <1>3, <1>4, <1>5
  <2> QED BY <1>3, <1>6, <2>1
<1>8. ASSUME NEW i \in 1 .. 5 PROVE r[i] = m[i]
  <2>1. i \in 1 .. Len(m) /\ i \in 1 .. Len(p)
    BY <1>4, <1>5
  <2> QED BY <1>2, <1>3, <2>1
<1>9. ASSUME NEW i \in 7 .. 11 PROVE r[i] = c[i - 6]
  <2>1. i - 6 \in 1 .. Len(c) /\ Len(p) + (i - 6) = i
    BY <1>4, <1>5
  <2>2. r[Len(p) + (i - 6)] = c[i - 6]
    BY <1>3, <2>1
  <2> QED BY <2>1, <2>2
<1> QED BY <1>a, <1>7, <1>8, <1>9 DEF Eleven

LEMMA ConversionsAgree ==
  ASSUME NEW i \in OldInstrument
  PROVE  /\ bnk1_to_ad(i) \in Seq(Nat) /\ Len(bnk1_to_ad(i)) = 11
         /\ BNK1_to_AD(i) \in Seq(Nat) /\ Len(BNK1_to_AD(i)) = 11
         /\ \A k \in 1 .. 11 : bnk1_to_ad(i)[k] = BNK1_to_AD(i)[k]
<1>1. i.mod \in Operator /\ i.car \in Operator /\ i.feedback \in Nat /\ i.connection \in Nat
  BY DEF OldInstrument
<1> DEFINE m == Op1(i.mod)
           c == Op1(i.car)
           x == 2 * (i.feedback % 8) + (1 - (i.connection % 2))
           y == <<x>>
           z == (i.feedback % 8) * 2 + (IF i.connection % 2 = 1 THEN 0 ELSE 1)
           r == BNK1_to_AD(i)
           q == bnk1_to_ad(i)
<1>2. x \in Nat /\ x = z
  BY <1>1
<1>3. m \in Seq(Nat) /\ Len(m) = 5 /\ c \in Seq(Nat) /\ Len(c) = 5
  BY <1>1, Op1Registers
<1>4. r = (m \o y) \o c
  BY DEF BNK1_to_AD
<1>5. q = [k \in 1 .. 11 |-> CASE k <= 5 -> m[k] [] k = 6 -> z [] OTHER -> c[k - 6]]
  BY DEF bnk1_to_ad
<1>6. y = <<x>> /\ y \in Seq(Nat) /\ Len(y) = 1
  BY <1>2
<1> HIDE DEF m, c, x, y, z, r, q
<1>7. /\ r \in Seq(Nat) /\ Len(r) = 11 /\ r[6] = x
      /\ \A k \in 1 .. 5 : r[k] = m[k]
      /\ \A k \in 7 .. 11 : r[k] = c[k - 6]
  <2>1. m \in Seq(Nat) /\ c \in Seq(Nat) /\ y \in Seq(Nat) /\ y[1] = x
    BY <1>3, <1>6
  <2>2. Len(m) = 5 /\ Len(y) = 1 /\ Len(c) = 5 => Eleven(m, y, c, r)
    <3>1. PICK p : p = m \o y
      OBVIOUS
    <3>2. r = p \o c
      BY <1>4, <3>1
    <3> QED BY <2>1, <3>1, <3>2, ElevenBytes
  <2> QED BY <1>3, <1>6, <2>1, <2>2 DEF Eleven
<1>8. ASSUME NEW k \in 1 .. 11 PROVE q[k] = r[k]
  <2>1. CASE k <= 5
    <3>1. k \in 1 .. 5
      BY <2>1
    <3>2. q[k] = m[k]
      BY <1>5, <2>1
    <3> QED BY <1>7, <3>1, <3>2
  <2>2. CASE k = 6
    <3>1. ~(k <= 5)
      BY <2>2
    <3>2. q[k] = z
      BY <1>5, <2>2, <3>1
    <3> QED BY <1>2, <1>7, <2>2, <3>2
  <2>3. CASE ~(k <= 5) /\ k # 6
    <3>1. k \in 7 .. 11
      BY <2>3
    <3>2. q[k] = c[k - 6]
      BY <1>5, <2>3
    <3> QED BY <1>7, <3>1, <3>2
  <2> QED BY <2>1, <2>2, <2>3
<1>9. q = [k \in 1 .. 11 |-> q[k]]
  BY <1>5
<1>10. \A k \in 1 .. 11 : q[k] \in Nat
  <2>1. \A k \in 1 .. 11 : k \in 1 .. Len(r)
    BY <1>7
  <2> QED BY <1>7, <1>8, <2>1, ElementOf
<1>11. q \in Seq(Nat) /\ Len(q) = 11
  BY <1>9, <1>10, FunctionSeq
<1> QED BY <1>7, <1>8, <1>11 DEF q, r

(* An imported timbre, and what GLIB would write of the same instrument.   *)
Sixteen(h, a, r) ==
  /\ r \in Seq(Nat) /\ Len(r) = 16
  /\ \A i \in 1 .. 3 : r[i] = h[i]
  /\ \A i \in 4 .. 14 : r[i] = a[i - 3]

LEMMA SixteenBytes ==
  ASSUME NEW h \in Seq(Nat), NEW a \in Seq(Nat), NEW z \in Seq(Nat),
         NEW p, p = h \o a, NEW r, r = p \o z
  PROVE  Len(h) = 3 /\ Len(a) = 11 /\ Len(z) = 2 => Sixteen(h, a, r)
<1>1. /\ p \in Seq(Nat) /\ Len(p) = Len(h) + Len(a)
      /\ \A i \in 1 .. Len(h) : p[i] = h[i]
      /\ \A i \in 1 .. Len(a) : p[Len(h) + i] = a[i]
  BY Concatenation
<1>2. /\ r \in Seq(Nat) /\ Len(r) = Len(p) + Len(z)
      /\ \A i \in 1 .. Len(p) : r[i] = p[i]
  <2>1. p \in Seq(Nat)
    BY <1>1
  <2> QED BY <2>1, Concatenation
<1>3. r \in Seq(Nat)
  BY <1>2
<1>4. SUFFICES ASSUME Len(h) = 3, Len(a) = 11, Len(z) = 2
               PROVE  Sixteen(h, a, r)
  OBVIOUS
<1>5. Len(p) = 14
  BY <1>1, <1>4
<1>6. Len(r) = 16
  BY <1>2, <1>4, <1>5
<1>7. ASSUME NEW i \in 1 .. 3 PROVE r[i] = h[i]
  <2>1. i \in 1 .. Len(h) /\ i \in 1 .. Len(p)
    BY <1>4, <1>5
  <2> QED BY <1>1, <1>2, <2>1
<1>8. ASSUME NEW i \in 4 .. 14 PROVE r[i] = a[i - 3]
  <2>1. i - 3 \in 1 .. Len(a) /\ Len(h) + (i - 3) = i /\ i \in 1 .. Len(p)
    BY <1>4, <1>5
  <2>2. p[Len(h) + (i - 3)] = a[i - 3]
    BY <1>1, <2>1
  <2> QED BY <1>2, <2>1, <2>2
<1> QED BY <1>3, <1>6, <1>7, <1>8 DEF Sixteen

Twelve(z, a, r) ==
  /\ r \in Seq(Nat) /\ Len(r) = 12 /\ r[1] = z[1]
  /\ \A i \in 2 .. 12 : r[i] = a[i - 1]

LEMMA TwelveBytes ==
  ASSUME NEW z \in Seq(Nat), NEW a \in Seq(Nat), NEW r, r = z \o a
  PROVE  Len(z) = 1 /\ Len(a) = 11 => Twelve(z, a, r)
<1>1. /\ r \in Seq(Nat) /\ Len(r) = Len(z) + Len(a)
      /\ \A i \in 1 .. Len(z) : r[i] = z[i]
      /\ \A i \in 1 .. Len(a) : r[Len(z) + i] = a[i]
  BY Concatenation
<1>2. r \in Seq(Nat)
  BY <1>1
<1>3. SUFFICES ASSUME Len(z) = 1, Len(a) = 11 PROVE Twelve(z, a, r)
  OBVIOUS
<1>4. Len(r) = 12
  BY <1>1, <1>3
<1>5. r[1] = z[1]
  <2>1. 1 \in 1 .. Len(z)
    BY <1>3
  <2> QED BY <1>1, <2>1
<1>6. ASSUME NEW i \in 2 .. 12 PROVE r[i] = a[i - 1]
  <2>1. i - 1 \in 1 .. Len(a) /\ Len(z) + (i - 1) = i
    BY <1>3
  <2>2. r[Len(z) + (i - 1)] = a[i - 1]
    BY <1>1, <2>1
  <2> QED BY <2>1, <2>2
<1> QED BY <1>2, <1>4, <1>5, <1>6 DEF Twelve

LEMMA ThreeBytes ==
  ASSUME NEW a \in Nat, NEW b \in Nat, NEW c \in Nat, NEW s, s = <<a, b, c>>
  PROVE  s \in Seq(Nat) /\ Len(s) = 3 /\ s[1] = a /\ s[2] = b /\ s[3] = c
OBVIOUS

LEMMA TwoBytes ==
  ASSUME NEW a \in Nat, NEW b \in Nat, NEW s, s = <<a, b>>
  PROVE  s \in Seq(Nat) /\ Len(s) = 2
OBVIOUS

LEMMA SingleByte ==
  ASSUME NEW a \in Nat, NEW s, s = <<a>>
  PROVE  s \in Seq(Nat) /\ Len(s) = 1 /\ s[1] = a
OBVIOUS

Piece(i) == <<14, 0, 0>> \o bnk1_to_ad(i) \o <<0, 0>>
Meant(i) == <<0>> \o BNK1_to_AD(i)

LEMMA PieceMeant ==
  ASSUME NEW i \in OldInstrument
  PROVE  /\ Piece(i) \in Seq(Nat) /\ Len(Piece(i)) = 16
         /\ Meant(i) \in Seq(Nat) /\ Len(Meant(i)) = 12
         /\ Piece(i)[1] = 14 /\ Piece(i)[2] = 0
         /\ \A j \in 1 .. 12 : Piece(i)[2 + j] = Meant(i)[j]
<1> DEFINE h == <<14, 0, 0>>
           a == bnk1_to_ad(i)
           b == BNK1_to_AD(i)
           z == <<0, 0>>
           y == <<0>>
           p == Piece(i)
           m == Meant(i)
<1>1. h \in Seq(Nat) /\ Len(h) = 3 /\ h[1] = 14 /\ h[2] = 0 /\ h[3] = 0
  BY ThreeBytes
<1>2. z \in Seq(Nat) /\ Len(z) = 2
  BY TwoBytes
<1>3. y \in Seq(Nat) /\ Len(y) = 1 /\ y[1] = 0
  BY SingleByte
<1>4. p = (h \o a) \o z /\ m = y \o b
  BY DEF Piece, Meant
<1>5. /\ a \in Seq(Nat) /\ Len(a) = 11 /\ b \in Seq(Nat) /\ Len(b) = 11
      /\ \A k \in 1 .. 11 : a[k] = b[k]
  BY ConversionsAgree
<1> HIDE DEF h, a, b, z, y, p, m
<1>6. Sixteen(h, a, p)
  <2>1. h \in Seq(Nat) /\ a \in Seq(Nat) /\ z \in Seq(Nat)
    BY <1>1, <1>2, <1>5
  <2>2. PICK q : q = h \o a
    OBVIOUS
  <2>3. p = q \o z
    BY <1>4, <2>2
  <2>4. Len(h) = 3 /\ Len(a) = 11 /\ Len(z) = 2 => Sixteen(h, a, p)
    BY <2>1, <2>2, <2>3, SixteenBytes
  <2> QED BY <1>1, <1>2, <1>5, <2>4
<1>7. Twelve(y, b, m)
  <2>1. y \in Seq(Nat) /\ b \in Seq(Nat) /\ m = y \o b
    BY <1>3, <1>4, <1>5
  <2>2. Len(y) = 1 /\ Len(b) = 11 => Twelve(y, b, m)
    BY <2>1, TwelveBytes
  <2> QED BY <1>3, <1>5, <2>2
<1>8. p[1] = 14 /\ p[2] = 0 /\ p[3] = 0
  <2>1. 1 \in 1 .. 3 /\ 2 \in 1 .. 3 /\ 3 \in 1 .. 3
    OBVIOUS
  <2> QED BY <1>1, <1>6, <2>1 DEF Sixteen
<1>9. ASSUME NEW j \in 1 .. 12 PROVE p[2 + j] = m[j]
  <2>1. CASE j = 1
    BY <1>3, <1>7, <1>8, <2>1 DEF Twelve
  <2>2. CASE j # 1
    <3>1. 2 + j \in 4 .. 14 /\ j \in 2 .. 12 /\ 2 + j - 3 = j - 1 /\ j - 1 \in 1 .. 11
      BY <2>2
    <3>2. p[2 + j] = a[j - 1]
      BY <1>6, <3>1 DEF Sixteen
    <3>3. m[j] = b[j - 1]
      BY <1>7, <3>1 DEF Twelve
    <3> QED BY <1>5, <3>1, <3>2, <3>3
  <2> QED BY <2>1, <2>2
<1> QED BY <1>6, <1>7, <1>8, <1>9 DEF Sixteen, Twelve, p, m

(* What the import of a bank stands for, as GLIB would have been told it.  *)
Import(U) ==
  [k \in 1 .. Len(U) |-> [timbre |-> <<0, k - 1>>, data |-> Meant(U[k].inst)]]

LEMMA ImportKept ==
  ASSUME NEW b, Usable(b) \in Seq(OldEntries), Usable(b) # <<>>
  PROVE  /\ Kept(load_bnk(b), Import(Usable(b)))
         /\ NoEnd(Import(Usable(b)))
         /\ Len(Import(Usable(b))) = Len(Usable(b))
<1> DEFINE U == Usable(b)
           n == Len(U)
           c == [k \in 1 .. n |-> Piece(U[k].inst)]
           E == [k \in 1 .. n |-> [bank   |-> 0, patch |-> k - 1,
                                   offset |-> HeaderBytes * n + 2 + 16 * (k - 1)]]
           body == FlattenSeq(c)
           log == Import(U)
           file == load_bnk(b)
<1>1. n \in Nat \ {0} /\ \A k \in 1 .. n : U[k].inst \in OldInstrument
  <2> DEFINE V == U
  <2>1. V \in Seq(OldEntries) /\ V # <<>>
    OBVIOUS
  <2> HIDE DEF V
  <2>2. Len(V) \in Nat \ {0}
    <3> HIDE DEF OldEntries
    <3> QED BY <2>1, EmptySeq
  <2>3. ASSUME NEW k \in 1 .. Len(V) PROVE V[k].inst \in OldInstrument
    <3>1. V[k] \in OldEntries
      BY <2>1, ElementOf
    <3> QED BY <3>1 DEF OldEntries
  <2> QED BY <2>2, <2>3 DEF V
<1>2. file = [entries |-> E, body |-> body]
  BY DEF load_bnk, Piece
<1> HIDE DEF U, file
<1>3. \A k \in 1 .. n : /\ Piece(U[k].inst) \in Seq(Nat) /\ Len(Piece(U[k].inst)) = 16
                        /\ Meant(U[k].inst) \in Seq(Nat) /\ Len(Meant(U[k].inst)) = 12
                        /\ Piece(U[k].inst)[1] = 14 /\ Piece(U[k].inst)[2] = 0
                        /\ \A j \in 1 .. 12 : Piece(U[k].inst)[2 + j] = Meant(U[k].inst)[j]
  BY <1>1, PieceMeant
<1>4. c \in Seq(Seq(Nat)) /\ Len(c) = n
  <2>1. c = [k \in 1 .. n |-> c[k]] /\ \A k \in 1 .. n : c[k] \in Seq(Nat)
    BY <1>3
  <2> HIDE DEF c, n
  <2> QED BY <1>1, <2>1, FunctionSeq
<1>5. \A k \in 1 .. n : c[k] = Piece(U[k].inst)
  OBVIOUS
<1> HIDE DEF c, n
<1>6. /\ body \in Seq(Nat) /\ Len(body) = 16 * n
      /\ \A k \in 1 .. n, j \in 1 .. 16 : body[16 * (k - 1) + j] = c[k][j]
  <2>1. \A k \in 1 .. n : Len(c[k]) = 16
    BY <1>3, <1>5
  <2> DEFINE K == 16
  <2>2. K \in Nat /\ \A k \in 1 .. n : Len(c[k]) = K
    BY <2>1
  <2>3. n \in Nat \ {0}
    BY <1>1
  <2> HIDE DEF K
  <2>4. Tiled(body, c, K, n)
    BY <1>4, <2>2, <2>3, FlattenedTiles
  <2> HIDE DEF body
  <2> QED BY <2>4 DEF Tiled, K
<1> HIDE DEF body
<1>7. E \in Seq(Heading) /\ Len(E) = n
  <2>1. \A k \in 1 .. n : E[k] \in Heading
    BY <1>1 DEF Heading, HeaderBytes
  <2>2. E = [k \in 1 .. n |-> E[k]]
    OBVIOUS
  <2> HIDE DEF E
  <2> QED BY <1>1, <2>1, <2>2, FunctionSeq
<1>8. /\ \A k \in 1 .. n : E[k].bank = 0 /\ E[k].patch = k - 1
      /\ \A k \in 1 .. n : E[k].offset = HeaderBytes * n + 2 + 16 * (k - 1)
  OBVIOUS
<1> HIDE DEF E
<1>9. \A k \in 1 .. n : log[k] = [timbre |-> <<0, k - 1>>, data |-> Meant(U[k].inst)]
  BY DEF Import, n
<1>a. \A k \in 1 .. n : log[k].timbre = <<0, k - 1>> /\ log[k].data = Meant(U[k].inst)
  <2> TAKE k \in 1 .. n
  <2> DEFINE M == Meant(U[k].inst)
             t == <<0, k - 1>>
             e == log[k]
  <2>1. e = [timbre |-> t, data |-> M]
    BY <1>9
  <2> HIDE DEF M, t, e
  <2>2. e.timbre = t /\ e.data = M
    BY <2>1
  <2> QED BY <2>2 DEF M, t, e
<1>10. log \in Seq(Assignment) /\ Len(log) = n
  <2>1. \A k \in 1 .. n : log[k] \in Assignment
    <3> TAKE k \in 1 .. n
    <3> DEFINE M == Meant(U[k].inst)
    <3>1. log[k] = [timbre |-> <<0, k - 1>>, data |-> M] /\ M \in Seq(Nat) /\ k - 1 \in Nat
      BY <1>1, <1>3, <1>9
    <3> HIDE DEF log, M
    <3> QED BY <3>1 DEF Assignment
  <2>2. log = [k \in 1 .. n |-> log[k]]
    BY DEF Import, n
  <2> HIDE DEF log
  <2> QED BY <1>1, <2>1, <2>2, FunctionSeq
<1> HIDE DEF log
<1>11. file.entries = E /\ file.body = body
  BY <1>2
<1>12. ASSUME NEW k \in 1 .. n
       PROVE  /\ <<E[k].bank, E[k].patch>> = log[k].timbre
              /\ At(body, E[k].offset - Start(log), log[k].data)
  <2> DEFINE o == 16 * (k - 1)
             P == Piece(U[k].inst)
             M == Meant(U[k].inst)
  <2>1. E[k].offset - Start(log) = o /\ o \in Nat /\ o + 16 <= 16 * n
    BY <1>1, <1>8, <1>10 DEF Start, HeaderBytes
  <2>2. \A j \in 1 .. 16 : body[o + j] = P[j]
    BY <1>5, <1>6
  <2>3. P[1] = 14 /\ P[2] = 0 /\ Len(M) = 12 /\ \A j \in 1 .. 12 : P[2 + j] = M[j]
    BY <1>3
  <2>4. log[k].timbre = <<0, k - 1>> /\ log[k].data = M
    BY <1>a
  <2> HIDE DEF o, P, M
  <2>5. body[o + 1] = 14 /\ body[o + 2] = 0
    <3>1. 1 \in 1 .. 16 /\ 2 \in 1 .. 16
      OBVIOUS
    <3> QED BY <2>2, <2>3, <3>1
  <2>6. ASSUME NEW j \in 1 .. 12 PROVE body[o + 2 + j] = M[j]
    <3>1. 2 + j \in 1 .. 16 /\ o + (2 + j) = o + 2 + j
      BY <2>1
    <3> QED BY <2>2, <2>3, <3>1
  <2>7. At(body, o, M)
    BY <1>1, <1>6, <2>1, <2>3, <2>5, <2>6 DEF At
  <2> QED BY <1>8, <2>1, <2>4, <2>7
<1>13. Kept(file, log)
  BY <1>6, <1>7, <1>10, <1>11, <1>12 DEF Kept
<1>14. NoEnd(log)
  <2>1. DOMAIN log = 1 .. n
    BY <1>10
  <2>2. \A k \in 1 .. n : log[k].timbre[1] = 0
    BY <1>a
  <2> QED BY <2>1, <2>2 DEF NoEnd, EndBank
<1> QED BY <1>10, <1>13, <1>14 DEF file, log, U, n

(* Each imported instrument is found, as the one GLIB would have written. *)
LEMMA ImportsDoAgree ==
  ASSUME LibraryAssumption, FilesAssumption
  PROVE  ImportsAgree
<1> SUFFICES ASSUME NEW b \in DOMAIN Imported, NEW k \in DOMAIN Usable(BnkFiles[b])
             PROVE  LET off == timbre_bank_find(Imported[b], <<0, k - 1>>)
                    IN  /\ off # Null
                        /\ TimbreAt(Imported[b], off)
                             = <<0>> \o BNK1_to_AD(Usable(BnkFiles[b])[k].inst)
  BY DEF ImportsAgree
<1> DEFINE U == Usable(BnkFiles[b])
           n == Len(U)
           log == Import(U)
           file == load_bnk(BnkFiles[b])
           t == <<0, k - 1>>
           A == Assigning(log, t)
<1>1. b \in DOMAIN BnkFiles /\ BnkFiles[b].type = 1 /\ U # <<>> /\ Imported[b] = file
  BY DEF Imported, Importable
<1>2. U \in Seq(OldEntries)
  BY <1>1, UsableOld
<1>3. Kept(file, log) /\ NoEnd(log) /\ Len(log) = n
  BY <1>1, <1>2, ImportKept
<1>4. n \in Nat /\ k \in 1 .. n
  <2> DEFINE V == U
  <2>1. V \in Seq(OldEntries) /\ k \in DOMAIN V
    BY <1>2
  <2> HIDE DEF V, OldEntries
  <2>2. Len(V) \in Nat /\ k \in 1 .. Len(V)
    BY <2>1
  <2> QED BY <2>2 DEF V
<1> HIDE DEF U, file
<1>5. DOMAIN log = 1 .. n /\ \A j \in 1 .. n : log[j].timbre = <<0, j - 1>>
  BY DEF Import
<1>6. log[k].data = Meant(U[k].inst) /\ log[k].timbre = t
  BY <1>4 DEF Import
<1> HIDE DEF log, n
<1>7. A = {k}
  BY <1>4, <1>5 DEF Assigning
<1>8. Min(A) = k
  <2> HIDE DEF A
  <2>1. A \in SUBSET Nat /\ A # {}
    BY <1>4, <1>7
  <2>2. Min(A) \in A
    BY <2>1, LeastMember
  <2> QED BY <1>7, <2>2
<1>9. LET off == timbre_bank_find(file, log[k].timbre)
      IN  off # Null /\ TimbreAt(file, off) = log[Min(Assigning(log, log[k].timbre))].data
  BY <1>3, <1>4, <1>5, KeptReads
<1> HIDE DEF t
<1>10. timbre_bank_find(file, t) # Null
       /\ TimbreAt(file, timbre_bank_find(file, t)) = Meant(U[k].inst)
  BY <1>6, <1>8, <1>9
<1> QED BY <1>1, <1>10 DEF Meant, t, U

(* Whoever wrote a library, the player finds in it what was meant: GLIB's  *)
(* give back what the catalog assigned, however many timbres of whatever   *)
(* lengths and however many libraries before, and the player's importer    *)
(* makes of an old bank's instruments what GLIB makes of them.             *)
THEOREM LibraryReadsBackAlways == FairSpec => []LibraryReadsBack
<1>1. Init => LibraryInv
  BY LibraryStart, LibraryAssumption DEF Init
<1>2. LibraryInv /\ [Next]_vars => LibraryInv'
  BY LibraryNext, LibraryAssumption, FilesAssumption, LinesAssumption
<1>3. LibraryInv => LibraryReadsBack
  BY LibraryInvReads, ImportsDoAgree, LibraryAssumption, FilesAssumption DEF LibraryReadsBack
<1> QED BY <1>1, <1>2, <1>3, PTL DEF FairSpec

----------------------------------------------------------------------------
(* From the catalog to the notes.                                          *)
(*                                                                         *)
(* Song files that MIDIFORM could have written, perhaps with other chunks  *)
(* among its own: one chunk holds the sequences, and each has a body.      *)
Catalogued(file) ==
  /\ Len(file) \in Nat /\ DOMAIN file = 1 .. Len(file)
  /\ \E at \in DOMAIN file :
       /\ Holds(file[at])
       /\ \A n \in DOMAIN file \ {at} : ~ Holds(file[n]) /\ file[n].type # "XMID"
       /\ IF file[at].tag = "CAT"
          THEN /\ Len(file[at].body) \in Nat
               /\ \A n \in 1 .. Len(file[at].body) :
                    file[at].body[n].type = "XMID" =>
                      file[at].body[n].tag = "FORM" /\ file[at].body[n].body # <<>>
          ELSE file[at].body # <<>>

Sequences(chunks) ==
  {c \in {chunks[n] : n \in 1 .. Len(chunks)} : c.type = "XMID"}

Chosen(chunks, f, m) ==
  f = [n \in 0 .. m |->
         IF n = 0 THEN <<>>
         ELSE f[n - 1] \o (IF chunks[n].type = "XMID" THEN <<chunks[n]>> ELSE <<>>)]

LEMMA ChosenDefined ==
  ASSUME NEW b, NEW m \in Nat
  PROVE  \E f : Chosen(b, f, m)
<1> DEFINE bad == {j \in Nat : ~ \E f : Chosen(b, f, j)}
           more(n) == IF b[n].type = "XMID" THEN <<b[n]>> ELSE <<>>
<1>1. SUFFICES ASSUME bad # {} PROVE FALSE
  OBVIOUS
<1>2. PICK j \in bad : \A x \in bad : j <= x
  <2>1. bad \in SUBSET Nat
    OBVIOUS
  <2> HIDE DEF bad
  <2> QED BY <1>1, <2>1, LeastMember
<1>3. CASE j = 0
  <2>1. Chosen(b, [k \in 0 .. 0 |-> <<>>], 0)
    BY DEF Chosen
  <2> QED BY <1>2, <1>3, <2>1
<1>4. CASE j # 0
  <2> DEFINE n == j - 1
  <2>1. n \in Nat /\ j = n + 1 /\ n \notin bad
    <3>1. j \in Nat
      OBVIOUS
    <3> HIDE DEF bad
    <3> QED BY <1>2, <1>4, <3>1
  <2>2. PICK f : Chosen(b, f, n)
    BY <2>1
  <2>3. \A k \in 0 .. n : f[k] = IF k = 0 THEN <<>> ELSE f[k - 1] \o more(k)
    BY <2>2 DEF Chosen
  <2> DEFINE y == f[n] \o more(n + 1)
             g == [k \in 0 .. n + 1 |-> IF k = n + 1 THEN y ELSE f[k]]
  <2> HIDE DEF n
  <2>4. \A k \in 0 .. n : g[k] = f[k]
    BY <2>1
  <2>5. g[n + 1] = y
    <3> HIDE DEF y
    <3> QED BY <2>1
  <2>6. g = [k \in 0 .. n + 1 |-> g[k]]
    OBVIOUS
  <2> HIDE DEF g
  <2>7. ASSUME NEW k \in 0 .. n + 1
        PROVE  g[k] = IF k = 0 THEN <<>> ELSE g[k - 1] \o more(k)
    <3> HIDE DEF more
    <3>1. CASE k = n + 1
      <4>1. k # 0 /\ k - 1 = n /\ g[n] = f[n]
        BY <2>1, <2>4, <3>1
      <4> QED BY <2>5, <3>1, <4>1
    <3>2. CASE k = 0
      <4>1. 0 \in 0 .. n
        BY <2>1
      <4> QED BY <2>3, <2>4, <3>2, <4>1
    <3>3. CASE k # n + 1 /\ k # 0
      <4>1. k \in 0 .. n /\ k - 1 \in 0 .. n
        BY <2>1, <3>3
      <4> QED BY <2>3, <2>4, <3>3, <4>1
    <3> QED BY <3>1, <3>2, <3>3
  <2>8. Chosen(b, g, n + 1)
    BY <2>6, <2>7 DEF Chosen
  <2> QED BY <1>2, <2>1, <2>8
<1> QED BY <1>3, <1>4

(* What find_seq counts off in a CAT are sequences of it.                  *)
LEMMA XMIDsTyped ==
  ASSUME NEW c, Len(c) \in Nat
  PROVE  XMIDs(c) \in Seq(Sequences(c))
<1> DEFINE m == Len(c)
           S == Sequences(c)
           among == CHOOSE f : Chosen(c, f, m)
           more(n) == IF c[n].type = "XMID" THEN <<c[n]>> ELSE <<>>
<1>1. Chosen(c, among, m)
  BY ChosenDefined
<1>2. XMIDs(c) = among[m]
  BY DEF XMIDs, Chosen
<1> HIDE DEF among
<1>3. \A n \in 0 .. m : among[n] = IF n = 0 THEN <<>> ELSE among[n - 1] \o more(n)
  BY <1>1 DEF Chosen
<1>4. \A n \in 1 .. m : more(n) \in Seq(S)
  <2> SUFFICES ASSUME NEW n \in 1 .. m PROVE more(n) \in Seq(S)
    OBVIOUS
  <2>1. CASE c[n].type = "XMID"
    <3>1. c[n] \in S
      BY <2>1 DEF Sequences
    <3> HIDE DEF S
    <3>2. <<c[n]>> \in Seq(S)
      BY <3>1
    <3> QED BY <2>1, <3>2
  <2>2. CASE c[n].type # "XMID"
    <3> HIDE DEF S
    <3>1. <<>> \in Seq(S)
      OBVIOUS
    <3> QED BY <2>2, <3>1
  <2> QED BY <2>1, <2>2
<1> HIDE DEF S, more
<1> DEFINE bad == {n \in 0 .. m : among[n] \notin Seq(S)}
<1>5. bad = {}
  <2>1. SUFFICES ASSUME bad # {} PROVE FALSE
    OBVIOUS
  <2>2. bad \in SUBSET Nat
    OBVIOUS
  <2>3. PICK n \in bad : \A x \in bad : n <= x
    <3> HIDE DEF bad
    <3> QED BY <2>1, <2>2, LeastMember
  <2>4. n \in 0 .. m /\ among[n] \notin Seq(S)
    OBVIOUS
  <2>5. CASE n = 0
    <3>1. among[0] = <<>>
      BY <1>3, <2>4, <2>5
    <3> QED BY <2>4, <2>5, <3>1
  <2>6. CASE n # 0
    <3>1. n - 1 \in 0 .. m /\ n - 1 < n /\ n \in 1 .. m
      BY <2>4, <2>6
    <3>2. among[n - 1] \in Seq(S)
      BY <2>3, <3>1
    <3>3. among[n] = among[n - 1] \o more(n) /\ more(n) \in Seq(S)
      BY <1>3, <1>4, <2>4, <2>6, <3>1
    <3> DEFINE a == among[n - 1]
               z == more(n)
    <3> HIDE DEF a, z
    <3>4. a \in Seq(S) /\ z \in Seq(S) /\ among[n] = a \o z
      BY <3>2, <3>3 DEF a, z
    <3>5. among[n] \in Seq(S)
      BY <3>4
    <3> QED BY <2>4, <3>5
  <2> QED BY <2>5, <2>6
<1>6. m \in 0 .. m
  OBVIOUS
<1>7. among[m] \in Seq(S)
  <2> HIDE DEF m
  <2> QED BY <1>5, <1>6
<1> QED BY <1>2, <1>7 DEF S

(* A concatenation of which all parts but one are empty.                   *)
LEMMA FlattenOne ==
  ASSUME NEW n \in Nat \ {0}, NEW c, c = [k \in 1 .. n |-> c[k]], NEW S,
         NEW at \in 1 .. n, c[at] \in Seq(S), \A k \in 1 .. n : k # at => c[k] = <<>>
  PROVE  FlattenSeq(c) = c[at]
<1> DEFINE body == FlattenSeq(c)
           flat == CHOOSE f : f = [i \in 1 .. Len(c) |-> IF i = 1 THEN c[i] ELSE f[i - 1] \o c[i]]
<1>0. Len(c) = n
  OBVIOUS
<1>1. body = flat[n]
  <2>1. Len(c) # 0
    BY <1>0
  <2> QED BY <1>0, <2>1 DEF FlattenSeq
<1> HIDE DEF body
<1>2. flat = [i \in 1 .. n |-> IF i = 1 THEN c[i] ELSE flat[i - 1] \o c[i]]
  <2>1. \E f : f = [i \in 1 .. Len(c) |-> IF i = 1 THEN c[i] ELSE f[i - 1] \o c[i]]
    <3> HIDE DEF flat
    <3> QED BY <1>0, FlattenDefined
  <2>2. flat = [i \in 1 .. Len(c) |-> IF i = 1 THEN c[i] ELSE flat[i - 1] \o c[i]]
    BY <2>1
  <2> HIDE DEF flat
  <2> QED BY <1>0, <2>2
<1> HIDE DEF flat
<1>3. \A i \in 1 .. n : flat[i] = IF i = 1 THEN c[i] ELSE flat[i - 1] \o c[i]
  BY <1>2
<1> DEFINE x == c[at]
<1>4. \A i \in 1 .. n : c[i] = IF i = at THEN x ELSE <<>>
  OBVIOUS
<1>5. x \in Seq(S)
  OBVIOUS
<1> HIDE DEF x
<1>6. x \o <<>> = x /\ <<>> \o x = x /\ <<>> \o <<>> = <<>>
  BY <1>5
<1> DEFINE sofar(i) == IF i < at THEN <<>> ELSE x
           bad == {i \in 1 .. n : flat[i] # sofar(i)}
<1>7. bad = {}
  <2>1. SUFFICES ASSUME bad # {} PROVE FALSE
    OBVIOUS
  <2>2. bad \in SUBSET Nat
    OBVIOUS
  <2>3. PICK i \in bad : \A y \in bad : i <= y
    <3> HIDE DEF bad
    <3> QED BY <2>1, <2>2, LeastMember
  <2>4. i \in 1 .. n /\ flat[i] # sofar(i)
    OBVIOUS
  <2>5. CASE i = 1
    <3>1. flat[1] = c[1] /\ c[1] = IF 1 = at THEN x ELSE <<>>
      BY <1>3, <1>4, <2>4, <2>5
    <3> QED BY <2>4, <2>5, <3>1
  <2>6. CASE i # 1
    <3>1. i - 1 \in 1 .. n /\ i - 1 < i
      BY <2>4, <2>6
    <3>2. flat[i - 1] = sofar(i - 1)
      BY <2>3, <3>1
    <3>3. flat[i] = flat[i - 1] \o c[i] /\ c[i] = IF i = at THEN x ELSE <<>>
      BY <1>3, <1>4, <2>4, <2>6
    <3>4. CASE i < at
      <4>1. i - 1 < at /\ i # at
        BY <2>4, <3>1, <3>4
      <4>2. flat[i - 1] = <<>> /\ c[i] = <<>>
        BY <3>2, <3>3, <4>1
      <4>3. flat[i] = <<>> \o <<>>
        BY <3>3, <4>2
      <4> QED BY <1>6, <2>4, <3>4, <4>3
    <3>5. CASE i = at
      <4>1. flat[i] = <<>> \o x
        BY <2>4, <3>1, <3>2, <3>3, <3>5
      <4> QED BY <1>6, <2>4, <3>5, <4>1
    <3>6. CASE at < i
      <4>1. ~ i - 1 < at /\ i # at /\ ~ i < at
        BY <2>4, <3>1, <3>6
      <4>2. flat[i - 1] = x /\ c[i] = <<>>
        BY <3>2, <3>3, <4>1
      <4>3. flat[i] = x \o <<>>
        BY <3>3, <4>2
      <4> QED BY <1>6, <2>4, <4>1, <4>3
    <3> QED BY <2>4, <3>4, <3>5, <3>6
  <2> QED BY <2>5, <2>6
<1>8. flat[n] = sofar(n)
  BY <1>7
<1> QED BY <1>1, <1>8 DEF body, x

(* When the count of the tracks ends, all were counted, and the search     *)
(* finds each of them under its number.                                    *)
LEMMA CountedTracks ==
  ASSUME NEW f, Catalogued(f), NEW c \in Nat, find_seq(f, c) = <<>>,
         \A i \in Nat : i < c => find_seq(f, i) # <<>>,
         NEW s \in Nat, s < c
  PROVE  c = Len(Tracks(f)) /\ find_seq(f, s) = Tracks(f)[s + 1].body
<1>1. PICK at \in DOMAIN f :
        /\ Holds(f[at])
        /\ \A n \in DOMAIN f \ {at} : ~ Holds(f[n]) /\ f[n].type # "XMID"
        /\ IF f[at].tag = "CAT"
           THEN /\ Len(f[at].body) \in Nat
                /\ \A n \in 1 .. Len(f[at].body) :
                     f[at].body[n].type = "XMID" =>
                       f[at].body[n].tag = "FORM" /\ f[at].body[n].body # <<>>
           ELSE f[at].body # <<>>
  BY DEF Catalogued
<1>2. Len(f) \in Nat /\ DOMAIN f = 1 .. Len(f)
  BY DEF Catalogued
<1>3. Min({n \in DOMAIN f : Holds(f[n])}) = at
  <2> DEFINE H == {n \in DOMAIN f : Holds(f[n])}
  <2>1. H = {at}
    BY <1>1
  <2>2. H \in SUBSET Nat
    BY <1>2
  <2> HIDE DEF H
  <2>3. Min(H) \in H
    BY <2>1, <2>2, LeastMember
  <2> QED BY <2>1, <2>3 DEF H
<1> DEFINE passed == Cardinality({n \in 1 .. at - 1 : f[n].tag # "FORM"})
           X == XMIDs(f[at].body)
<1>4. \A i : find_seq(f, i) =
        IF passed > i THEN <<>>
        ELSE IF f[at].tag = "FORM" THEN f[at].body
        ELSE IF i < Len(X) /\ (X[i + 1].tag = "CAT" => i = 0) THEN X[i + 1].body
        ELSE <<>>
  BY <1>3 DEF find_seq
<1>5. passed \in Nat
  <2>1. IsFiniteSet(1 .. at - 1)
    BY <1>2, FS_Interval
  <2> QED BY <2>1, FS_Subset, FS_CardinalityType
<1> HIDE DEF passed
<1>6. ~ (passed > 0) /\ ~ (passed > s) /\ ~ (passed > c)
  <2>1. 0 < c
    OBVIOUS
  <2>2. find_seq(f, 0) # <<>>
    BY <2>1
  <2>3. ~ (passed > 0)
    BY <1>4, <2>2
  <2> QED BY <1>5, <2>3
<1>7. f[at].tag = "CAT"
  <2>1. f[at].tag = "CAT" \/ f[at].tag = "FORM"
    BY <1>1 DEF Holds
  <2>2. CASE f[at].tag = "FORM"
    <3>1. f[at].body # <<>>
      BY <1>1, <2>2
    <3>2. find_seq(f, c) = f[at].body
      BY <1>4, <1>6, <2>2
    <3> QED BY <3>1, <3>2
  <2> QED BY <2>1, <2>2
<1>8. Len(f[at].body) \in Nat
      /\ \A n \in 1 .. Len(f[at].body) :
           f[at].body[n].type = "XMID" => f[at].body[n].tag = "FORM" /\ f[at].body[n].body # <<>>
  BY <1>1, <1>7
<1>9. X \in Seq(Sequences(f[at].body))
  BY <1>8, XMIDsTyped
<1>10. Len(X) \in Nat /\ \A k \in 1 .. Len(X) : X[k].tag = "FORM" /\ X[k].body # <<>>
  <2> DEFINE Q == Sequences(f[at].body)
  <2>1. \A x \in Q : x.tag = "FORM" /\ x.body # <<>>
    BY <1>8 DEF Sequences
  <2> HIDE DEF Q, X
  <2>2. Len(X) \in Nat /\ \A k \in 1 .. Len(X) : X[k] \in Q
    BY <1>9, ElementOf DEF Q
  <2> QED BY <2>1, <2>2
<1>11. Tracks(f) = X
  <2> DEFINE N == Len(f)
             part == [n \in 1 .. N |-> IF f[n].tag = "CAT" THEN XMIDs(f[n].body)
                                       ELSE IF f[n].type = "XMID" THEN <<f[n]>> ELSE <<>>]
  <2>1. Tracks(f) = FlattenSeq(part)
    BY <1>2 DEF Tracks
  <2>2. N \in Nat \ {0} /\ at \in 1 .. N
    BY <1>2
  <2>3. part[at] = X
    BY <1>7, <2>2
  <2>4. \A k \in 1 .. N : k # at => part[k] = <<>>
    <3> SUFFICES ASSUME NEW k \in 1 .. N, k # at PROVE part[k] = <<>>
      OBVIOUS
    <3>1. ~ Holds(f[k]) /\ f[k].type # "XMID"
      BY <1>1, <1>2
    <3> QED BY <3>1 DEF Holds
  <2>5. part = [k \in 1 .. N |-> part[k]]
    OBVIOUS
  <2> DEFINE S == Sequences(f[at].body)
  <2> HIDE DEF part, N, X, S
  <2>6. part[at] \in Seq(S)
    BY <1>9, <2>3 DEF S
  <2>7. FlattenSeq(part) = part[at]
    BY <2>2, <2>4, <2>5, <2>6, FlattenOne
  <2> QED BY <2>1, <2>3, <2>7
<1> HIDE DEF X
<1>12. \A i \in Nat : (i < Len(X) => find_seq(f, i) = X[i + 1].body /\ X[i + 1].body # <<>>)
                      /\ (passed <= i /\ ~ i < Len(X) => find_seq(f, i) = <<>>)
  <2> SUFFICES ASSUME NEW i \in Nat
               PROVE  (i < Len(X) => find_seq(f, i) = X[i + 1].body /\ X[i + 1].body # <<>>)
                      /\ (passed <= i /\ ~ i < Len(X) => find_seq(f, i) = <<>>)
    OBVIOUS
  <2>1. passed = 0
    BY <1>5, <1>6
  <2>2. find_seq(f, i) =
          IF i < Len(X) /\ (X[i + 1].tag = "CAT" => i = 0) THEN X[i + 1].body ELSE <<>>
    BY <1>4, <1>7, <2>1
  <2>3. CASE i < Len(X)
    <3>1. i + 1 \in 1 .. Len(X)
      BY <1>10, <2>3
    <3>2. X[i + 1].tag = "FORM" /\ X[i + 1].body # <<>>
      BY <1>10, <3>1
    <3> QED BY <2>2, <2>3, <3>2
  <2>4. CASE ~ i < Len(X)
    BY <2>2, <2>4
  <2> QED BY <2>3, <2>4
<1>13. ~ c < Len(X)
  BY <1>12
<1>14. ~ Len(X) < c
  <2> SUFFICES ASSUME Len(X) < c PROVE FALSE
    OBVIOUS
  <2>1. find_seq(f, Len(X)) # <<>>
    BY <1>10
  <2>2. passed = 0
    BY <1>5, <1>6
  <2>3. find_seq(f, Len(X)) = <<>>
    BY <1>10, <1>12, <2>2
  <2> QED BY <2>1, <2>3
<1>15. c = Len(X)
  BY <1>10, <1>13, <1>14
<1> QED BY <1>11, <1>12, <1>15

(* What MIDIFORM writes for sequences with at least an EVNT block.         *)
LEMMA ConvertedCatalogued ==
  ASSUME NEW n \in Nat, NEW seqs, seqs = [k \in 1 .. n |-> seqs[k]],
         \A k \in 1 .. n : seqs[k] # <<>>
  PROVE  Catalogued(Converted(seqs))
<1> DEFINE forms == [k \in 1 .. n |-> IffChunk("FORM", "XMID", seqs[k])]
           dir == IffChunk("FORM", "XDIR", <<>>)
           cat == IffChunk("CAT", "XMID", forms)
           file == <<dir, cat>>
<1>1. Converted(seqs) = file
  <2>1. DOMAIN seqs = 1 .. n
    OBVIOUS
  <2> QED BY <2>1 DEF Converted
<1>2. Len(forms) = n
  OBVIOUS
<1>3. \A k \in 1 .. n : forms[k].tag = "FORM" /\ forms[k].body # <<>>
  BY DEF IffChunk
<1> HIDE DEF forms
<1>4. cat.tag = "CAT" /\ cat.body = forms /\ dir.tag = "FORM" /\ dir.type = "XDIR"
  BY DEF IffChunk
<1> HIDE DEF cat, dir
<1>5. Len(file) = 2 /\ DOMAIN file = 1 .. 2 /\ file[1] = dir /\ file[2] = cat
  OBVIOUS
<1> HIDE DEF file
<1>6. 2 \in DOMAIN file /\ \A k \in DOMAIN file \ {2} : k = 1
  BY <1>5
<1>7. Holds(file[2]) /\ ~ Holds(file[1]) /\ file[1].type # "XMID"
  BY <1>4, <1>5 DEF Holds
<1>8. Catalogued(file)
  BY <1>2, <1>3, <1>4, <1>5, <1>6, <1>7 DEF Catalogued
<1> QED BY <1>1, <1>8

(* The song is the track that was asked for.                               *)
Counted ==
  /\ input.file \in Files /\ input.count \in Nat /\ input.seq_num \in Nat
  /\ \A i \in Nat : i < input.count => find_seq(input.file, i) # <<>>

Counts ==
  Counted /\ input.seq_num < input.count /\ find_seq(input.file, input.count) = <<>>

SongOf(form) == EVNT(form) @@ [timbres |-> TIMB(form)]

TrackInv ==
  /\ pc = "args" => song = Null
  /\ pc = "count" => Counted /\ song = Null
  /\ pc \in {"init", "register"} => Counts /\ song = Null
  /\ song # Null => Counts /\ song = SongOf(find_seq(input.file, input.seq_num))

LEMMA TrackNext ==
  ASSUME MaxTracks \in Nat, TrackInv, main \/ audio_thread \/ sigint
  PROVE  TrackInv'
<1>1. ASSUME UNCHANGED <<input, song>>, pc' \notin {"args", "count", "init", "register"}
      PROVE  TrackInv'
  <2>1. input' = input /\ song' = song
    BY <1>1
  <2>2. Counts' = Counts
    BY <2>1 DEF Counts, Counted
  <2> QED BY <1>1, <2>1, <2>2 DEF TrackInv
<1>2. ASSUME UNCHANGED <<pc, input, song>> PROVE TrackInv'
  <2>1. input' = input /\ song' = song /\ pc' = pc
    BY <1>2
  <2>2. Counts' = Counts /\ Counted' = Counted
    BY <2>1 DEF Counts, Counted
  <2> QED BY <2>1, <2>2 DEF TrackInv
<1>3. CASE timbre_bank_load
  BY <1>2, <1>3 DEF timbre_bank_load
<1>4. CASE load_file
  <2>1. song' = Null
    BY <1>4 DEF load_file, TrackInv
  <2>2. CASE pc' = "exit"
    BY <2>1, <2>2 DEF TrackInv
  <2>3. CASE pc' = "count"
    <3>1. PICK f \in Files, n \in 0 .. MaxTracks :
            input' = [file |-> f, seq_num |-> n, count |-> 0]
      BY <1>4, <2>3 DEF load_file
    <3>2. Counted'
      BY <3>1 DEF Counted
    <3> QED BY <2>1, <2>3, <3>2 DEF TrackInv
  <2> QED BY <1>4, <2>2, <2>3 DEF load_file
<1>5. CASE count_xmi_tracks
  <2>1. Counted /\ song' = Null /\ song = Null
    BY <1>5 DEF count_xmi_tracks, TrackInv
  <2>2. CASE /\ find_seq(input.file, input.count) # <<>>
             /\ input' = [input EXCEPT !.count = @ + 1]
             /\ pc' = pc
    <3>1. input'.file = input.file /\ input'.count = input.count + 1 /\ input'.seq_num = input.seq_num
      BY <2>1, <2>2 DEF Counted
    <3>2. Counted'
      BY <2>1, <2>2, <3>1 DEF Counted
    <3>3. pc' = "count"
      BY <1>5, <2>2 DEF count_xmi_tracks
    <3> QED BY <2>1, <3>2, <3>3 DEF TrackInv
  <2>3. CASE /\ find_seq(input.file, input.count) = <<>>
             /\ input.seq_num < input.count
             /\ pc' = "init" /\ input' = input
    <3>1. Counts'
      BY <2>1, <2>3 DEF Counted, Counts
    <3> QED BY <2>1, <2>3, <3>1 DEF TrackInv
  <2>4. CASE pc' = "exit"
    BY <2>1, <2>4 DEF TrackInv
  <2> QED BY <1>5, <2>2, <2>3, <2>4 DEF count_xmi_tracks
<1>6. CASE xmi_init
  <2>1. input' = input /\ song' = Null /\ Counts /\ pc' \in {"exit", "register"}
    BY <1>6 DEF xmi_init, TrackInv
  <2>2. Counts'
    BY <2>1 DEF Counts, Counted
  <2> QED BY <2>1, <2>2 DEF TrackInv
<1>7. CASE register_seq
  <2>1. input' = input /\ Counts /\ pc' = "install"
    BY <1>7 DEF register_seq, TrackInv
  <2>2. song' = SongOf(find_seq(input.file, input.seq_num))
    BY <1>7 DEF register_seq, SongOf
  <2>3. Counts'
    BY <2>1 DEF Counts, Counted
  <2> QED BY <2>1, <2>2, <2>3 DEF TrackInv
<1>8. CASE find_timbre
  BY <1>1, <1>8 DEF find_timbre
<1>9. CASE install_timbre
  BY <1>1, <1>9 DEF install_timbre
<1>10. CASE start_seq
  BY <1>1, <1>10 DEF start_seq
<1>11. CASE render_start
  BY <1>1, <1>11 DEF render_start
<1>12. CASE render_chunk
  BY <1>1, <1>12 DEF render_chunk, Rendering
<1>13. CASE render_end
  BY <1>1, <1>13 DEF render_end
<1>14. CASE sdl_audio_init
  BY <1>1, <1>14 DEF sdl_audio_init
<1>15. CASE poll
  BY <1>1, <1>15 DEF poll
<1>16. CASE sdl_audio_close
  BY <1>1, <1>16 DEF sdl_audio_close
<1>17. CASE xmi_stop
  BY <1>1, <1>17 DEF xmi_stop
<1>18. CASE xmi_deinit
  BY <1>1, <1>18 DEF xmi_deinit
<1>19. CASE audio_thread \/ sigint
  BY <1>2, <1>19 DEF audio_thread, callback_begin, callback_sample, sigint
<1> QED BY <1>3, <1>4, <1>5, <1>6, <1>7, <1>8, <1>9, <1>10, <1>11, <1>12, <1>13, <1>14,
           <1>15, <1>16, <1>17, <1>18, <1>19 DEF main

LEMMA TrackInvRight ==
  ASSUME TrackInv, \A f \in Files : Catalogued(f)
  PROVE  RightTrack
<1> SUFFICES ASSUME song # Null
             PROVE  /\ input.count = Len(Tracks(input.file))
                    /\ song = EVNT(Tracks(input.file)[input.seq_num + 1].body)
                                @@ [timbres |-> TIMB(Tracks(input.file)[input.seq_num + 1].body)]
  BY DEF RightTrack
<1>1. Counts /\ song = SongOf(find_seq(input.file, input.seq_num))
  BY DEF TrackInv
<1>2. /\ input.count = Len(Tracks(input.file))
      /\ find_seq(input.file, input.seq_num) = Tracks(input.file)[input.seq_num + 1].body
  BY <1>1, CountedTracks DEF Counts, Counted
<1> QED BY <1>1, <1>2 DEF SongOf

(* What the cache holds is what the bank has.                              *)
Entry(x) == x = [of |-> x.of, data |-> DataFor(x.of)]

BankRead ==
  /\ bank # Null \/ pc # "args" => ~ catalog.open
  /\ bank # Null /\ bank.name \in LibFiles =>
       disk[bank.name] # Null /\ bank.file = disk[bank.name]

CacheHolds ==
  /\ table = [e \in Entries |-> table[e]]
  /\ pc = "args" => table = [e \in Entries |-> Null]
  /\ \A e \in Used : Entry(table[e])
  /\ pc = "found" => Entry(found)
  /\ pc \in {"render", "open", "poll"} => Missing = {}

CatalogInv == LibraryInv /\ TrackInv /\ BankRead /\ CacheHolds

LEMMA BankReadNext ==
  ASSUME LibFiles \cap DOMAIN BnkFiles = {}, BankRead, Next
  PROVE  BankRead'
<1>1. CASE compile_GTL /\ UNCHANGED player
  <2>1. catalog.open
    BY <1>1 DEF compile_GTL, bad_line, timbre_line, BNK_file_line, outfile_line, Line,
                end_of_catalog, freed_twice
  <2>2. bank = Null /\ pc = "args"
    BY <2>1 DEF BankRead
  <2> QED BY <1>1, <2>2 DEF BankRead, player
<1>2. CASE Compiled /\ (main \/ audio_thread \/ sigint) /\ UNCHANGED glib
  <2>1. ~ catalog.open /\ catalog' = catalog /\ disk' = disk
    BY <1>2 DEF Compiled, glib
  <2>2. bank' = bank \/ timbre_bank_load
    BY <1>2 DEF main, load_file, count_xmi_tracks, xmi_init, register_seq, find_timbre,
                install_timbre, start_seq, render_start, render_chunk, render_end,
                sdl_audio_init, poll, sdl_audio_close, xmi_stop, xmi_deinit,
                audio_thread, callback_begin, callback_sample, sigint
  <2>3. CASE bank' = bank
    BY <2>1, <2>3 DEF BankRead
  <2>4. CASE timbre_bank_load
    <3>1. CASE \E f \in LibFiles : disk[f] # Null /\ bank' = [name |-> f, file |-> disk[f]]
      BY <2>1, <3>1 DEF BankRead
    <3>2. CASE \E f \in DOMAIN Imported : bank' = [name |-> f, file |-> Imported[f]]
      <4>1. PICK f \in DOMAIN Imported : bank' = [name |-> f, file |-> Imported[f]]
        BY <3>2
      <4>2. f \in DOMAIN BnkFiles
        BY DEF Imported
      <4>3. bank'.name \notin LibFiles
        BY <4>1, <4>2
      <4> QED BY <2>1, <4>3 DEF BankRead
    <3> QED BY <2>4, <3>1, <3>2 DEF timbre_bank_load
  <2> QED BY <2>2, <2>3, <2>4
<1> QED BY <1>1, <1>2 DEF Next

(* Making room and installing leave in the table what was there, and the   *)
(* new timbre.                                                             *)
LEMMA InstalledOne ==
  ASSUME NEW T, NEW l, NEW n, NEW x, T = [e \in Entries |-> T[e]]
  PROVE  LET c == Installed(MakeRoom([table |-> T, lru |-> l], n), x) IN
         /\ c.table = [e \in Entries |-> c.table[e]]
         /\ \A e \in Entries : c.table[e] \in {Null, T[e], x}
<1> DEFINE c0 == [table |-> T, lru |-> l]
<1>1. ASSUME NEW c, NEW k
      PROVE  /\ Without(c, k).table = [e \in Entries |-> Without(c, k).table[e]]
             /\ \A e \in Entries : Without(c, k).table[e] \in {Null, c.table[e]}
  BY DEF Without
<1> DEFINE r == MakeRoom(c0, n)
<1>2. /\ r.table = [e \in Entries |-> r.table[e]]
      /\ \A e \in Entries : r.table[e] \in {Null, T[e]}
  <2>1. PICK k : r = Without(c0, k)
    BY DEF MakeRoom
  <2>2. c0.table = T
    OBVIOUS
  <2> HIDE DEF r, c0
  <2> QED BY <1>1, <2>1, <2>2
<1> HIDE DEF r, c0
<1> DEFINE full == \A e \in Entries : r.table[e] # Null
           room == IF full THEN Without(r, 1) ELSE r
           at   == IF full THEN 0 ELSE Min({f \in Entries : r.table[f] = Null})
           R    == room.table
           S    == [R EXCEPT ![at] = x]
<1>3. Installed(r, x).table = S
  BY DEF Installed
<1>4. /\ R = [e \in Entries |-> R[e]]
      /\ \A e \in Entries : R[e] \in {Null, T[e]}
  <2>1. CASE full
    <3>1. room = Without(r, 1)
      BY <2>1
    <3>2. /\ Without(r, 1).table = [e \in Entries |-> Without(r, 1).table[e]]
          /\ \A e \in Entries : Without(r, 1).table[e] \in {Null, r.table[e]}
      BY <1>1
    <3> HIDE DEF full, room
    <3> QED BY <1>2, <3>1, <3>2
  <2>2. CASE ~ full
    <3>1. room = r
      BY <2>2
    <3> HIDE DEF full, room
    <3> QED BY <1>2, <3>1
  <2> QED BY <2>1, <2>2
<1> HIDE DEF R, at, full, room
<1>5. /\ S = [e \in Entries |-> S[e]]
      /\ \A e \in Entries : S[e] \in {Null, T[e], x}
  BY <1>4
<1> QED BY <1>3, <1>5 DEF r, c0

LEMMA CacheHoldsNext ==
  ASSUME CacheHolds, Next
  PROVE  CacheHolds'
<1>1. ASSUME bank' = bank, table' = table, pc' = "found" => Entry(found'), pc' # "args",
             pc' \in {"render", "open", "poll"} => Missing' = {}
      PROVE  CacheHolds'
  <2>1. \A t : DataFor(t)' = DataFor(t)
    BY <1>1 DEF DataFor
  <2>2. Used' = Used
    BY <1>1 DEF Used
  <2>3. \A e \in Used' : Entry(table[e])'
    BY <1>1, <2>1, <2>2 DEF CacheHolds, Entry
  <2>4. pc' = "found" => Entry(found)'
    BY <1>1, <2>1 DEF Entry
  <2> QED BY <1>1, <2>3, <2>4 DEF CacheHolds
<1>2. ASSUME UNCHANGED <<table, song>>, Missing = {} PROVE Missing' = {}
  BY <1>2 DEF Missing, Resident, Used
<1>3. ASSUME UNCHANGED <<bank, table, song, found>>, pc' # "args",
             pc' = "found" => pc = "found",
             pc' \in {"render", "open", "poll"} => pc \in {"render", "open", "poll"}
      PROVE  CacheHolds'
  <2>1. pc' \in {"render", "open", "poll"} => Missing' = {}
    BY <1>2, <1>3 DEF CacheHolds
  <2>2. pc' = "found" => bank' = bank /\ found' = found /\ Entry(found)
    BY <1>3 DEF CacheHolds
  <2>3. pc' = "found" => Entry(found')
    BY <1>3, <2>2
  <2> QED BY <1>1, <1>3, <2>1, <2>3
<1>4. ASSUME pc' = "args", table' = table, pc = "args" PROVE CacheHolds'
  <2>1. table' = [e \in Entries |-> Null]
    BY <1>4 DEF CacheHolds
  <2>2. Used' = {}
    BY <2>1 DEF Used
  <2>3. table' = [e \in Entries |-> table'[e]]
    BY <2>1
  <2> QED BY <1>4, <2>1, <2>2, <2>3 DEF CacheHolds
<1>5. CASE compile_GTL /\ UNCHANGED player
  <2>1. pc' = pc /\ UNCHANGED <<bank, table, song, found>>
    BY <1>5 DEF player
  <2> QED BY <1>3, <1>4, <2>1
<1>6. CASE timbre_bank_load
  BY <1>4, <1>6 DEF timbre_bank_load
<1>7. CASE load_file
  BY <1>3, <1>7 DEF load_file
<1>8. CASE count_xmi_tracks
  BY <1>3, <1>8 DEF count_xmi_tracks
<1>9. CASE xmi_init
  BY <1>3, <1>9 DEF xmi_init
<1>10. CASE register_seq
  BY <1>1, <1>10 DEF register_seq
<1>11. CASE find_timbre
  <2>1. Entry(found')
    <3>1. found' = [of |-> timbre_request, data |-> DataFor(timbre_request)]
      BY <1>11 DEF find_timbre
    <3> DEFINE t == timbre_request
    <3> HIDE DEF t
    <3>2. found'.of = t /\ found'.data = DataFor(t) /\ found' = [of |-> t, data |-> DataFor(t)]
      BY <3>1 DEF t
    <3> QED BY <3>2 DEF Entry
  <2> QED BY <1>1, <1>11, <2>1 DEF find_timbre
<1>12. CASE install_timbre
  <2> DEFINE c == Installed(MakeRoom([table |-> table, lru |-> lru], Len(found.data) + 2), found)
  <2>1. /\ pc = "found" /\ pc' = "install" /\ bank' = bank
        /\ table' = c.table
    BY <1>12 DEF install_timbre
  <2>2. /\ c.table = [e \in Entries |-> c.table[e]]
        /\ \A e \in Entries : c.table[e] \in {Null, table[e], found}
    <3>1. table = [e \in Entries |-> table[e]]
      BY DEF CacheHolds
    <3> QED BY <3>1, InstalledOne
  <2> HIDE DEF c
  <2>3. \A t : DataFor(t)' = DataFor(t)
    BY <2>1 DEF DataFor
  <2>4. Entry(found) /\ \A e \in Used : Entry(table[e])
    BY <2>1 DEF CacheHolds
  <2>5. ASSUME NEW e \in Used' PROVE Entry(table[e])'
    <3>1. e \in Entries /\ table'[e] # Null
      BY DEF Used
    <3>2. table'[e] = table[e] \/ table'[e] = found
      BY <2>1, <2>2, <3>1
    <3>3. Entry(table'[e])
      <4>1. CASE table'[e] = found
        BY <2>4, <4>1
      <4>2. CASE table'[e] = table[e]
        <5>1. e \in Used
          BY <3>1, <4>2 DEF Used
        <5> QED BY <2>4, <4>2, <5>1
      <4> QED BY <3>2, <4>1, <4>2
    <3> QED BY <2>3, <3>3 DEF Entry
  <2> QED BY <2>1, <2>2, <2>5 DEF CacheHolds
<1>13. CASE start_seq
  BY <1>1, <1>2, <1>13 DEF start_seq
<1>14. CASE render_start
  BY <1>3, <1>14 DEF render_start
<1>15. CASE render_chunk
  BY <1>3, <1>15 DEF render_chunk, Rendering
<1>16. CASE render_end
  BY <1>3, <1>16 DEF render_end
<1>17. CASE sdl_audio_init
  BY <1>3, <1>17 DEF sdl_audio_init
<1>18. CASE poll
  BY <1>3, <1>18 DEF poll
<1>19. CASE sdl_audio_close
  BY <1>3, <1>19 DEF sdl_audio_close
<1>20. CASE xmi_stop
  BY <1>3, <1>20 DEF xmi_stop
<1>21. CASE xmi_deinit
  BY <1>3, <1>21 DEF xmi_deinit
<1>22. CASE audio_thread \/ sigint
  <2>1. pc' = pc /\ UNCHANGED <<bank, table, song, found>>
    BY <1>22 DEF audio_thread, callback_begin, callback_sample, sigint
  <2> QED BY <1>3, <1>4, <2>1
<1> QED BY <1>5, <1>6, <1>7, <1>8, <1>9, <1>10, <1>11, <1>12, <1>13, <1>14, <1>15, <1>16,
           <1>17, <1>18, <1>19, <1>20, <1>21, <1>22 DEF Next, main

LEMMA CatalogStart ==
  ASSUME LibraryAssumption, Init
  PROVE  CatalogInv
<1>1. LibraryInv
  BY LibraryStart DEF Init
<1>2. TrackInv
  BY DEF Init, TrackInv
<1>3. BankRead
  BY DEF Init, BankRead
<1>4. CacheHolds
  <2>1. table = [e \in Entries |-> Null] /\ pc = "args"
    BY DEF Init
  <2>2. Used = {}
    BY <2>1 DEF Used
  <2> QED BY <2>1, <2>2 DEF CacheHolds
<1> QED BY <1>1, <1>2, <1>3, <1>4 DEF CatalogInv

LEMMA CatalogStutter ==
  ASSUME UNCHANGED vars, TrackInv, BankRead, CacheHolds
  PROVE  TrackInv' /\ BankRead' /\ CacheHolds'
<1>1. /\ catalog' = catalog /\ disk' = disk /\ pc' = pc /\ bank' = bank /\ input' = input
      /\ song' = song /\ table' = table /\ found' = found
  BY DEF vars, glib, player
<1>2. TrackInv'
  BY <1>1 DEF TrackInv, Counts, Counted
<1>3. BankRead'
  BY <1>1 DEF BankRead
<1>4. CacheHolds'
  <2>1. \A t : DataFor(t)' = DataFor(t)
    BY <1>1 DEF DataFor
  <2>2. Used' = Used /\ Missing' = Missing
    BY <1>1 DEF Missing, Resident, Used
  <2> QED BY <1>1, <2>1, <2>2 DEF CacheHolds, Entry
<1> QED BY <1>2, <1>3, <1>4

(* The names of banks tell their kinds apart, and song files are those     *)
(* that MIDIFORM writes, other chunks added or not.                        *)
SoundFiles ==
  /\ \A f \in Files : Catalogued(f)
  /\ LibFiles \cap DOMAIN BnkFiles = {}

(* No library assigns a timbre of the bank that ends the reader's search.  *)
NoEndAssigned == \A f \in LibFiles : NoEnd(written[f])

LEMMA CatalogNext ==
  ASSUME SoundFiles, LibraryAssumption, FilesAssumption, LinesAssumption, PlayerAssumption,
         CatalogInv, [Next]_vars
  PROVE  CatalogInv'
<1>1. LibraryInv'
  BY LibraryNext DEF CatalogInv
<1>2. CASE Next
  <2>1. BankRead' /\ CacheHolds'
    BY <1>2, BankReadNext, CacheHoldsNext DEF CatalogInv, SoundFiles
  <2>2. TrackInv'
    <3>1. CASE compile_GTL /\ UNCHANGED player
      <4>1. pc' = pc /\ input' = input /\ song' = song
        BY <3>1 DEF player
      <4> QED BY <4>1 DEF CatalogInv, TrackInv, Counts, Counted
    <3>2. CASE main \/ audio_thread \/ sigint
      BY <3>2, TrackNext DEF CatalogInv, PlayerAssumption
    <3> QED BY <1>2, <3>1, <3>2 DEF Next
  <2> QED BY <1>1, <2>1, <2>2 DEF CatalogInv
<1>3. CASE UNCHANGED vars
  BY <1>1, <1>3, CatalogStutter DEF CatalogInv
<1> QED BY <1>2, <1>3

LEMMA CatalogInvPlays ==
  ASSUME SoundFiles, LibraryAssumption, CatalogInv, NoEndAssigned
  PROVE  SongPlaysCatalog
<1>1. RightTrack
  BY TrackInvRight DEF SoundFiles, CatalogInv
<1>2. SUFFICES ASSUME pc \in {"render", "open", "poll"}, bank # Null, bank.name \in LibFiles,
                      NEW n \in DOMAIN song.timbres
               PROVE  LET t == song.timbres[n]
                          w == written[bank.name]
                          lines == {k \in DOMAIN w : w[k].timbre = t}
                      IN  \E e \in Used :
                            table[e] = [of |-> t, data |-> IF lines = {} THEN dummy_2op
                                                           ELSE w[Min(lines)].data]
  BY <1>1 DEF SongPlaysCatalog
<1> DEFINE t == song.timbres[n]
           w == written[bank.name]
           lines == Assigning(w, t)
<1>3. PICK e \in Used : table[e].of = t
  <2>1. Missing = {}
    BY <1>2 DEF CatalogInv, CacheHolds
  <2>2. t \in Resident
    BY <2>1 DEF Missing
  <2> QED BY <2>2 DEF Resident
<1>4. table[e] = [of |-> t, data |-> DataFor(t)]
  <2>1. Entry(table[e])
    BY DEF CatalogInv, CacheHolds
  <2> QED BY <1>3, <2>1 DEF Entry
<1>5. Kept(bank.file, w) /\ NoEnd(w)
  <2>1. disk[bank.name] # Null /\ bank.file = disk[bank.name]
    BY <1>2 DEF CatalogInv, BankRead
  <2>2. Kept(disk[bank.name], w)
    BY <1>2, <2>1 DEF CatalogInv, LibraryInv, DiskKept
  <2> QED BY <1>2, <2>1, <2>2 DEF NoEndAssigned
<1> HIDE DEF w, t
<1>6. Hits(bank.file, t) = lines /\ lines \in SUBSET (1 .. Len(w))
  BY <1>5, HitsAssigned
<1> HIDE DEF lines
<1>7. DataFor(t) = IF lines = {} THEN dummy_2op ELSE w[Min(lines)].data
  <2>1. CASE lines = {}
    BY <1>6, <2>1 DEF DataFor, timbre_bank_find
  <2>2. CASE lines # {}
    <3> DEFINE m == Min(lines)
    <3>1. Len(w) \in Nat
      BY <1>5 DEF Kept
    <3>2. m \in 1 .. Len(w)
      <4>1. lines \in SUBSET Nat
        BY <1>6, <3>1
      <4>2. m \in lines
        BY <2>2, <4>1, LeastMember
      <4> QED BY <1>6, <4>2
    <3>3. timbre_bank_find(bank.file, t) = bank.file.entries[m].offset
      BY <1>6, <2>2 DEF timbre_bank_find
    <3> HIDE DEF m
    <3>4. /\ TimbreAt(bank.file, bank.file.entries[m].offset) = w[m].data
          /\ bank.file.entries[m].offset \in Nat
      BY <1>5, <3>2, EntryRead
    <3>5. timbre_bank_find(bank.file, t) # Null
      BY <3>3, <3>4 DEF LibraryAssumption
    <3>6. DataFor(t) = w[m].data
      BY <1>2, <3>3, <3>4, <3>5 DEF DataFor
    <3> QED BY <2>2, <3>6 DEF m
  <2> QED BY <2>1, <2>2
<1>8. table[e] = [of |-> t, data |-> IF lines = {} THEN dummy_2op ELSE w[Min(lines)].data]
  BY <1>4, <1>7
<1> QED BY <1>8 DEF lines, t, w, Assigning

(* From the catalog to the notes: the song that starts is the track that   *)
(* was asked for, and each of its timbres is in the cache with the bytes   *)
(* of the first line that assigned it, or with silence, whatever was       *)
(* installed and deleted meanwhile and whichever banks were loaded before. *)
THEOREM SongPlaysCatalogAlways ==
  SoundFiles /\ FairSpec /\ []NoEndAssigned => []SongPlaysCatalog
<1>1. SoundFiles => SoundFiles'
  OBVIOUS
<1>2. Init => CatalogInv
  BY CatalogStart, LibraryAssumption
<1>3. SoundFiles /\ CatalogInv /\ [Next]_vars => CatalogInv'
  BY CatalogNext, LibraryAssumption, FilesAssumption, LinesAssumption, PlayerAssumption
<1>4. SoundFiles /\ CatalogInv /\ NoEndAssigned => SongPlaysCatalog
  BY CatalogInvPlays, LibraryAssumption
<1> QED BY <1>1, <1>2, <1>3, <1>4, PTL DEF FairSpec
=============================================================================
