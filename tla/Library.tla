------------------------------- MODULE Library ------------------------------
(***************************************************************************)
(* Timbre libraries: GLIB, which compiles a catalog of assignments into    *)
(* library files, and the reader of those files in the player, which also  *)
(* imports instrument banks of the old Ad Lib format on its own.           *)
(*                                                                         *)
(* A step is one line of the catalog.  The parser of a line is kept as the *)
(* checks it makes, in their order; timbres are sequences of bytes; the    *)
(* header of a library is a sequence of records of HeaderBytes each.       *)
(***************************************************************************)
EXTENDS Integers, Sequences, FiniteSetsExt, SequencesExt

CONSTANTS
  Lines,        \* lines a catalog can have
  MaxLines,     \* bound: lines of a catalog
  LibFiles,     \* names of library files
  BinFiles,     \* .BIN file -> its bytes
  MtbFiles,     \* .MTB file -> its timbres, each a sequence of bytes
  BnkFiles,     \* .BNK file -> [type, index], see BNK1_find_instrument
  MaxTimbres,   \* 16384: size of header[]
  PatchCount,   \* 128
  Null

ASSUME LibraryAssumption ==
  /\ MaxLines \in Nat /\ MaxTimbres \in Nat \ {0} /\ PatchCount \in Nat \ {0}
  /\ Null \notin LibFiles /\ Null \notin DOMAIN BnkFiles /\ Null \notin Nat

(* Instruments: those of the old format have their two operators unpacked, *)
(* those of the new one have up to four as register bytes.                 *)
Operator ==
  [freq_mult : Nat, env_scaling : Nat, sustain_sound : Nat, amp_vib : Nat, pitch_vib : Nat,
   out_lvl : Nat, key_scale_lvl : Nat, decay : Nat, attack : Nat, release : Nat,
   sustain_lvl : Nat, waveform : Nat]

OldInstrument ==
  [mod : Operator, car : Operator, feedback : Nat, connection : Nat, voice_num : Nat]

NewInstrument ==
  [ops : [1 .. 4 -> [1 .. 5 -> Nat]], C4xxxFFFC : Nat, transpose : Nat,
   fourop : BOOLEAN, percussive : BOOLEAN]

ASSUME FilesAssumption ==
  /\ \A f \in DOMAIN BinFiles : BinFiles[f] \in Seq(Nat)
  /\ \A f \in DOMAIN MtbFiles : MtbFiles[f] \in Seq(Seq(Nat))
  /\ \A f \in DOMAIN BnkFiles :
       LET bank == BnkFiles[f] IN
       /\ Len(bank.index) \in Nat /\ DOMAIN bank.index = 1 .. Len(bank.index)
       /\ \A n \in DOMAIN bank.index :
            bank.index[n].inst \in IF bank.type = 1 THEN OldInstrument ELSE NewInstrument

HeaderBytes == 6
EndBank     == 255

VARIABLES
  catalog,  \* [lines, err, open]: lines read, error reported, still reading
  GTL,      \* [filename, entries, body] of the library being written, and
            \* the history of its assignments (log)
  header,   \* header[]: offsets outlive the library they were written for
  BNK,      \* [file, freed]: the bank in memory
  disk,     \* the library files
  written   \* history: name -> the assignments of the file on the disk

glib == <<catalog, GTL, header, BNK, disk, written>>

----------------------------------------------------------------------------
(* Instruments.  Bits(b) is a truth value as a register has it.            *)
Flag(x, bit) == IF x # 0 THEN bit ELSE 0

(* One operator of an old instrument: its five registers. *)
Op1(o) == << (o.freq_mult % 16) + Flag(o.env_scaling, 16) + Flag(o.sustain_sound, 32)
               + Flag(o.amp_vib, 64) + Flag(o.pitch_vib, 128),
             ((o.out_lvl % 64) + 64 * o.key_scale_lvl) % 256,
             (o.decay % 16) + 16 * (o.attack % 16),
             (o.release % 16) + 16 * (o.sustain_lvl % 16),
             o.waveform >>

BNK1_to_AD(i) ==
  Op1(i.mod) \o <<2 * (i.feedback % 8) + (1 - (i.connection % 2))>> \o Op1(i.car)

(* The player's own conversion, which fills the bytes by position. *)
bnk1_to_ad(i) ==
  LET car == Op1(i.car)
      mod == Op1(i.mod)
      conn == IF i.connection % 2 = 1 THEN 0 ELSE 1
  IN  [k \in 1 .. 11 |-> CASE k <= 5 -> mod[k] [] k = 6 -> (i.feedback % 8) * 2 + conn
                          [] OTHER -> car[k - 6]]

(* A new instrument has the registers ready, with bits to be masked. *)
Op2(o) == <<o[1], o[2], o[3], o[4], o[5] % 8>>

BNK2_to_AD(i)   == Op2(i.ops[1]) \o <<i.C4xxxFFFC % 16>> \o Op2(i.ops[2])
BNK2_to_OPL3(i) ==
  Op2(i.ops[1]) \o <<(i.C4xxxFFFC % 16) + 128 * (i.C4xxxFFFC \div 128)>> \o Op2(i.ops[2])
    \o Op2(i.ops[3]) \o <<0>> \o Op2(i.ops[4])

(* The first entry in use that has the title. *)
Titled(index, title) == {n \in DOMAIN index : index[n].used /\ index[n].title = title}
find_instrument(index, title) == index[Min(Titled(index, title))].inst

----------------------------------------------------------------------------
(* Catalog lines: a function, and for an assignment "=" and another one.   *)
Unlimited == 65535
tokens ==
  [timbre   |-> [lval_OK |-> TRUE,  rval_OK |-> FALSE, rval_req |-> TRUE,  argmax |-> 2, argmin |-> 2],
   BNK_file |-> [lval_OK |-> TRUE,  rval_OK |-> FALSE, rval_req |-> FALSE, argmax |-> Unlimited, argmin |-> 1],
   BNK_inst |-> [lval_OK |-> FALSE, rval_OK |-> TRUE,  rval_req |-> FALSE, argmax |-> Unlimited, argmin |-> 2],
   MTB_file |-> [lval_OK |-> FALSE, rval_OK |-> TRUE,  rval_req |-> FALSE, argmax |-> Unlimited, argmin |-> 1],
   BIN_file |-> [lval_OK |-> FALSE, rval_OK |-> TRUE,  rval_req |-> FALSE, argmax |-> Unlimited, argmin |-> 1],
   outfile  |-> [lval_OK |-> TRUE,  rval_OK |-> FALSE, rval_req |-> FALSE, argmax |-> Unlimited, argmin |-> 1]]

(* Names are known, and numbers are where a timbre's are expected.         *)
ASSUME LinesAssumption ==
  \A l \in Lines :
    l.lv.t = "timbre" =>
      /\ l.lv.args[1] \in Nat /\ l.lv.args[2] \in Nat
      /\ l.rv.t \in DOMAIN tokens
      /\ l.rv.t = "BNK_inst" => l.rv.args[2] \in Nat

(* What expr_val makes of a function: token, number of bytes and commas,   *)
(* the arguments, and the error it returns (4 unknown function, 5 value    *)
(* out of range, 6 misplaced text, 7 too many bytes) or 0.                 *)
expr_val(t, len, args) == [t |-> t, len |-> len, comcnt |-> Len(args) - 1, args |-> args, err |-> 0]

CallErrors(f, lval) ==
  LET tok == tokens[f.t] IN
  << <<f.err # 0, f.err>>,
     <<IF lval THEN ~tok.lval_OK ELSE ~tok.rval_OK, 6>>,
     <<f.len < tok.argmin \/ f.comcnt < tok.argmin - 1, 13>>,
     <<f.len > tok.argmax, 11>> >>

LineErrors(l) ==
  CallErrors(l.lv, TRUE)
    \o (IF tokens[l.lv.t].rval_req THEN << <<~l.eq, 8>> >> \o CallErrors(l.rv, FALSE) ELSE <<>>)
    \o << <<l.extra, 9>> >>

(* The error of a line is that of the first check that fails. *)
LineError(l) ==
  LET failed == {n \in DOMAIN LineErrors(l) : LineErrors(l)[n][1]}
  IN  IF failed = {} THEN 0 ELSE LineErrors(l)[Min(failed)][2]

----------------------------------------------------------------------------
NoLibrary   == [filename |-> Null, entries |-> 0, body |-> <<>>, log |-> <<>>]
EmptyHeader == [i \in 0 .. MaxTimbres |-> [bank |-> 0, patch |-> 0, offset |-> 0]]
NoBank      == [file |-> Null, freed |-> FALSE]

LibraryInit ==
  /\ catalog = [lines |-> 0, err |-> 0, open |-> TRUE]
  /\ GTL = NoLibrary
  /\ header = EmptyHeader
  /\ BNK = NoBank
  /\ disk = [f \in LibFiles |-> Null]
  /\ written = [f \in LibFiles |-> <<>>]

Word(n) == <<n % 256, n \div 256>>

(* A library with its header[], as the writers below pass them on.         *)
(* Mutant of GTL_create: the first offset stays what it was.               *)
create_keeps_offset(s) == [s EXCEPT !.lib = [NoLibrary EXCEPT !.filename = s.lib.filename]]

GTL_create(s) ==
  [s EXCEPT !.lib = [NoLibrary EXCEPT !.filename = s.lib.filename], !.hdr[0].offset = 0]

(* One timbre goes to the body; the next one's offset is noted ahead. *)
GTL_write_timbre(s, t, timb) ==
  LET i == s.lib.entries IN
  IF i >= MaxTimbres \/ s.err # 0 THEN [s EXCEPT !.err = IF @ = 0 THEN 17 ELSE @]
  ELSE [lib |-> [filename |-> s.lib.filename,
                 entries  |-> i + 1,
                 body     |-> s.lib.body \o Word(Len(timb) + 2) \o timb,
                 log      |-> Append(s.lib.log, [timbre |-> t, data |-> timb])],
        hdr |-> [s.hdr EXCEPT ![i] = [bank |-> t[1], patch |-> t[2], offset |-> @.offset],
                              ![i + 1].offset = s.hdr[i].offset + Len(timb) + 2],
        err |-> 0]

(* The k-th timbre of an .MTB file goes k patches on, into the next bank   *)
(* after the last patch.                                                   *)
NthPatch(t, k) ==
  <<(t[1] + (t[2] + k) \div PatchCount) % 256, (t[2] + k) % PatchCount>>

GTL_write_MTB(s, t, timbs) ==
  LET after[k \in 0 .. Len(timbs)] ==
        IF k = 0 THEN s ELSE GTL_write_timbre(after[k - 1], NthPatch(t, k - 1), timbs[k])
  IN  after[Len(timbs)]

GTL_write_BNK1(s, t, index, title, txp) ==
  IF Titled(index, title) = {} THEN [s EXCEPT !.err = 15]
  ELSE LET inst == find_instrument(index, title) IN
       IF inst.voice_num # 0 THEN [s EXCEPT !.err = 22]
       ELSE GTL_write_timbre(s, t, <<txp>> \o BNK1_to_AD(inst))

GTL_write_BNK2(s, t, index, title, txp) ==
  IF Titled(index, title) = {} THEN [s EXCEPT !.err = 15]
  ELSE LET inst == find_instrument(index, title)
           regs == IF inst.fourop THEN BNK2_to_OPL3(inst) ELSE BNK2_to_AD(inst)
       IN  IF inst.percussive THEN [s EXCEPT !.err = 22]
           ELSE GTL_write_timbre(s, t, <<(txp + inst.transpose) % 256>> \o regs)

(* The header gets the offsets in the finished file, where they count from *)
(* its start; header[] itself is changed for that.                         *)
GTL_close(s) ==
  [s EXCEPT !.hdr = [i \in DOMAIN s.hdr |->
     IF i < s.lib.entries
     THEN [s.hdr[i] EXCEPT !.offset = @ + HeaderBytes * s.lib.entries + 2] ELSE s.hdr[i]]]

File(s) == [entries |-> [i \in 1 .. s.lib.entries |-> s.hdr[i - 1]], body |-> s.lib.body]

Writer == [lib |-> GTL, hdr |-> header, err |-> 0]

(* The library at hand, if there is one, goes to the disk. *)
Closed ==
  IF GTL.filename = Null THEN UNCHANGED <<disk, written>>
  ELSE /\ disk' = [disk EXCEPT ![GTL.filename] = File(GTL_close(Writer))]
       /\ written' = [written EXCEPT ![GTL.filename] = GTL.log]

(* abend(): an error ends the program, and the library is never closed. *)
Reported(err) == catalog' = [catalog EXCEPT !.err = err, !.open = err = 0, !.lines = @ + 1]

Line(l) ==
  /\ l \in Lines
  /\ catalog.open
  /\ catalog.lines < MaxLines

bad_line(l) ==
  /\ Line(l)
  /\ LineError(l) # 0
  /\ Reported(LineError(l))
  /\ UNCHANGED <<GTL, header, BNK, disk, written>>

(* timbre(bank, patch) = ...: there must be a library to write to. *)
Assigned(l, s) ==
  LET t == <<l.lv.args[1], l.lv.args[2]>> IN
  CASE l.rv.t = "BIN_file" -> IF l.rv.args[1] \in DOMAIN BinFiles
                              THEN GTL_write_timbre(s, t, BinFiles[l.rv.args[1]])
                              ELSE [s EXCEPT !.err = 20]
    [] l.rv.t = "MTB_file" -> IF l.rv.args[1] \in DOMAIN MtbFiles
                              THEN GTL_write_MTB(s, t, MtbFiles[l.rv.args[1]])
                              ELSE [s EXCEPT !.err = 20]
    [] l.rv.t = "BNK_inst" ->
         LET bank == BnkFiles[BNK.file] IN
         IF bank.type = 1 THEN GTL_write_BNK1(s, t, bank.index, l.rv.args[1], l.rv.args[2])
         ELSE GTL_write_BNK2(s, t, bank.index, l.rv.args[1], l.rv.args[2])

(* The instrument may be read from a bank that is not there, or was freed  *)
(* by outfile(): the program then dies, or still finds the old bytes.      *)
Dangling(l) == l.rv.t = "BNK_inst" /\ (BNK.file = Null \/ BNK.freed)

timbre_line(l) ==
  /\ Line(l)
  /\ LineError(l) = 0
  /\ l.lv.t = "timbre"
  /\ \/ /\ GTL.filename = Null
        /\ Reported(21)
        /\ UNCHANGED <<GTL, header>>
     \/ /\ GTL.filename # Null
        /\ l.rv.t = "BNK_inst" => BNK.file # Null
        /\ Reported(Assigned(l, Writer).err)
        /\ GTL' = Assigned(l, Writer).lib
        /\ header' = Assigned(l, Writer).hdr
     \/ /\ GTL.filename # Null
        /\ Dangling(l)
        /\ catalog' = [catalog EXCEPT !.open = FALSE]
        /\ UNCHANGED <<GTL, header>>
  /\ UNCHANGED <<BNK, disk, written>>

BNK_file_line(l) ==
  /\ Line(l)
  /\ LineError(l) = 0
  /\ l.lv.t = "BNK_file"
  /\ LET f == l.lv.args[1] IN
     /\ Reported(IF f \notin DOMAIN BnkFiles THEN 20
                 ELSE IF BnkFiles[f].type = 0 THEN 14 ELSE 0)
     /\ BNK' = IF f \in DOMAIN BnkFiles THEN [file |-> f, freed |-> FALSE] ELSE BNK
  /\ UNCHANGED <<GTL, header, disk, written>>

(* Closes the library at hand and starts another.  The bank is freed, but  *)
(* its pointer is kept.                                                    *)
outfile_line(l) ==
  /\ Line(l)
  /\ LineError(l) = 0
  /\ l.lv.t = "outfile"
  /\ LET s == GTL_create(IF GTL.filename = Null THEN Writer ELSE GTL_close(Writer))
         f == l.lv.args[1]
     IN  /\ Reported(0)
         /\ Closed
         /\ GTL' = [s.lib EXCEPT !.filename = f]
         /\ header' = s.hdr
         /\ BNK' = [BNK EXCEPT !.freed = BNK.file # Null]

(* Both of these, and the end of the catalog, free the bank first: once    *)
(* outfile() has, that is a second time, and the program may die of it.    *)
freed_twice ==
  /\ catalog.open
  /\ BNK.freed
  /\ catalog' = [catalog EXCEPT !.open = FALSE]
  /\ UNCHANGED <<GTL, header, BNK, disk, written>>

(* The program is done, and its memory gone. *)
end_of_catalog ==
  /\ catalog.open
  /\ Closed
  /\ catalog' = [catalog EXCEPT !.open = FALSE]
  /\ GTL' = NoLibrary
  /\ header' = EmptyHeader
  /\ BNK' = NoBank

compile_GTL ==
  \/ \E l \in Lines : bad_line(l) \/ timbre_line(l) \/ BNK_file_line(l) \/ outfile_line(l)
  \/ end_of_catalog
  \/ freed_twice

----------------------------------------------------------------------------
(* The player's side: a bank in memory is a file, or none (the timbres     *)
(* built into the program).                                                *)
Size(file) == HeaderBytes * Len(file.entries) + 2 + Len(file.body)

(* The entries for a timbre that the search can stop at. *)
Hits(file, t) ==
  {i \in DOMAIN file.entries :
     /\ \A j \in 1 .. i : file.entries[j].bank # EndBank
     /\ <<file.entries[i].bank, file.entries[i].patch>> = t
     /\ file.entries[i].offset > 0 /\ file.entries[i].offset + 2 <= Size(file)}

(* Where a timbre is: its offset in the file, or Null. *)
timbre_bank_find(file, t) ==
  IF Hits(file, t) = {} THEN Null ELSE file.entries[Min(Hits(file, t))].offset

(* The bytes there: a length word that counts itself, and the data.        *)
(* Nothing checks that they end within the file (Null: any bytes).         *)
TimbreAt(file, off) ==
  LET at   == off - (HeaderBytes * Len(file.entries) + 2) + 1
      last == at + file.body[at] + 256 * file.body[at + 1] - 1
  IN  IF at \notin 1 .. Len(file.body) - 1 \/ last > Len(file.body) THEN Null
      ELSE SubSeq(file.body, at + 2, last)

(* The entries of an old bank the player can import. *)
Usable(bank) ==
  LET among[n \in 0 .. Len(bank.index)] ==
        IF n = 0 THEN <<>>
        ELSE among[n - 1] \o (IF bank.index[n].used /\ bank.index[n].inst.voice_num = 0
                              THEN <<bank.index[n]>> ELSE <<>>)
  IN  among[Len(bank.index)]

(* An imported bank: its instruments become patches 0, 1, ... of bank 0.   *)
(* Each takes 16 bytes, the last two of which its length does not count.   *)
load_bnk(bank) ==
  LET n == Len(Usable(bank)) IN
  [entries |-> [k \in 1 .. n |-> [bank |-> 0, patch |-> k - 1,
                                  offset |-> HeaderBytes * n + 2 + 16 * (k - 1)]],
   body    |-> FlattenSeq([k \in 1 .. n |->
                 <<14, 0, 0>> \o bnk1_to_ad(Usable(bank)[k].inst) \o <<0, 0>>])]

Importable(bank) == bank.type = 1 /\ Usable(bank) # <<>>
Imported == [b \in {c \in DOMAIN BnkFiles : Importable(BnkFiles[c])} |-> load_bnk(BnkFiles[b])]

----------------------------------------------------------------------------
(* Every library file on the disk gives back, for every timbre, the data   *)
(* of the first line that assigned it, however many libraries the catalog  *)
(* wrote before it, with timbres of which lengths.  (A timbre of bank 255  *)
(* would end the search of those after it: the reader has no such bank.)   *)
LibraryReads ==
  \A f \in LibFiles :
    /\ disk[f] # Null
    /\ \A n \in DOMAIN written[f] : written[f][n].timbre[1] # EndBank
    =>
    \A n \in DOMAIN written[f] :
      LET w == written[f][n]
          firsts == {k \in DOMAIN written[f] : written[f][k].timbre = w.timbre}
          off == timbre_bank_find(disk[f], w.timbre)
      IN  off # Null /\ TimbreAt(disk[f], off) = written[f][Min(firsts)].data

(* The two importers of old instrument banks agree: each instrument the    *)
(* player imports on its own is the one GLIB would have put there for      *)
(* BNK_inst(its title, 0).                                                 *)
ImportsAgree ==
  \A b \in DOMAIN Imported : \A k \in DOMAIN Usable(BnkFiles[b]) :
    LET off == timbre_bank_find(Imported[b], <<0, k - 1>>)
    IN  /\ off # Null
        /\ TimbreAt(Imported[b], off) = <<0>> \o BNK1_to_AD(Usable(BnkFiles[b])[k].inst)

(* Whoever writes a library, GLIB or the player's importer, and from what, *)
(* the player finds in it what was meant.                                  *)
LibraryReadsBack == LibraryReads /\ ImportsAgree
=============================================================================
