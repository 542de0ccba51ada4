------------------------------ MODULE MCPlayer ------------------------------
(* Player with small banks and a dozen catalog lines: two libraries, two   *)
(* old instruments (one of them percussive) and two new ones, timbres of   *)
(* four lengths; patches wrap after 2; song files of one and three tracks. *)
EXTENDS Player

oper(n) ==
  [freq_mult |-> 18, env_scaling |-> n, sustain_sound |-> 1 - n, amp_vib |-> n, pitch_vib |-> 0,
   out_lvl |-> 70, key_scale_lvl |-> 5, decay |-> 17, attack |-> 2 + n, release |-> 3,
   sustain_lvl |-> 20, waveform |-> n]

old(n, voice) ==
  [mod |-> oper(n), car |-> oper(1 - n), feedback |-> 9, connection |-> n, voice_num |-> voice]

new(four, perc) ==
  [ops |-> << <<1, 2, 3, 4, 9>>, <<5, 6, 7, 8, 1>>, <<9, 8, 7, 6, 2>>, <<5, 4, 3, 2, 15>> >>,
   C4xxxFFFC |-> 151, transpose |-> 250, fourop |-> four, percussive |-> perc]

entry(title, used, inst) == [title |-> title, used |-> used, inst |-> inst]

MCBnkFiles ==
  [old |-> [type  |-> 1,
            index |-> <<entry("flute", FALSE, old(0, 1)), entry("drum", TRUE, old(0, 6)),
                        entry("flute", TRUE, old(0, 0)), entry("horn", TRUE, old(1, 0))>>],
   new |-> [type  |-> 2,
            index |-> <<entry("flute", TRUE, new(FALSE, FALSE)), entry("horn", TRUE, new(TRUE, FALSE)),
                        entry("drum", TRUE, new(FALSE, TRUE))>>],
   txt |-> [type |-> 0, index |-> <<>>]]
MCBinFiles == [one |-> <<12, 1, 2>>]
MCMtbFiles == [mt |-> <<<<7, 1>>, <<7, 2>>>>]
MCLibFiles == {"A", "B"}

assign(b, p, rv) == [lv |-> expr_val("timbre", 2, <<b, p>>), eq |-> TRUE, rv |-> rv, extra |-> FALSE]
command(t, f) == [lv |-> expr_val(t, 5, <<f>>), eq |-> FALSE, rv |-> expr_val(t, 5, <<f>>), extra |-> FALSE]

GoodLines ==
  {command("outfile", "A"), command("outfile", "B"), command("BNK_file", "old"), command("BNK_file", "new"),
   assign(0, 1, expr_val("BIN_file", 3, <<"one">>)), assign(0, 1, expr_val("MTB_file", 2, <<"mt">>)),
   assign(0, 0, expr_val("BNK_inst", 6, <<"flute", 12>>)), assign(1, 0, expr_val("BNK_inst", 6, <<"horn", 0>>))}

(* Lines that are refused: by a check of the parser, or by what they name. *)
BadLines ==
  {[assign(0, 0, expr_val("outfile", 1, <<"A">>)) EXCEPT !.extra = TRUE],
   [command("outfile", "A") EXCEPT !.lv.err = 5],
   assign(0, 0, expr_val("BNK_inst", 6, <<"drum", 0>>)), command("BNK_file", "txt")}
MCLines == GoodLines \cup BadLines

MCEvents(for_at, next_at, times) ==
  [length |-> 6, for_at |-> for_at, next_at |-> next_at, times |-> times]
MCSeqs ==
  << Blocks(<<<<0, 0>>, <<1, 0>>, <<0, 0>>>>, <<>>, MCEvents(0, Null, 1)),
     Blocks(<<<<1, 0>>, <<0, 1>>>>, <<>>, MCEvents(1, 4, 0)),
     Blocks(<<<<0, 0>>, <<0, 1>>, <<1, 0>>>>, <<<<1, 2>>>>, MCEvents(2, 4, 2)) >>

(* A converted file with something else between its sequences, one that    *)
(* does not begin with a FORM, and a sequence on its own.                  *)
MCFiles ==
  {[Converted(MCSeqs) EXCEPT ![2].body = InsertAt(@, 2, IffChunk("FORM", "INFO", <<>>))],
   <<IffChunk("LIST", "INFO", <<>>)>> \o Converted(SubSeq(MCSeqs, 1, 1)),
   <<IffChunk("FORM", "XMID", MCSeqs[2])>>}
=============================================================================
