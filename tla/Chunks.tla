------------------------------- MODULE Chunks -------------------------------
(***************************************************************************)
(* Song files: how MIDIFORM nests its sequences in IFF chunks, and how the *)
(* driver finds a sequence in such a file (find_seq) and its parts in the  *)
(* sequence (xmidi32_register_seq).                                        *)
(*                                                                         *)
(* A file is the sequence of its chunks, [tag, type, body]: the body of a  *)
(* CAT is a sequence of chunks, that of a FORM a sequence of local chunks  *)
(* [tag, body].  Lengths, and with them the padding of odd ones, are left  *)
(* out: a reader goes from chunk to chunk.                                 *)
(***************************************************************************)
EXTENDS Naturals, Sequences, FiniteSetsExt, SequencesExt

IffChunk(tag, type, body) == [tag |-> tag, type |-> type, body |-> body]

(* What MIDIFORM writes for its input files: a directory that nobody       *)
(* reads, and the catalog of the sequences.                                *)
Converted(seqs) ==
  << IffChunk("FORM", "XDIR", <<>>),
     IffChunk("CAT", "XMID", [k \in DOMAIN seqs |-> IffChunk("FORM", "XMID", seqs[k])]) >>

(* The blocks of one sequence; empty tables are not written. *)
Blocks(timbres, branches, events) ==
  (IF timbres # <<>> THEN << [tag |-> "TIMB", body |-> timbres] >> ELSE <<>>)
    \o (IF branches # <<>> THEN << [tag |-> "RBRN", body |-> branches] >> ELSE <<>>)
    \o << [tag |-> "EVNT", body |-> events] >>

----------------------------------------------------------------------------
Holds(chunk) == chunk.tag = "CAT" \/ (chunk.tag = "FORM" /\ chunk.type = "XMID")

(* A file the search ends in: past its end it reads on. *)
Searchable(file) == \E n \in DOMAIN file : Holds(file[n])

(* The XMID chunks among these, in their order. *)
XMIDs(chunks) ==
  LET among[n \in 0 .. Len(chunks)] ==
        IF n = 0 THEN <<>>
        ELSE among[n - 1] \o (IF chunks[n].type = "XMID" THEN <<chunks[n]>> ELSE <<>>)
  IN  among[Len(chunks)]

(* The sequence that the number stands for, or none.  FORMs of other types *)
(* are passed; any other chunk uses up a number on its way to the CAT,     *)
(* where the count begins anew.  A FORM XMID outside of a CAT is found     *)
(* under every number.                                                     *)
find_seq(file, seq_num) ==
  LET at     == Min({n \in DOMAIN file : Holds(file[n])})
      passed == {n \in 1 .. at - 1 : file[n].tag # "FORM"}
      forms  == XMIDs(file[at].body)
  IN  IF Cardinality(passed) > seq_num THEN <<>>
      ELSE IF file[at].tag = "FORM" THEN file[at].body
      ELSE IF seq_num < Len(forms) /\ (forms[seq_num + 1].tag = "CAT" => seq_num = 0)
           THEN forms[seq_num + 1].body
      ELSE <<>>

(* The local chunks are read up to the first EVNT; of two TIMB before it   *)
(* the later one counts.                                                   *)
EVNT(form) == form[Min({n \in DOMAIN form : form[n].tag = "EVNT"})].body

TIMB(form) ==
  LET evnt == Min({n \in DOMAIN form : form[n].tag = "EVNT"})
      timb == {n \in 1 .. evnt - 1 : form[n].tag = "TIMB"}
  IN  IF timb = {} THEN <<>> ELSE form[Max(timb)].body
=============================================================================
