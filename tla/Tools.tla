-------------------------------- MODULE Tools --------------------------------
(***************************************************************************)
(* The DOS programs around the driver, of which one runs at a time:        *)
(* MIDIECHO plays what an instrument sends; MIDIREC records it, and MIDILOG*)
(* translates the events of the recording, or of files that other          *)
(* sequencers wrote; MIDIFORM converts MIDI files for the driver.          *)
(***************************************************************************)
EXTENDS Recorder, Echo, Converter

CONSTANTS Files    \* files for MIDILOG: sequences of chunks, each a title and a body

VARIABLES tool

cable == <<ring, device>>
toolvars == <<tool, cable, recvars, logvars, echovars, formvars>>

Init ==
  /\ init_queue /\ RecInit /\ LogIdle /\ EchoInit /\ FormInit
  /\ \/ tool = "MIDIREC" /\ RecPlugged
     \/ tool = "MIDIECHO" /\ EchoPlugged
     \/ tool = "MIDIFORM" /\ Plugged({}) /\ running = 0
  /\ tool = "MIDIFORM" \/ pending_delta = CHOOSE d \in [Trks -> Deltas] : TRUE

Recording == /\ tool = "MIDIREC" /\ outcome = "idle"
             /\ UNCHANGED <<tool, logvars, echovars, formvars>>
Filtering == /\ tool = "MIDIREC"
             /\ UNCHANGED <<tool, cable, recvars, echovars, formvars>>
Echoing   == tool = "MIDIECHO" /\ UNCHANGED <<tool, recvars, logvars, formvars>>
Compiling == tool = "MIDIFORM" /\ UNCHANGED <<tool, cable, recvars, logvars, echovars>>

(* A recording that stopped between two messages is a MIDI file. *)
filter ==
  \/ phase = "stopped" /\ Whole /\ ~broken /\ ~overrun
     /\ Open(<<[title |-> "MTrk", body |-> out]>>)
  \/ phase = "waiting" /\ arrived = 0 /\ \E f \in Files : Open(f)

Next ==
  \/ Recording /\ MIDIREC_isr
  \/ Recording /\ delta_update
  \/ Recording /\ begin
  \/ Recording /\ abort
  \/ Recording /\ record_byte
  \/ Recording /\ stop
  \/ Filtering /\ filter
  \/ Filtering /\ parse_logfile
  \/ Filtering /\ start_events
  \/ Filtering /\ replace_event
  \/ Filtering /\ next_chunk
  \/ Filtering /\ write_file
  \/ Echoing /\ MIDIECHO_isr
  \/ Echoing /\ exclusive_byte
  \/ Echoing /\ status_byte
  \/ Echoing /\ data_byte
  \/ Echoing /\ message
  \/ Compiling /\ note_on
  \/ Compiling /\ note_off
  \/ Compiling /\ branch_point
  \/ Compiling /\ bank_select
  \/ Compiling /\ program
  \/ Compiling /\ name
  \/ Compiling /\ copy
  \/ Compiling /\ tempo
  \/ Compiling /\ end_of_track
  \/ Compiling /\ finish

Spec == Init /\ [][Next]_toolvars

(* MIDIECHO's promise, see EchoedAsPlayed; MIDIREC's is RecordedAsPlayed.  *)
EchoFaithful == tool = "MIDIECHO" => EchoedAsPlayed
=============================================================================
