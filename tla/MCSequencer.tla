---------------------------- MODULE MCSequencer ----------------------------
(* The instances of Sequencer that TLC checks: which events the songs have *)
(* and which calls the application makes, one pair per question.           *)
EXTENDS Sequencer

CONSTANTS b1, b2, b3

OneBlock == {b1}
TwoBlocks == {b1, b2}
ThreeBlocks == {b1, b2, b3}

NoNotes == {}
OneNote == {60}
TwoNotes == {60, 62}
Short == {1}

(* A song of plain notes, and an application that plays, stops, restarts,  *)
(* branches and releases it.                                               *)
SongEvents == {"note_on", "note_off", "callback"}
SongCalls == {"register", "start", "stop", "resume", "release", "branch"}

(* One song that locks channels and unlocks those it locked. *)
LockEvents == {"note_on", "overflow", "note_off", "lock", "unlock", "end"}
LockCalls == {"register", "start", "stop", "resume"}

(* Everything an event or a call can do. *)
AllEvents == EventKinds
AllCalls == CallKinds
============================================================================
