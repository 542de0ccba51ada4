--------------------------- MODULE MCEventStream ---------------------------
(* The songs that TLC plays. *)
EXTENDS EventStream

Bytes(kind, size) == [kind |-> kind, size |-> size, val |-> 0]
Note(v)      == [kind |-> "note", size |-> 4, val |-> v]
For(n)       == [kind |-> "for", size |-> 3, val |-> n]
EndFor       == [kind |-> "next", size |-> 3, val |-> 127]
Break        == [kind |-> "next", size |-> 3, val |-> 0]
Wait(n)      == [kind |-> "interval", size |-> 1, val |-> n]
Marker       == Bytes("other", 3)
Callback     == Bytes("callback", 3)
End          == Bytes("end", 3)
Tempo(us)    == [kind |-> "tempo", size |-> 6, val |-> us]
Meter(n, d)  == [kind |-> "signature", size |-> 7, val |-> n, denom |-> d]
Clear        == Bytes("clear", 3)

(* The cells of a list of events, whose marks are event numbers. *)
Layout(events, marks) ==
  LET offset[i \in 1 .. Len(events)] ==
        IF i = 1 THEN 1 ELSE offset[i - 1] + events[i - 1].size
      last == Len(events)
      at(p) == CHOOSE i \in 1 .. last : offset[i] <= p /\ p < offset[i] + events[i].size
  IN [cell |-> [p \in 1 .. offset[last] + events[last].size - 1 |->
                  IF offset[at(p)] = p THEN events[at(p)] ELSE Wait(1)],
      starts |-> {offset[i] : i \in 1 .. last},
      marks |-> [m \in DOMAIN marks |-> offset[marks[m]]]]

(* Nested loops with a branch point before, inside and after the inner     *)
(* one, and a NEXT too many.                                               *)
Nested == Layout(<<Marker, For(2), Note(1), Wait(1), For(3), Marker, Note(2), Wait(2),
                   EndFor, Callback, Note(3), EndFor, EndFor, Wait(1), Marker,
                   Note(4), End>>, <<1, 6, 15>>)

(* Three loops where two fit, the middle one of a single round, and a loop *)
(* that is never closed.                                                   *)
Deep == Layout(<<For(2), Wait(1), For(1), Note(1), For(3), Note(2), EndFor, Wait(1),
                 EndFor, Note(3), EndFor, Callback, For(5), Note(4), Wait(1), End>>, <<>>)

(* A branch point behind a pending interval, as the converter writes it,   *)
(* and a loop before it.                                                   *)
Ahead == Layout(<<Callback, For(2), Note(1), Wait(1), EndFor, Wait(2), Marker, Note(2),
                  Callback, Wait(1), End>>, <<6>>)

(* A system exclusive message of six bytes. *)
Exclusive == Layout(<<Note(1), Bytes("sysex", 6), Note(2), Wait(1), End>>, <<1>>)

(* A loop of no rounds and a break, whose loops are not plain. *)
Odd == Layout(<<Callback, For(0), Note(1), Wait(1), EndFor, Marker, For(2), Note(2), Wait(1),
                Break, EndFor, Note(3), End>>, <<6>>)

(* Meter, tempo and Clear Beat/Bar in mid-beat: meters of quarter, half,   *)
(* whole and eighth notes.                                                 *)
Metered == Layout(<<Meter(2, 2), Wait(5), For(2), Tempo(7), Wait(3), Meter(3, 1), Tempo(6),
                    Wait(9), Callback, Clear, Wait(7), EndFor, Meter(1, 0), Wait(9), Tempo(9),
                    Wait(9), Meter(3, 3), Wait(6), End>>, <<>>)

(* Two loops that are never closed hold both slots: the third FOR is       *)
(* ignored, and the NEXT after it closes the second.                       *)
Unclosed == Layout(<<For(3), Note(1), For(2), Note(2), Wait(1), For(4), Note(3), EndFor,
                     Note(4), Wait(1), End>>, <<>>)

SongSet == {Nested, Deep, Unclosed, Ahead, Odd, Exclusive, Metered}
============================================================================
