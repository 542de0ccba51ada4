------------------------------ MODULE MCTools ------------------------------
(* What the instruments send, the files, the logfiles and the timbre       *)
(* library for TLC; MIDIFORM gets every merge of two short tracks.         *)
EXTENDS Tools

MCRecMessages ==
  {<<144, 7, 9>>, <<192, 3>>, <<240, 1, 247>>, <<240, 1, 1, 1, 247>>, <<242, 7, 7>>,
   <<248>>}

Note(chan, num) == <<144 + chan, num, 9>>
End == <<0, 255, 47, 0>>

(* Running status over two tracks; chunks that are no tracks between them  *)
(* and behind them.                                                        *)
MCFiles ==
  {<<[title |-> "MTrk", body |-> <<1>> \o Note(0, 7) \o <<2, 8, 9>> \o <<129, 0>> \o <<7, 4>>
        \o End],
     [title |-> "XTrk", body |-> <<1, 2, 3>>],
     [title |-> "MTrk", body |-> <<0, 192, 3, 1, 4>> \o <<2>> \o Note(1, 7) \o <<3, 5, 6>>
        \o End],
     [title |-> "XTrk", body |-> <<4, 5>>]>>}

Val(v) == [val |-> v, mask |-> 255]
HiNibble(v) == [val |-> v, mask |-> 240]
Wild == [val |-> 0, mask |-> 0]
Event(vals) == [fn |-> "event", vals |-> vals]
Meta(vals) == [fn |-> "meta_event", vals |-> vals]
Sysex(vals) == [fn |-> "mt32_sysex_event", vals |-> vals]
Line(s, r) == [search |-> s, equals |-> TRUE, replace |-> r, extra |-> FALSE]

MCLogfiles ==
  {<<>>,
   <<Line(Event(<<HiNibble(144), Val(7), Wild>>), Event(<<HiNibble(176), Val(7), Wild>>))>>,
   <<Line(Event(<<Val(144), Val(7)>>), Event(<<>>))>>,
   <<Line(Event(<<HiNibble(192)>>), Meta(<<Val(1), Val(65)>>)),
     Line(Event(<<HiNibble(192), Val(3)>>), Event(<<>>)),
     Line(Event(<<HiNibble(144), Wild>>), Event(<<Val(144), Wild, Val(0)>>))>>,
   <<Line(Event(<<Val(192), Val(3)>>), Sysex(<<Val(1), Val(2)>>)),
     Line(Event(<<Val(144), Wild, Wild>>), Event(<<Val(144), Val(7), Wild>>))>>,
   <<[Line(Event(<<Val(144)>>), Event(<<>>)) EXCEPT !.equals = FALSE]>>,
   <<Line(Event(<<Val(300)>>), Event(<<>>))>>,
   <<Line(Meta(<<>>), Event(<<>>))>>,
   <<Line(Event(<<Val(144)>>), Sysex(<<Wild>>))>>}

MCEchoMessages ==
  {<<145, 60, 9>>, <<145, 60, 0>>, <<154, 60, 9>>, <<193, 5>>, <<177, 114, 1>>,
   <<177, 7, 50>>, <<153, 40, 9>>, <<240, 1, 247>>, <<240, 248, 247>>,
   <<242, 1, 1>>, <<248>>}

MCGTL == {<<0, 68>>, <<0, 5>>, <<1, 5>>, <<127, 40>>}
MCPartials == [t \in MCGTL |-> IF t \in {<<0, 68>>, <<127, 40>>} THEN 4 ELSE 2]
MCinit_prg == [c \in 0 .. 9 |-> IF c = 1 THEN 68 ELSE -1]
MCpart == [c \in 0 .. 9 |-> IF c = 0 THEN 0 ELSE 1]
MCbase == [c \in 0 .. 9 |-> 0]
=============================================================================
