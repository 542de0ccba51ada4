------------------------------ MODULE MidiLog ------------------------------
(***************************************************************************)
(* MIDILOG (glib/MIDILOG.C): it reads a logfile of rules, then goes        *)
(* through the events of a MIDI file and replaces each one that a rule     *)
(* matches, in place: what follows in the buffer is moved, the length of   *)
(* the chunk is corrected, and an event that relied on the status of a     *)
(* replaced one gets a status of its own.                                  *)
(*                                                                         *)
(* buffer holds the bodies of the chunks one behind the other, as bytes;   *)
(* titles and lengths of the chunks are kept beside it, in chunks.  A line *)
(* of the logfile is two functions with their values, which are bytes      *)
(* under a mask.                                                           *)
(***************************************************************************)
EXTENDS Integers, Sequences, FiniteSets, SequencesExt

CONSTANTS
  Radix,        \* 128: a digit of a variable-length number
  Logfiles,     \* the logfiles: sequences of lines
  Stray,        \* bytes that memory nobody wrote may hold
  MAX_VALS,     \* 128 values of a function
  MAX_LVAL,     \* 16 of them in a search expression
  MAX_SPECS,    \* 128 rules
  Syntax        \* a value that is none

ASSUME MidiLogAssumption ==
  /\ Radix \in 1 .. 128
  /\ Stray \subseteq 0 .. 255 /\ Stray # {}
  /\ MAX_VALS \in Nat /\ MAX_LVAL \in Nat /\ MAX_SPECS \in Nat

VARIABLES
  specs,        \* lval and rval of the rules read
  line,         \* lines of the logfile read
  logfile,
  outcome,      \* "idle", "rules", "events", "written" or the error
  buffer, chunks,
  at,           \* the chunk, where its body begins, and ntrks - trk
  event,        \* ptr, running_status, track_continued; Syntax between tracks
  original      \* history: the file as it was read

rules   == <<specs, line, logfile>>
file    == <<buffer, chunks>>
logvars == <<rules, outcome, file, at, event, original>>

----------------------------------------------------------------------------
(* Reading bytes.  Positions count from 1. *)

VlnEnd(buf, p) ==
  CHOOSE q \in p .. p + 3 :
    /\ buf[q] < 128 \/ q = p + 3
    /\ \A r \in p .. q - 1 : buf[r] >= 128

get_vln(buf, p) ==
  LET value[q \in p - 1 .. VlnEnd(buf, p)] ==
        IF q < p THEN 0 ELSE value[q - 1] * Radix + (buf[q] % 128)
  IN value[VlnEnd(buf, p)]

isvalrst(s) == s >= 128 /\ s < 240

(* A data byte with no status to go by: bytes are skipped up to one. *)
StatusAt(buf, data, running) ==
  IF buf[data] < 128 /\ ~isvalrst(running)
  THEN CHOOSE q \in data .. Len(buf) :
         buf[q] >= 128 /\ \A r \in data .. q - 1 : buf[r] < 128
  ELSE data

(* Behind a variable-length number at p and as many bytes as it says. *)
PastCounted(buf, p) == VlnEnd(buf, p) + 1 + get_vln(buf, p)

(* The end of an event of this status whose bytes behind it are at body. *)
Behind(buf, status, body) ==
  CASE status \in 192 .. 223 \cup {241, 243} -> body + 1
    [] status \in (0 .. 191) \cup (224 .. 239) \cup {242} -> body + 2
    [] status \in {240, 247} -> PastCounted(buf, body)
    [] status = 255 -> PastCounted(buf, body + 1)
    [] OTHER -> body

Event_at(buf, p, data, status, body) ==
  [org |-> p, data |-> data, ptr |-> Behind(buf, status, body),
   running_status |-> status,
   track_continued |-> ~(status = 255 /\ buf[body] = 47)]

Spelled(buf, p, data, stat, running) ==
  IF buf[stat] >= 128 THEN Event_at(buf, p, data, buf[stat], stat + 1)
  ELSE Event_at(buf, p, data, running, data)

(* The event at p, with the running status before it. *)
Framed(buf, p, data, running) ==
  Spelled(buf, p, data, StatusAt(buf, data, running), running)
get_event(buf, p, running) == Framed(buf, p, VlnEnd(buf, p) + 1, running)

----------------------------------------------------------------------------
(* The logfile. *)

Fn(bytes) == [i \in DOMAIN bytes |-> [val |-> bytes[i], mask |-> 255]]

(* The bytes a function puts before its values. *)
Prefix(fn) == CASE fn = "meta_event" -> Fn(<<255, 0>>)
                [] fn = "mt32_sysex_event" -> Fn(<<240, 0, 65, 16, 22, 18>>)
                [] OTHER -> <<>>

(* The values an error is raised for.  A syntax error is met before the    *)
(* room for another value is looked at.                                    *)
BadValues(e) == {i \in DOMAIN e.vals :
                   \/ Len(Prefix(e.fn)) + i > MAX_VALS
                   \/ e.vals[i] = Syntax
                   \/ e.vals[i].val >= 256}
ValueError(e, i) == IF e.vals[i] = Syntax THEN 6
                    ELSE IF Len(Prefix(e.fn)) + i > MAX_VALS THEN 7 ELSE 5

expr_error(e) ==
  CASE e.fn = "other" -> 4
    [] e.fn # "other" /\ BadValues(e) # {} -> ValueError(e, Min(BadValues(e)))
    [] OTHER ->
       IF e.fn = "meta_event" /\ e.vals = <<>> THEN 10
       ELSE IF e.fn # "mt32_sysex_event" THEN 0
       ELSE IF e.vals = <<>> THEN 14
       ELSE IF Len(Prefix(e.fn)) + Len(e.vals) > MAX_VALS - 3 THEN 15
       ELSE IF \E v \in Range(e.vals) : v.mask # 255 THEN 16 ELSE 0

(* What is stored for a function: a meta event gets its length, an         *)
(* exclusive message its length, checksum and end.                         *)
Stored(e) ==
  CASE e.fn = "event" -> e.vals
    [] e.fn = "meta_event" ->
         <<Fn(<<255>>)[1], e.vals[1]>> \o Fn(<<Len(e.vals) - 1>>) \o Tail(e.vals)
    [] e.fn = "mt32_sysex_event" ->
         LET sum == FoldLeft(LAMBDA t, v : t + v.val, 0, e.vals)
         IN Fn(<<240, Len(e.vals) + 6, 65, 16, 22, 18>>) \o e.vals
            \o Fn(<<(128 - (sum % 128)) % 128, 247>>)
expr_val(e) == IF expr_error(e) = 0 THEN [err |-> 0, vals |-> Stored(e)]
               ELSE [err |-> expr_error(e), vals |-> <<>>]

LineError(l, lv, rv) ==
  CASE Len(specs) >= MAX_SPECS -> 17
    [] Len(specs) < MAX_SPECS /\ lv.err # 0 -> lv.err
    [] OTHER ->
       IF ~l.equals THEN 8
       ELSE IF Len(lv.vals) > MAX_LVAL THEN 11
       ELSE IF lv.vals = <<>> THEN 13
       ELSE IF rv.err # 0 THEN rv.err
       ELSE IF l.extra THEN 9 ELSE 0

(* One line, blank lines and comments left out. *)
parse_logfile ==
  /\ outcome = "rules" /\ line < Len(logfile)
  /\ \E lv \in {expr_val(logfile[line + 1].search)},
        rv \in {expr_val(logfile[line + 1].replace)} :
       LET error == LineError(logfile[line + 1], lv, rv) IN
       \/ /\ error = 0
          /\ specs' = Append(specs, [lval |-> lv.vals, rval |-> rv.vals])
          /\ line' = line + 1 /\ UNCHANGED outcome
       \/ /\ error # 0
          /\ outcome' = ToString(error) /\ UNCHANGED <<specs, line>>
  /\ UNCHANGED <<logfile, file, at, event, original>>

start_events ==
  /\ outcome = "rules" /\ line = Len(logfile)
  /\ outcome' = "events"
  /\ UNCHANGED <<rules, file, at, event, original>>

----------------------------------------------------------------------------
(* The events. *)

And(b, m) == CASE m = 255 -> b
               [] m = 240 -> b - (b % 16)
               [] m = 15 -> b % 16
               [] m = 0 -> 0

ByteAt(buf, q, stray) == IF q \in DOMAIN buf THEN buf[q] ELSE stray

(* Does rule s match: its first byte the status, the others what follows.  *)
(* Nothing stops the comparison at the end of the event.                   *)
FirstData(buf, e) == e.data + (IF buf[e.data] = e.running_status THEN 1 ELSE 0)
matches(s, buf, e, stray) ==
  LET lv == specs[s].lval IN
  /\ And(e.running_status, lv[1].mask) = lv[1].val
  /\ \A k \in 2 .. Len(lv) :
       And(ByteAt(buf, FirstData(buf, e) + k - 2, stray), lv[k].mask) = lv[k].val

Rule(buf, e, stray) ==
  CHOOSE s \in DOMAIN specs : matches(s, buf, e, stray)
    /\ \A r \in 1 .. s - 1 : ~matches(r, buf, e, stray)

(* What the masks of the search leave for the replacement: mval, the last  *)
(* byte under ?, and nval, the last nibble under x, in both halves.  A     *)
(* data byte taken moves on to the next but one.                           *)
masked(lv, buf, e, stray) ==
  LET begin == [j |-> FirstData(buf, e) - 1, mval |-> stray, nval |-> stray]
      take(a, k) ==
        LET b == IF k = 1 THEN e.running_status ELSE ByteAt(buf, a.j, stray)
            m == lv[k].mask
            skip == IF k > 1 /\ m # 255 THEN 2 ELSE 1
        IN [j    |-> a.j + skip,
            mval |-> IF m = 0 THEN b ELSE a.mval,
            nval |-> IF m \in {240, 15} THEN b - And(b, m) ELSE a.nval]
      all == FoldLeft(take, begin, [k \in DOMAIN lv |-> k])
      n   == all.nval
  IN [mval |-> all.mval,
      nval |-> IF n % 16 # 0 THEN (n % 16) * 17 ELSE n + n \div 16]

Replacement(s, buf, e, stray) ==
  LET found == masked(specs[s].lval, buf, e, stray)
      rv    == specs[s].rval
  IN [i \in DOMAIN rv |->
        IF rv[i].mask = 255 THEN rv[i].val
        ELSE IF rv[i].mask = 0 THEN found.mval
        ELSE rv[i].val + found.nval - And(found.nval, rv[i].mask)]

(* Mutant of needs_status: the status is never written out. *)
status_never(buf, e, new) == FALSE

(* The event behind, if it relies on the status that is replaced. *)
needs_status(buf, e, new) ==
  /\ e.track_continued /\ isvalrst(e.running_status) /\ e.running_status # new
  /\ LET next == get_event(buf, e.ptr, e.running_status)
     IN next.running_status # buf[next.data]

insert_explicit_status(buf, p, status) ==
  LET q == VlnEnd(buf, p) IN SubSeq(buf, 1, q) \o <<status>> \o SubSeq(buf, q + 1, Len(buf))

(* The buffer with event e replaced by the bytes of rv; without any left,  *)
(* the delta goes too.                                                     *)
Spliced(buf, spoken, e, bytes, new) ==
  LET keep == IF bytes = <<>> THEN e.org - 1 ELSE e.data - 1
  IN [buf |-> SubSeq(spoken, 1, keep) \o bytes \o SubSeq(spoken, e.ptr, Len(spoken)),
      ptr |-> keep + Len(bytes) + 1,
      running_status |-> new]

Answered(buf, e, rv, new) ==
  Spliced(buf,
          IF needs_status(buf, e, new)
          THEN insert_explicit_status(buf, e.ptr, e.running_status) ELSE buf,
          e,
          IF e.running_status = new /\ buf[e.data] # new THEN Tail(rv) ELSE rv,
          new)
replaced(buf, e, rv) == Answered(buf, e, rv, IF rv = <<>> THEN 0 ELSE rv[1])

(* The length of the chunk follows what was put in or taken out. *)
resized(d) == [chunks EXCEPT ![at.chunk].len = @ + d]

(* One event: get_event and replace_event. *)
replace_event ==
  /\ outcome = "events" /\ event # Syntax
  /\ event.track_continued
  /\ \E stray \in Stray, e \in {get_event(buffer, event.ptr, event.running_status)} :
       \/ /\ \E s \in DOMAIN specs : matches(s, buffer, e, stray)
          /\ \E r \in {replaced(buffer, e,
                          Replacement(Rule(buffer, e, stray), buffer, e, stray))} :
               /\ buffer' = r.buf
               /\ chunks' = resized(Len(r.buf) - Len(buffer))
               /\ event' = [ptr |-> r.ptr, running_status |-> r.running_status,
                            track_continued |-> e.track_continued]
       \/ /\ \A s \in DOMAIN specs : ~matches(s, buffer, e, stray)
          /\ event' = [ptr |-> e.ptr, running_status |-> e.running_status,
                       track_continued |-> e.track_continued]
          /\ UNCHANGED file
  /\ UNCHANGED <<rules, outcome, at, original>>

(* The next chunk, until as many tracks are done as the header counts: a   *)
(* track's events are gone through, any other chunk is passed.             *)
next_chunk ==
  /\ outcome = "events" /\ at.left > 0
  /\ \/ /\ event = Syntax /\ chunks[at.chunk].title = "MTrk"
        /\ event' = [ptr |-> at.begin, running_status |-> 0, track_continued |-> TRUE]
        /\ UNCHANGED at
     \/ /\ IF event = Syntax THEN chunks[at.chunk].title # "MTrk" ELSE ~event.track_continued
        /\ at' = [chunk |-> at.chunk + 1, begin |-> at.begin + chunks[at.chunk].len,
                  left  |-> IF event = Syntax THEN at.left ELSE at.left - 1]
        /\ event' = Syntax
  /\ UNCHANGED <<rules, outcome, file, original>>

(* What lies behind the last track is not written. *)
write_file ==
  /\ outcome = "events" /\ at.left = 0
  /\ outcome' = "written"
  /\ buffer' = SubSeq(buffer, 1, at.begin - 1)
  /\ UNCHANGED <<rules, chunks, at, event, original>>

----------------------------------------------------------------------------
(* A file is given to MIDILOG. *)
LogIdle ==
  /\ specs = <<>> /\ line = 0 /\ logfile = <<>> /\ outcome = "idle"
  /\ buffer = <<>> /\ chunks = <<>> /\ at = [chunk |-> 1, begin |-> 1, left |-> 0] /\ event = Syntax
  /\ original = <<>>

TracksOf(f) == {i \in DOMAIN f : f[i].title = "MTrk"}

(* f: the chunks, each with its title and its bytes; the header counts the *)
(* tracks among them.                                                      *)
Open(f) ==
  /\ outcome = "idle" /\ outcome' = "rules"
  /\ logfile' \in Logfiles
  /\ buffer' = FlattenSeq([i \in DOMAIN f |-> f[i].body])
  /\ chunks' = [i \in DOMAIN f |-> [title |-> f[i].title, len |-> Len(f[i].body)]]
  /\ original' = f
  /\ at' = [at EXCEPT !.left = Cardinality(TracksOf(f))]
  /\ UNCHANGED <<specs, line, event>>

----------------------------------------------------------------------------
(* Properties. *)

(* The events of a track as a reader sees them, from p on: each with its   *)
(* delta and the bytes it has when its status is spelled out.              *)
Self(buf, e) ==
  [delta |-> get_vln(buf, e.org),
   bytes |-> (IF buf[e.data] = e.running_status THEN <<>> ELSE <<e.running_status>>)
             \o SubSeq(buf, e.data, e.ptr - 1)]
Following(buf, e) ==
  IF e.track_continued THEN get_event(buf, e.ptr, e.running_status) ELSE e
EventsOf(buf, p, running) ==
  LET frame[n \in Nat] ==
        IF n <= 1 THEN get_event(buf, p, running) ELSE Following(buf, frame[n - 1])
      last == CHOOSE n \in 1 .. Len(buf) :
                ~frame[n].track_continued /\ \A k \in 1 .. n - 1 : frame[k].track_continued
  IN [n \in 1 .. last |-> Self(buf, frame[n])]

(* What an event becomes under the rules: the first that its bytes begin   *)
(* with, masks apart.                                                      *)
Fits(lv, b) ==
  /\ Len(b) >= Len(lv)
  /\ \A k \in DOMAIN lv : And(b[k], lv[k].mask) = lv[k].val
LastUnder(lv, b, masks) ==
  LET ks == {k \in DOMAIN lv : lv[k].mask \in masks}
      k  == CHOOSE k \in ks : \A j \in ks : j <= k
  IN IF ks = {} THEN 0 ELSE b[k] - And(b[k], lv[k].mask)
Nibble(n) == IF n % 16 # 0 THEN n % 16 ELSE n \div 16
Translation(ev) ==
  LET rulesFor == {s \in DOMAIN specs : Fits(specs[s].lval, ev.bytes)}
      s  == CHOOSE s \in rulesFor : \A r \in rulesFor : s <= r
      lv == specs[s].lval
      rv == specs[s].rval
      new == [i \in DOMAIN rv |->
                CASE rv[i].mask = 255 -> rv[i].val
                  [] rv[i].mask = 0 -> LastUnder(lv, ev.bytes, {0})
                  [] rv[i].mask = 240 -> rv[i].val + Nibble(LastUnder(lv, ev.bytes, {240, 15}))
                  [] rv[i].mask = 15 ->
                       rv[i].val + 16 * Nibble(LastUnder(lv, ev.bytes, {240, 15}))]
  IN IF rulesFor = {} THEN <<ev>>
     ELSE IF rv = <<>> THEN <<>>
     ELSE <<[ev EXCEPT !.bytes = new]>>

(* The rules the manual describes: what ? and x stand for is given by the  *)
(* search, of which only the last masked value counts; with two masked     *)
(* data bytes the code takes a byte too far on.                            *)
Restores(masks) ==
  \A s \in DOMAIN specs :
    (\E i \in DOMAIN specs[s].rval : specs[s].rval[i].mask \in masks)
      => \E k \in DOMAIN specs[s].lval : specs[s].lval[k].mask \in masks
OneDataMask ==
  \A s \in DOMAIN specs :
    \A j, k \in 2 .. Len(specs[s].lval) :
      specs[s].lval[j].mask # 255 /\ specs[s].lval[k].mask # 255 => j = k

BodyOf(i) ==
  LET begin[j \in 1 .. Len(chunks)] ==
        IF j = 1 THEN 0 ELSE begin[j - 1] + chunks[j - 1].len
  IN SubSeq(buffer, begin[i] + 1, begin[i] + chunks[i].len)

(* The file that is written holds, chunk by chunk up to the last track,    *)
(* the events of the file that was read, each one translated, and nothing  *)
(* else: no move of the buffer and no dropped or inserted status disturbs  *)
(* another event or another chunk (MIDILOG.C 630-723, 786-820).            *)
EventsTranslated ==
  outcome = "written" /\ Restores({0}) /\ Restores({15, 240}) /\ OneDataMask =>
    \A i \in 1 .. Max(TracksOf(original)) :
      IF chunks[i].title = "MTrk"
      THEN EventsOf(BodyOf(i), 1, 0)
           = FlattenSeq([k \in DOMAIN EventsOf(original[i].body, 1, 0) |->
                Translation(EventsOf(original[i].body, 1, 0)[k])])
      ELSE BodyOf(i) = original[i].body
=============================================================================
