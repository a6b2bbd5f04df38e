------------------------------ MODULE EventLog ------------------------------
(***************************************************************************)
(* The event log events.jsonl: record_event and read_event_stream of       *)
(* bus.py.  A record is one line appended under the events_log lock; the   *)
(* bytes of a line reach the file one after the other, and a kill or a full*)
(* disk may cut it anywhere: in the middle of the JSON, or just before the *)
(* newline.  The next line is then glued to what was left.  Readers take no*)
(* lock and see the file as it is.                                         *)
(***************************************************************************)
EXTENDS Integers, Sequences, FiniteSets

CONSTANTS
  Event,   \* bound: events ever recorded, each once
  Limit,   \* how many lines a reader asks for
  MaxTorn, \* bound: lines cut short in a behaviour
  None     \* nobody is inside the events_log lock

ASSUME LogAssumption == Limit \in Nat \ {0} /\ MaxTorn \in Nat /\ None \notin Event

VARIABLES
  lines,    \* the file, line by line: what is on each line (the JSON of an
            \* event comes in two pieces, cut anywhere: <<"head", e>> and
            \* <<"tail", e>>), and whether its newline is there
  writer,   \* the event whose record_event is inside the lock, or None
  recorded, \* history: events whose whole line got into the file, newline
            \* included, in that order: record_event is about to return, has
            \* returned, or was killed just before it did
  failed,   \* history: events whose record_event raised or was killed before that
  torn      \* history: those of them that left something in the file

vars == <<lines, writer, recorded, failed, torn>>

Init ==
  /\ lines = <<>> /\ writer = None
  /\ recorded = <<>> /\ failed = {} /\ torn = {}

Recorded == {recorded[i] : i \in DOMAIN recorded}

Done(e) == e \in failed \union Recorded

-----------------------------------------------------------------------------
(* record_event                                                             *)

Unfinished == lines # <<>> /\ ~lines[Len(lines)].ended

\* The file is opened for appending: what comes next goes to the end of the last
\* line, if that has no newline yet.
Appended(piece) ==
  IF Unfinished
    THEN [lines EXCEPT ![Len(lines)].text = Append(@, piece)]
    ELSE Append(lines, [text |-> <<piece>>, ended |-> FALSE])

On(piece) == Unfinished /\ LET t == lines[Len(lines)].text IN t[Len(t)] = piece

Enter(e) ==
  /\ ~Done(e) /\ writer = None
  /\ writer' = e
  /\ UNCHANGED <<lines, recorded, failed, torn>>

\* The lock does not become free in time: TimeoutError.
TimesOut(e) ==
  /\ ~Done(e) /\ writer \notin {None, e}
  /\ failed' = failed \union {e}
  /\ UNCHANGED <<lines, writer, recorded, torn>>

WriteHead(e) ==
  /\ writer = e /\ e \notin Recorded
  /\ ~On(<<"head", e>>) /\ ~On(<<"tail", e>>)
  /\ lines' = Appended(<<"head", e>>)
  /\ UNCHANGED <<writer, recorded, failed, torn>>

WriteTail(e) ==
  /\ writer = e /\ On(<<"head", e>>)
  /\ lines' = Appended(<<"tail", e>>)
  /\ UNCHANGED <<writer, recorded, failed, torn>>

\* mutated form: the record is written without its newline
EndWithoutNewline(e) ==
  /\ writer = e /\ On(<<"tail", e>>)
  /\ recorded' = Append(recorded, e)
  /\ UNCHANGED <<lines, writer, failed, torn>>

\* The newline reaches the file: from here on the record is whole, whatever
\* becomes of the process.
WriteNewline(e) ==
  /\ writer = e /\ On(<<"tail", e>>)
  /\ lines' = [lines EXCEPT ![Len(lines)].ended = TRUE]
  /\ recorded' = Append(recorded, e)
  /\ UNCHANGED <<writer, failed, torn>>

\* The close, the release of the lock and the return of record_event; a kill at
\* any of them leaves the same file, the lock to those who evict it, and a caller
\* that never learns of its record.
Return(e) ==
  /\ writer = e /\ e \in Recorded
  /\ writer' = None
  /\ UNCHANGED <<lines, recorded, failed, torn>>

\* The process is killed, or the write fails and record_event raises, before the
\* line is whole, with what has been written so far in the file.
CutShort(e) ==
  /\ writer = e /\ e \notin Recorded
  /\ failed' = failed \union {e}
  /\ \/ torn' = torn /\ ~On(<<"head", e>>) /\ ~On(<<"tail", e>>)
     \/ /\ On(<<"head", e>>) \/ On(<<"tail", e>>)
        /\ Cardinality(torn) < MaxTorn
        /\ torn' = torn \union {e}
  /\ writer' = None
  /\ UNCHANGED <<lines, recorded>>

Next ==
  \E e \in Event :
    \/ Enter(e) \/ TimesOut(e) \/ WriteHead(e) \/ WriteTail(e) \/ WriteNewline(e)
    \/ Return(e) \/ CutShort(e)

Spec == Init /\ [][Next]_vars

-----------------------------------------------------------------------------
(* read_event_stream                                                        *)

\* json.loads succeeds on a line that is one whole event, with its newline or not.
Parses(line) == \E e \in Event : line.text = <<<<"head", e>>, <<"tail", e>>>>
EventOn(line) == line.text[1][2]

\* mutated form: the stream ends at the first line that does not parse
StreamUntilTorn(n) ==
  LET first == IF Len(lines) > n THEN Len(lines) - n + 1 ELSE 1
      bad   == {i \in first .. Len(lines) : ~Parses(lines[i])}
  IN {i \in first .. Len(lines) : \A j \in bad : i < j}

\* The last n lines, those that do not parse skipped: their places.
Stream(n) ==
  LET first == IF Len(lines) > n THEN Len(lines) - n + 1 ELSE 1
  IN {i \in first .. Len(lines) : Parses(lines[i])}

Shown(n) == {EventOn(lines[i]) : i \in Stream(n)}

Everything == Len(lines) + 1

-----------------------------------------------------------------------------
(* Properties.                                                              *)

\* A line cut short costs at most one event whose own line is whole, whether or
\* not record_event lived to return: the one that is glued to it.
LossIsBounded ==
  Cardinality(Recorded \ Shown(Everything)) <= Cardinality(torn)

\* An event whose line is whole and that readers are shown stays shown: no later
\* record, finished or not, is ever glued to it.
ShownStaysShown ==
  [][\A e \in Recorded : e \in Shown(Everything) => e \in Shown(Everything)']_vars

\* A reader that asks for the last Limit lines misses of the newest Limit events
\* on whole lines at most one for each line cut short, and one for a record in
\* progress whose line is not whole yet.
WindowIsNearlyFull ==
  LET newest == {recorded[i] : i \in {j \in DOMAIN recorded : j > Len(recorded) - Limit}}
  IN Cardinality(newest \ Shown(Limit)) <=
       Cardinality(torn) + (IF writer \in Recorded \union {None} THEN 0 ELSE 1)
=============================================================================
