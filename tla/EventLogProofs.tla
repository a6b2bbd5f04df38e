--------------------------- MODULE EventLogProofs ---------------------------
(***************************************************************************)
(* What EventLog promises for any number of events, of lines cut short and *)
(* of lines a reader asks for.  The argument needs no induction over the   *)
(* log: finished lines and recorded events correspond one to one, in the   *)
(* same order, and a line whose record is spoilt starts with a piece of an *)
(* event that was cut short, another one for each such line.               *)
(***************************************************************************)
EXTENDS EventLog, FiniteSetTheorems, FunctionTheorems, SequenceTheorems, TLAPS

Piece    == {"head", "tail"} \X Event
Line     == [text : Seq(Piece), ended : BOOLEAN]
Whole(e) == <<<<"head", e>>, <<"tail", e>>>>
Begun(e) == <<<<"head", e>>>>

Opener(l) == l.text[1][2]
Closer(l) == l.text[Len(l.text)]

LogType ==
  /\ lines \in Seq(Line)
  /\ \A i \in 1 .. Len(lines) : lines[i].text # <<>>
  /\ writer \in Event \union {None}
  /\ recorded \in Seq(Event)
  /\ failed \in SUBSET Event
  /\ torn \in SUBSET failed /\ IsFiniteSet(torn)

\* The record in progress is not in the file yet, or not whole.
InProgress == writer \notin Recorded \union {None}

\* A record is whole or given up, never both.
OneOutcome ==
  /\ writer # None => writer \notin failed
  /\ Recorded \intersect failed = {}

\* The finished lines end with the recorded events, in the order in which they
\* became whole; at most one line follows them.
InOrder ==
  /\ Len(lines) = Len(recorded) + (IF Unfinished THEN 1 ELSE 0)
  /\ \A i \in 1 .. Len(recorded) : /\ lines[i].ended
                                   /\ Closer(lines[i]) = <<"tail", recorded[i]>>

\* A line holds the record it ends with and nothing else, or begins with an event
\* that was cut short; the unfinished line may also hold just what the writer
\* has written so far.
GluedToTorn ==
  /\ \A i \in 1 .. Len(recorded) :
       lines[i].text = Whole(recorded[i]) \/ Opener(lines[i]) \in torn
  /\ Unfinished =>
       \/ Opener(lines[Len(lines)]) \in torn
       \/ /\ InProgress
          /\ lines[Len(lines)].text \in {Begun(writer), Whole(writer)}

\* No event begins two lines.
OpenersDiffer ==
  \A i, j \in 1 .. Len(lines) : Opener(lines[i]) = Opener(lines[j]) => i = j

LogInv == LogType /\ OneOutcome /\ InOrder /\ GluedToTorn /\ OpenersDiffer

LEMMA LogInitially == Init => LogInv
  BY FS_EmptySet DEF Init, LogInv, LogType, OneOutcome, InOrder, GluedToTorn,
     OpenersDiffer, Recorded, Unfinished

-----------------------------------------------------------------------------
(* What the steps do to the file.                                           *)

LEMMA PairText ==
  ASSUME NEW a, NEW b
  PROVE  /\ Append(<<a>>, b) = <<a, b>>
         /\ Len(<<a, b>>) = 2 /\ <<a, b>>[1] = a /\ <<a, b>>[2] = b
         /\ Len(<<a>>) = 1 /\ <<a>>[1] = a
<1>1. Append(<<a>>, b) = <<a, b>>
  <2> DEFINE S == {a, b}
             s == Append(<<a>>, b)
             t == <<a, b>>
  <2>1. s \in Seq(S) /\ Len(s) = 2 /\ s[1] = a /\ s[2] = b
    <3>1. <<a>> \in Seq(S) /\ b \in S /\ Len(<<a>>) = 1
      OBVIOUS
    <3>2. Append(<<a>>, b) \in Seq(S)
      BY <3>1
    <3> QED
      BY <3>1, <3>2
  <2>2. t \in Seq(S) /\ Len(t) = 2 /\ t[1] = a /\ t[2] = b
    OBVIOUS
  <2> HIDE DEF S, s, t
  <2>3. s = t
    BY <2>1, <2>2, SeqEqual
  <2> QED
    BY <2>3 DEF s, t
<1>2. Len(<<a, b>>) = 2 /\ <<a, b>>[1] = a /\ <<a, b>>[2] = b
  OBVIOUS
<1>3. Len(<<a>>) = 1 /\ <<a>>[1] = a
  OBVIOUS
<1> QED
  BY <1>1, <1>2, <1>3

\* The record of an event is its head and then its tail.
LEMMA RecordText ==
  ASSUME NEW e
  PROVE  /\ Append(Begun(e), <<"tail", e>>) = Whole(e)
         /\ Len(Whole(e)) = 2 /\ Whole(e)[1] = <<"head", e>> /\ Whole(e)[2] = <<"tail", e>>
         /\ Len(Begun(e)) = 1 /\ Begun(e)[1] = <<"head", e>>
         /\ <<"head", e>> # <<"tail", e>>
<1> DEFINE h == <<"head", e>>
           t == <<"tail", e>>
<1>1. h # t
  OBVIOUS
<1>2. Whole(e) = <<h, t>> /\ Begun(e) = <<h>>
  BY DEF Whole, Begun
<1> HIDE DEF h, t
<1>3. /\ Append(<<h>>, t) = <<h, t>>
      /\ Len(<<h, t>>) = 2 /\ <<h, t>>[1] = h /\ <<h, t>>[2] = t
      /\ Len(<<h>>) = 1 /\ <<h>>[1] = h
  BY PairText
<1> QED
  BY <1>1, <1>2, <1>3 DEF h, t

LEMMA LineText ==
  ASSUME NEW l \in Line, NEW t
  PROVE  [l EXCEPT !.text = t] = [text |-> t, ended |-> l.ended]
  BY DEF Line

LEMMA LastLine ==
  ASSUME LogType, lines # <<>>
  PROVE  /\ Len(lines) \in 1 .. Len(lines) /\ lines[Len(lines)] \in Line
         /\ lines[Len(lines)].text # <<>>
  BY DEF LogType

\* A piece is written: it closes the last line, which starts as before or with
\* it, and everything above stays.
LEMMA AppendedPiece ==
  ASSUME LogInv, NEW p \in Piece, lines' = Appended(p)
  PROVE  /\ lines' \in Seq(Line)
         /\ \A i \in 1 .. Len(lines') : lines'[i].text # <<>>
         /\ Len(lines') = Len(recorded) + 1
         /\ Unfinished'
         /\ \A i \in 1 .. Len(recorded) : i \in 1 .. Len(lines) /\ lines'[i] = lines[i]
         /\ ~Unfinished => lines'[Len(lines')].text = <<p>>
         /\ Unfinished =>
              /\ Len(lines') = Len(lines)
              /\ lines'[Len(lines')].text = Append(lines[Len(lines)].text, p)
              /\ Opener(lines'[Len(lines')]) = Opener(lines[Len(lines)])
<1> USE DEF LogInv, LogType
<1> DEFINE n == Len(lines)
<1>1. CASE Unfinished
  <2>1. n \in 1 .. n /\ lines[n] \in Line /\ lines[n].text # <<>> /\ n = Len(recorded) + 1
    BY <1>1, LastLine DEF Unfinished, InOrder
  <2> DEFINE t == Append(lines[n].text, p)
  <2>2. t \in Seq(Piece) /\ t # <<>> /\ t[1] = lines[n].text[1]
    <3> DEFINE old == lines[n].text
    <3>1. old \in Seq(Piece) /\ old # <<>>
      BY <2>1 DEF Line
    <3> HIDE DEF old
    <3>2. Append(old, p) \in Seq(Piece) /\ Append(old, p) # <<>> /\ Append(old, p)[1] = old[1]
      BY <3>1
    <3> QED
      BY <3>2 DEF old
  <2>3. lines' = [lines EXCEPT ![n] = [text |-> t, ended |-> FALSE]]
    <3>1. lines' = [lines EXCEPT ![n].text = t]
      BY <1>1 DEF Appended
    <3>2. lines[n].ended = FALSE
      BY <1>1, <2>1 DEF Unfinished, Line
    <3> HIDE DEF t
    <3>3. [lines[n] EXCEPT !.text = t] = [text |-> t, ended |-> FALSE]
      BY <2>1, <3>2, LineText
    <3>4. lines' = [lines EXCEPT ![n] = [lines[n] EXCEPT !.text = t]]
      BY <3>1
    <3> QED
      BY <3>3, <3>4
  <2> HIDE DEF t
  <2>4. [text |-> t, ended |-> FALSE] \in Line
    BY <2>2 DEF Line
  <2>5. lines' \in Seq(Line) /\ Len(lines') = n
    BY <2>1, <2>3, <2>4
  <2>6. \A i \in 1 .. n : lines'[i] = IF i = n THEN [text |-> t, ended |-> FALSE] ELSE lines[i]
    BY <2>1, <2>3
  <2>7. Unfinished'
    <3>1. lines'[n] = [text |-> t, ended |-> FALSE]
      BY <2>1, <2>6
    <3>2. lines' # <<>> /\ Len(lines') = n
      BY <2>1, <2>5
    <3> QED
      BY <3>1, <3>2 DEF Unfinished
  <2>8. Opener(lines'[n]) = Opener(lines[n]) /\ lines'[n].text = t
    BY <2>1, <2>2, <2>6 DEF Opener
  <2>9. \A i \in 1 .. n : lines'[i].text # <<>>
    BY <2>2, <2>6
  <2>10. \A i \in 1 .. Len(recorded) : i \in 1 .. n /\ lines'[i] = lines[i]
    BY <2>1, <2>6
  <2> QED
    BY <1>1, <2>1, <2>5, <2>7, <2>8, <2>9, <2>10 DEF t
<1>2. CASE ~Unfinished
  <2> DEFINE l == [text |-> <<p>>, ended |-> FALSE]
  <2>1. l \in Line /\ l.text # <<>> /\ n = Len(recorded) /\ n \in Nat
    BY <1>2 DEF Line, InOrder
  <2>2. lines' = Append(lines, l)
    BY <1>2 DEF Appended
  <2>3. ~l.ended /\ l.text = <<p>>
    OBVIOUS
  <2> HIDE DEF l
  <2>4. lines' \in Seq(Line) /\ Len(lines') = n + 1 /\ lines'[n + 1] = l
    BY <2>1, <2>2
  <2>5. \A i \in 1 .. n : lines'[i] = lines[i]
    BY <2>1, <2>2
  <2>6. Unfinished'
    BY <2>1, <2>3, <2>4 DEF Unfinished
  <2>7. \A i \in 1 .. Len(lines') : lines'[i].text # <<>>
    <3> TAKE i \in 1 .. Len(lines')
    <3>1. i \in 1 .. n \/ i = n + 1
      BY <2>1, <2>4
    <3> QED
      BY <2>1, <2>4, <2>5, <3>1
  <2>8. lines'[Len(lines')].text = <<p>>
    BY <2>3, <2>4
  <2> QED
    BY <1>2, <2>1, <2>4, <2>5, <2>6, <2>7, <2>8
<1> QED
  BY <1>1, <1>2

\* A writer that has nothing of its record in the file begins a line with it, or
\* the line it goes to was begun by an event that was cut short.
LEMMA WriteHeadKeeps == ASSUME LogInv, NEW e \in Event, WriteHead(e) PROVE LogInv'
<1> DEFINE p == <<"head", e>>
           n == Len(lines')
<1>1. /\ p \in Piece /\ lines' = Appended(p) /\ writer = e /\ e # None
      /\ e \notin Recorded
      /\ ~On(<<"head", e>>) /\ ~On(<<"tail", e>>)
      /\ UNCHANGED <<writer, recorded, failed, torn>>
  BY LogAssumption DEF WriteHead, Piece
<1>2. /\ lines' \in Seq(Line)
      /\ \A i \in 1 .. Len(lines') : lines'[i].text # <<>>
      /\ n = Len(recorded) + 1 /\ Unfinished'
      /\ \A i \in 1 .. Len(recorded) : i \in 1 .. Len(lines) /\ lines'[i] = lines[i]
  BY <1>1, AppendedPiece
<1>3. CASE Unfinished
  <2>1. /\ Len(lines) = n /\ Opener(lines'[n]) = Opener(lines[n])
        /\ n \in 1 .. n /\ lines[n].text # <<>>
    BY <1>1, <1>3, AppendedPiece, LastLine DEF LogInv, Unfinished
  <2>2. Opener(lines[n]) \in torn
    <3>1. lines[n].text # Begun(writer)
      BY <1>1, <1>3, <2>1, RecordText DEF On
    <3>2. lines[n].text # Whole(writer)
      BY <1>1, <1>3, <2>1, RecordText DEF On
    <3> QED
      BY <1>3, <2>1, <3>1, <3>2 DEF LogInv, GluedToTorn
  <2>3. \A i \in 1 .. n : Opener(lines'[i]) = Opener(lines[i])
    BY <1>2, <2>1 DEF LogInv, LogType
  <2>4. OpenersDiffer'
    BY <2>1, <2>3 DEF LogInv, OpenersDiffer
  <2>5. GluedToTorn'
    BY <1>1, <1>2, <2>1, <2>2 DEF LogInv, GluedToTorn, Opener
  <2> QED
    BY <1>1, <1>2, <2>4, <2>5 DEF LogInv, LogType, OneOutcome, InOrder, Recorded, Closer
<1>4. CASE ~Unfinished
  <2>1. /\ lines'[n].text = Begun(e) /\ Opener(lines'[n]) = e
        /\ Len(lines) = Len(recorded) /\ Len(recorded) \in Nat
    <3>1. lines'[n].text = <<p>>
      BY <1>1, <1>4, AppendedPiece
    <3>2. Len(lines) = Len(recorded) /\ Len(recorded) \in Nat
      BY <1>4 DEF LogInv, LogType, InOrder
    <3> QED
      BY <3>1, <3>2 DEF Begun, Opener
  <2>2. \A i \in 1 .. Len(recorded) : Opener(lines[i]) # e
    BY <1>1 DEF LogInv, GluedToTorn, OneOutcome, Recorded, Opener, Whole, LogType
  <2>3. OpenersDiffer'
    BY <1>2, <2>1, <2>2 DEF LogInv, OpenersDiffer
  <2>4. GluedToTorn'
    BY <1>1, <1>2, <2>1 DEF LogInv, GluedToTorn, Opener, InProgress, Recorded
  <2> QED
    BY <1>1, <1>2, <2>3, <2>4 DEF LogInv, LogType, OneOutcome, InOrder, Recorded, Closer
<1> QED
  BY <1>3, <1>4

LEMMA WriteTailKeeps == ASSUME LogInv, NEW e \in Event, WriteTail(e) PROVE LogInv'
<1> DEFINE p == <<"tail", e>>
           n == Len(lines')
<1>1. /\ p \in Piece /\ lines' = Appended(p) /\ writer = e /\ e # None
      /\ On(<<"head", e>>)
      /\ UNCHANGED <<writer, recorded, failed, torn>>
  BY LogAssumption DEF WriteTail, Piece
<1>2. Unfinished
  BY <1>1 DEF On
<1>3. /\ lines' \in Seq(Line)
      /\ \A i \in 1 .. Len(lines') : lines'[i].text # <<>>
      /\ n = Len(recorded) + 1 /\ Unfinished'
      /\ \A i \in 1 .. Len(recorded) : i \in 1 .. Len(lines) /\ lines'[i] = lines[i]
      /\ Len(lines) = n /\ Opener(lines'[n]) = Opener(lines[n])
      /\ lines'[n].text = Append(lines[n].text, p)
  BY <1>1, <1>2, AppendedPiece
<1>4. Opener(lines[n]) \in torn \/ (InProgress /\ lines'[n].text = Whole(e))
  <2>1. lines[n].text # Whole(e)
    <3>1. lines[n].text[Len(lines[n].text)] = <<"head", e>>
      BY <1>1, <1>2, <1>3 DEF On
    <3> QED
      BY <3>1, RecordText
  <2>2. lines[n].text = Begun(e) => lines'[n].text = Whole(e)
    BY <1>3, RecordText
  <2> QED
    BY <1>1, <1>2, <1>3, <2>1, <2>2 DEF LogInv, GluedToTorn
<1>5. \A i \in 1 .. n : Opener(lines'[i]) = Opener(lines[i])
  BY <1>3 DEF LogInv, LogType
<1>6. OpenersDiffer'
  BY <1>3, <1>5 DEF LogInv, OpenersDiffer
<1>7. GluedToTorn'
  BY <1>1, <1>3, <1>4 DEF LogInv, GluedToTorn, Opener, InProgress, Recorded
<1> QED
  BY <1>1, <1>3, <1>6, <1>7 DEF LogInv, LogType, OneOutcome, InOrder, Recorded, Closer

\* The newline finishes the last line: it is the line of the event just recorded.
LEMMA WriteNewlineKeeps == ASSUME LogInv, NEW e \in Event, WriteNewline(e) PROVE LogInv'
<1> DEFINE n == Len(lines)
<1>1. /\ On(<<"tail", e>>) /\ writer = e /\ e # None
      /\ lines' = [lines EXCEPT ![n].ended = TRUE]
      /\ recorded' = Append(recorded, e)
      /\ UNCHANGED <<writer, failed, torn>>
  BY LogAssumption DEF WriteNewline
<1>2. Unfinished /\ n \in 1 .. n /\ lines[n] \in Line /\ lines[n].text # <<>>
  BY <1>1, LastLine DEF On, Unfinished, LogInv
<1>3. /\ n = Len(recorded) + 1 /\ Len(recorded) \in Nat
      /\ Closer(lines[n]) = <<"tail", e>>
  BY <1>1, <1>2 DEF On, LogInv, LogType, InOrder, Closer
<1>4. /\ lines' \in Seq(Line) /\ Len(lines') = n
      /\ \A i \in 1 .. n : lines'[i].text = lines[i].text
      /\ lines'[n].ended
      /\ \A i \in 1 .. Len(recorded) : lines'[i] = lines[i]
  <2> DEFINE l == [lines[n] EXCEPT !.ended = TRUE]
  <2>1. l \in Line /\ l.text = lines[n].text /\ l.ended
    BY <1>2 DEF Line
  <2>2. lines' = [lines EXCEPT ![n] = l]
    BY <1>1
  <2> HIDE DEF l
  <2> QED
    BY <1>2, <1>3, <2>1, <2>2 DEF LogInv, LogType
<1>5. /\ recorded' \in Seq(Event) /\ Len(recorded') = n
      /\ \A i \in 1 .. Len(recorded) : recorded'[i] = recorded[i]
      /\ recorded'[n] = e
  BY <1>1, <1>3 DEF LogInv, LogType
<1>6. Recorded' = Recorded \union {e}
  <2>1. \A i \in 1 .. n : i \in 1 .. Len(recorded) \/ i = n
    BY <1>3
  <2> QED
    BY <1>3, <1>5, <2>1 DEF Recorded, LogInv, LogType
<1>7. LogType'
  BY <1>1, <1>4, <1>5 DEF LogInv, LogType
<1>8. OneOutcome'
  BY <1>1, <1>6 DEF LogInv, OneOutcome
<1>9. ~Unfinished'
  BY <1>4 DEF Unfinished
<1>10. InOrder'
  <2>1. \A i \in 1 .. n : i \in 1 .. Len(recorded) \/ i = n
    BY <1>3
  <2>2. Closer(lines'[n]) = <<"tail", e>>
    BY <1>2, <1>3, <1>4 DEF Closer
  <2> QED
    BY <1>3, <1>4, <1>5, <1>9, <2>1, <2>2 DEF LogInv, InOrder
<1>11. GluedToTorn'
  <2>1. \A i \in 1 .. n : i \in 1 .. Len(recorded) \/ i = n
    BY <1>3
  <2>2. lines[n].text = Whole(e) \/ Opener(lines[n]) \in torn
    BY <1>1, <1>2, <1>3, RecordText DEF LogInv, GluedToTorn, Closer
  <2> QED
    BY <1>1, <1>2, <1>3, <1>4, <1>5, <1>9, <2>1, <2>2 DEF LogInv, GluedToTorn, Opener
<1>12. OpenersDiffer'
  BY <1>4 DEF LogInv, OpenersDiffer, Opener
<1> QED
  BY <1>7, <1>8, <1>10, <1>11, <1>12 DEF LogInv

\* An event cut short is counted as torn if the file has a piece of it; the line
\* that piece is on is its own, or was begun by another one of those.
LEMMA CutShortKeeps == ASSUME LogInv, NEW e \in Event, CutShort(e) PROVE LogInv'
<1> DEFINE n == Len(lines)
<1>1. /\ writer = e /\ e # None /\ e \notin Recorded /\ writer' = None /\ failed' = failed \union {e}
      /\ torn' \in {torn, torn \union {e}}
      /\ (~On(<<"head", e>>) /\ ~On(<<"tail", e>>)) \/ torn' = torn \union {e}
      /\ UNCHANGED <<lines, recorded>>
  BY LogAssumption DEF CutShort
<1>2. LogType'
  <2>1. IsFiniteSet(torn) /\ IsFiniteSet(torn \union {e})
    BY FS_AddElement DEF LogInv, LogType
  <2>2. IsFiniteSet(torn')
    BY <1>1, <2>1
  <2>3. torn' \in SUBSET failed'
    BY <1>1 DEF CutShort, LogInv, LogType
  <2> QED
    BY <1>1, <2>2, <2>3 DEF LogInv, LogType
<1>3. OneOutcome'
  BY <1>1 DEF LogInv, OneOutcome, Recorded
<1>4. Unfinished' = Unfinished /\ InOrder'
  BY <1>1 DEF LogInv, InOrder, Unfinished, Closer
<1>5. Unfinished => Opener(lines[n]) \in torn'
  <2> SUFFICES ASSUME Unfinished, Opener(lines[n]) \notin torn
               PROVE  Opener(lines[n]) \in torn'
    BY <1>1
  <2>1. lines[n].text \in {Begun(e), Whole(e)}
    BY <1>1 DEF LogInv, GluedToTorn
  <2>2. Opener(lines[n]) = e
    BY <2>1, RecordText DEF Opener
  <2>3. On(<<"head", e>>) \/ On(<<"tail", e>>)
    BY <2>1, RecordText DEF On
  <2> QED
    BY <1>1, <2>2, <2>3
<1>6. GluedToTorn'
  BY <1>1, <1>4, <1>5 DEF LogInv, GluedToTorn, Opener
<1>7. OpenersDiffer'
  BY <1>1 DEF LogInv, OpenersDiffer, Opener
<1> QED
  BY <1>2, <1>3, <1>4, <1>6, <1>7 DEF LogInv

LEMMA LogInvKept == LogInv /\ [Next]_vars => LogInv'
<1> SUFFICES ASSUME LogInv, [Next]_vars PROVE LogInv'
  OBVIOUS
<1>1. ASSUME UNCHANGED <<lines, recorded, torn>>, LogType', OneOutcome',
             writer' = writer \/ ~InProgress
      PROVE  LogInv'
  BY <1>1 DEF LogInv, InOrder, GluedToTorn, OpenersDiffer, Unfinished, Opener, Closer,
     InProgress, Recorded
<1>2. ASSUME NEW e \in Event, Enter(e) PROVE LogInv'
  BY <1>1, <1>2 DEF Enter, InProgress, LogInv, LogType, OneOutcome, Done, Recorded
<1>3. ASSUME NEW e \in Event, TimesOut(e) PROVE LogInv'
  BY <1>1, <1>3 DEF TimesOut, LogInv, LogType, OneOutcome, Done, Recorded
<1>4. ASSUME NEW e \in Event, Return(e) PROVE LogInv'
  BY <1>1, <1>4 DEF Return, InProgress, LogInv, LogType, OneOutcome, Recorded
<1>5. CASE UNCHANGED vars
  BY <1>1, <1>5 DEF vars, LogInv, LogType, OneOutcome, Recorded
<1> QED
  BY <1>2, <1>3, <1>4, <1>5, WriteHeadKeeps, WriteTailKeeps, WriteNewlineKeeps,
     CutShortKeeps DEF Next

\* The log lists the recorded events in the order in which their records became
\* whole, each on a finished line it ends, and a finished line either holds one
\* record and nothing else or begins with a piece of an event cut short.
THEOREM LogInvariant == Spec => []LogInv
  BY LogInitially, LogInvKept, PTL DEF Spec

-----------------------------------------------------------------------------
(* What a reader sees.                                                      *)

Kept(i) == lines[i].text = Whole(recorded[i])

\* json.loads accepts a finished line if it is one record, and returns the event
\* recorded there.
LEMMA FinishedLine ==
  ASSUME LogInv, NEW i \in 1 .. Len(recorded)
  PROVE  /\ recorded[i] \in Event /\ i \in 1 .. Len(lines)
         /\ Kept(i) => Parses(lines[i]) /\ EventOn(lines[i]) = recorded[i]
         /\ ~Kept(i) => Opener(lines[i]) \in torn
         /\ ~Kept(i) => ~Parses(lines[i])
<1>1. recorded[i] \in Event /\ i \in 1 .. Len(lines) /\ Len(lines) \in Nat
  BY DEF LogInv, LogType, InOrder
<1>2. Kept(i) => Parses(lines[i]) /\ EventOn(lines[i]) = recorded[i]
  BY <1>1, RecordText DEF Kept, Parses, EventOn, Whole
<1>3. ~Kept(i) => Opener(lines[i]) \in torn
  BY DEF LogInv, GluedToTorn, Kept
<1>4. Parses(lines[i]) => Kept(i)
  <2> SUFFICES ASSUME NEW e \in Event, lines[i].text = Whole(e) PROVE Kept(i)
    BY DEF Parses, Whole
  <2>1. Closer(lines[i]) = <<"tail", e>>
    BY RecordText DEF Closer
  <2>2. Closer(lines[i]) = <<"tail", recorded[i]>>
    BY DEF LogInv, InOrder
  <2> QED
    BY <2>1, <2>2 DEF Kept
<1> QED
  BY <1>1, <1>2, <1>3, <1>4

\* The last n lines, or all of them.
LEMMA StreamIs ==
  ASSUME LogInv, NEW n \in Nat
  PROVE  Stream(n) = {i \in 1 .. Len(lines) : i > Len(lines) - n /\ Parses(lines[i])}
<1>1. Len(lines) \in Nat
  BY DEF LogInv, LogType
<1> QED
  BY <1>1 DEF Stream

\* What a reader of n lines misses: spoilt records, and whole ones further up.
LEMMA Missing ==
  ASSUME LogInv, NEW n \in Nat, NEW i \in 1 .. Len(recorded), recorded[i] \notin Shown(n)
  PROVE  ~Kept(i) \/ i <= Len(lines) - n
<1>1. Len(lines) \in Nat /\ i \in 1 .. Len(lines)
  BY FinishedLine DEF LogInv, LogType
<1>2. ~(Kept(i) /\ i > Len(lines) - n)
  BY <1>1, FinishedLine, StreamIs DEF Shown
<1> QED
  BY <1>1, <1>2

\* The unfinished line is no whole record of a recorded event.
LEMMA OpenLineShowsNoRecord ==
  ASSUME LogInv, Unfinished, Parses(lines[Len(lines)])
  PROVE  EventOn(lines[Len(lines)]) \notin Recorded
<1> DEFINE l == lines[Len(lines)]
<1>1. PICK e \in Event : l.text = Whole(e)
  BY DEF Parses, Whole
<1>2. EventOn(l) = e /\ Opener(l) = e
  BY <1>1, RecordText DEF EventOn, Opener
<1>3. e \in torn \/ (InProgress /\ writer = e)
  BY <1>1, <1>2, RecordText DEF LogInv, GluedToTorn
<1> QED
  BY <1>2, <1>3 DEF LogInv, LogType, OneOutcome, InProgress

\* A step leaves the finished lines and the order of the recorded events as they
\* are: the log is only ever appended to.
LEMMA FinishedLineStays ==
  ASSUME LogInv, [Next]_vars, NEW i \in 1 .. Len(recorded)
  PROVE  i \in 1 .. Len(recorded') /\ lines'[i] = lines[i] /\ recorded'[i] = recorded[i]
<1>1. Len(recorded) \in Nat /\ lines \in Seq(Line) /\ recorded \in Seq(Event)
  BY DEF LogInv, LogType
<1>2. ASSUME NEW e \in Event, WriteHead(e) \/ WriteTail(e) PROVE lines'[i] = lines[i]
  BY <1>2, AppendedPiece DEF WriteHead, WriteTail, Piece
<1>3. ASSUME NEW e \in Event, WriteNewline(e)
      PROVE  /\ i \in 1 .. Len(recorded') /\ lines'[i] = lines[i]
             /\ recorded'[i] = recorded[i]
  <2>1. Len(lines) = Len(recorded) + 1
    BY <1>3 DEF WriteNewline, On, LogInv, InOrder
  <2>2. lines'[i] = lines[i]
    BY <1>1, <1>3, <2>1 DEF WriteNewline
  <2> QED
    BY <1>1, <1>3, <2>2 DEF WriteNewline
<1> QED
  BY <1>2, <1>3 DEF Next, vars, Enter, TimesOut, Return, CutShort, WriteHead, WriteTail

\* ShownStaysShown: an event on a whole line that a reader of the whole file has once
\* seen is seen by every later reader; nothing is ever glued to it.
THEOREM ShownEventsStay == Spec => ShownStaysShown
<1> DEFINE Stays == \A e \in Recorded : e \in Shown(Everything) => e \in Shown(Everything)'
<1>1. ASSUME LogInv, LogInv', [Next]_vars PROVE Stays
  <2> SUFFICES ASSUME NEW e \in Recorded, e \in Shown(Everything)
               PROVE  e \in Shown(Everything)'
    OBVIOUS
  <2>1. Everything \in Nat /\ Everything' \in Nat /\ Len(lines) \in Nat /\ Len(lines') \in Nat
    BY <1>1 DEF Everything, LogInv, LogType
  <2>2. PICK i \in 1 .. Len(lines) : Parses(lines[i]) /\ EventOn(lines[i]) = e
    BY <1>1, <2>1, StreamIs DEF Shown
  <2>3. i \in 1 .. Len(recorded)
    <3>1. CASE Unfinished /\ i = Len(lines)
      BY <1>1, <2>2, <3>1, OpenLineShowsNoRecord
    <3> QED
      BY <1>1, <2>1, <2>2, <3>1 DEF LogInv, InOrder, LogType
  <2>4. i \in 1 .. Len(recorded') /\ lines'[i] = lines[i]
    BY <1>1, <2>3, FinishedLineStays
  <2>5. i \in 1 .. Len(lines')
    BY <1>1, <2>1, <2>4 DEF LogInv, InOrder, LogType
  <2>6. i \in Stream(Everything)'
    BY <2>1, <2>2, <2>4, <2>5 DEF Stream, Everything, Parses
  <2> QED
    BY <2>2, <2>4, <2>6 DEF Shown, EventOn
<1> QED
  BY <1>1, LogInvariant, PTL DEF Spec, ShownStaysShown

LEMMA OneMore ==
  ASSUME NEW S, NEW x, IsFiniteSet(S)
  PROVE  /\ IsFiniteSet(S \union {x})
         /\ Cardinality(S) \in Nat /\ Cardinality(S \union {x}) \in Nat
         /\ Cardinality(S \union {x}) <= Cardinality(S) + 1
<1>1. Cardinality(S) \in Nat
  BY FS_CardinalityType
<1>2. /\ IsFiniteSet(S \union {x})
      /\ Cardinality(S \union {x}) = IF x \in S THEN Cardinality(S) ELSE Cardinality(S) + 1
  BY FS_AddElement
<1> QED
  BY <1>1, <1>2

\* Charge every missed event to what began the line that hides it: its own, if
\* that is spoilt, and otherwise the unfinished line, which has pushed it out of the
\* reader's window.  No two missed events are charged to the same one.
LEMMA Charged ==
  ASSUME LogInv, NEW M, NEW at \in [M -> 1 .. Len(recorded)],
         \A e \in M : recorded[at[e]] = e,
         \A d, e \in M : Kept(at[d]) /\ Kept(at[e]) => d = e,
         NEW Hidden, Hidden = (\E e \in M : Kept(at[e])), Hidden => Unfinished
  PROVE  /\ Cardinality(M) \in Nat
         /\ Cardinality(M) <= Cardinality(torn) + (IF Hidden /\ InProgress THEN 1 ELSE 0)
<1> DEFINE Owner(i) == IF Kept(i) THEN Opener(lines[Len(lines)]) ELSE Opener(lines[i])
           T == IF Hidden /\ InProgress THEN torn \union {writer} ELSE torn
           f == [e \in M |-> Owner(at[e])]
<1>1. IsFiniteSet(torn) /\ Len(lines) \in Nat /\ Len(recorded) \in Nat
  BY DEF LogInv, LogType
<1>2. /\ IsFiniteSet(T) /\ Cardinality(T) \in Nat /\ Cardinality(torn) \in Nat
      /\ Cardinality(T) <= Cardinality(torn) + (IF Hidden /\ InProgress THEN 1 ELSE 0)
  <2>1. /\ IsFiniteSet(torn \union {writer}) /\ Cardinality(torn) \in Nat
        /\ Cardinality(torn \union {writer}) \in Nat
        /\ Cardinality(torn \union {writer}) <= Cardinality(torn) + 1
    BY <1>1, OneMore
  <2> QED
    BY <1>1, <2>1
<1>3. ASSUME NEW e \in M PROVE Owner(at[e]) \in T
  <2>1. CASE ~Kept(at[e])
    BY <2>1, FinishedLine
  <2>2. CASE Kept(at[e])
    <3>1. Hidden /\ Unfinished
      BY <2>2
    <3>2. Opener(lines[Len(lines)]) \in torn \/ (InProgress /\ Opener(lines[Len(lines)]) = writer)
      BY <3>1, RecordText DEF LogInv, GluedToTorn, Opener
    <3> QED
      BY <2>2, <3>1, <3>2
  <2> QED
    BY <2>1, <2>2
<1>4. ASSUME NEW d \in M, NEW e \in M, Owner(at[d]) = Owner(at[e]) PROVE d = e
  <2>1. /\ at[d] \in 1 .. Len(recorded) /\ at[e] \in 1 .. Len(recorded)
        /\ recorded[at[d]] = d /\ recorded[at[e]] = e
    OBVIOUS
  <2>2. at[d] \in 1 .. Len(lines) /\ at[e] \in 1 .. Len(lines)
    BY <2>1, FinishedLine
  <2>3. CASE Kept(at[d]) <=> Kept(at[e])
    BY <1>4, <2>1, <2>2, <2>3 DEF LogInv, OpenersDiffer
  <2>4. CASE ~(Kept(at[d]) <=> Kept(at[e]))
    <3>1. Len(lines) = Len(recorded) + 1
      BY <2>4 DEF LogInv, InOrder
    <3>2. Len(lines) \in 1 .. Len(lines) /\ Len(lines) # at[d] /\ Len(lines) # at[e]
      BY <1>1, <2>1, <3>1
    <3> QED
      BY <1>4, <2>2, <2>4, <3>2 DEF LogInv, OpenersDiffer
  <2> QED
    BY <2>3, <2>4
<1> HIDE DEF T, Owner
<1>5. f \in [M -> T]
  BY <1>3
<1>6. \A d, e \in M : f[d] = f[e] => d = e
  BY <1>4
<1> HIDE DEF f
<1>7. f \in Injection(M, T)
  BY <1>5, <1>6, Fun_IsInj
<1>8. IsFiniteSet(M) /\ Cardinality(M) <= Cardinality(T)
  BY <1>2, <1>7, FS_Injection
<1> QED
  BY <1>2, <1>8, FS_CardinalityType

\* LossIsBounded: however many lines are cut short, each costs a reader of the whole
\* file at most one of the events whose own line is whole.
THEOREM LossesAreBounded == Spec => []LossIsBounded
<1>1. ASSUME LogInv PROVE LossIsBounded
  <2> DEFINE M  == Recorded \ Shown(Everything)
             at == [e \in M |-> CHOOSE i \in 1 .. Len(recorded) : recorded[i] = e]
  <2>1. Len(recorded) \in Nat /\ Len(lines) \in Nat /\ Everything \in Nat
    BY <1>1 DEF LogInv, LogType, Everything
  <2>2. \A e \in M : \E i \in 1 .. Len(recorded) : recorded[i] = e
    BY <1>1 DEF Recorded, LogInv, LogType
  <2>3. at \in [M -> 1 .. Len(recorded)] /\ \A e \in M : recorded[at[e]] = e
    BY <2>2
  <2> HIDE DEF at
  <2>4. \A e \in M : ~Kept(at[e])
    <3> TAKE e \in M
    <3>1. at[e] \in 1 .. Len(recorded) /\ recorded[at[e]] \notin Shown(Everything)
      BY <2>3
    <3>2. ~(at[e] <= Len(lines) - Everything)
      BY <2>1, <3>1 DEF Everything
    <3> QED
      BY <1>1, <2>1, <3>1, <3>2, Missing
  <2> HIDE DEF M
  <2>5. /\ Cardinality(M) \in Nat
        /\ Cardinality(M) <= Cardinality(torn) + (IF FALSE /\ InProgress THEN 1 ELSE 0)
    BY <1>1, <2>3, <2>4, Charged
  <2>6. Cardinality(torn) \in Nat
    BY <1>1, FS_CardinalityType DEF LogInv, LogType
  <2> QED
    BY <2>5, <2>6 DEF M, LossIsBounded
<1> QED
  BY <1>1, LogInvariant, PTL

\* WindowIsNearlyFull: a reader of the last Limit lines misses of the newest Limit
\* recorded events at most one for each line cut short, anywhere in the file, and
\* one for the record in progress, whose line takes a place in the window.
THEOREM WindowsAreNearlyFull == Spec => []WindowIsNearlyFull
<1>1. ASSUME LogInv PROVE WindowIsNearlyFull
  <2> DEFINE late   == {j \in DOMAIN recorded : j > Len(recorded) - Limit}
             newest == {recorded[i] : i \in late}
             M      == newest \ Shown(Limit)
             at     == [e \in M |-> CHOOSE i \in late : recorded[i] = e]
  <2>1. Len(recorded) \in Nat /\ Len(lines) \in Nat /\ Limit \in Nat \ {0}
    BY <1>1, LogAssumption DEF LogInv, LogType
  <2>2. late \subseteq 1 .. Len(recorded) /\ \A i \in late : i > Len(recorded) - Limit
    BY <1>1 DEF LogInv, LogType
  <2> HIDE DEF late
  <2>3. \A e \in M : at[e] \in late /\ recorded[at[e]] = e
    OBVIOUS
  <2>4. at \in [M -> 1 .. Len(recorded)]
    BY <2>2, <2>3
  <2> HIDE DEF at
  <2> DEFINE Hidden == \E e \in M : Kept(at[e])
  <2>5. \A e \in M : Kept(at[e]) => Unfinished /\ at[e] = Len(recorded) - Limit + 1
    <3> SUFFICES ASSUME NEW e \in M, Kept(at[e])
                 PROVE  Unfinished /\ at[e] = Len(recorded) - Limit + 1
      OBVIOUS
    <3>1. at[e] \in 1 .. Len(recorded) /\ at[e] > Len(recorded) - Limit
      BY <2>2, <2>3
    <3>2. at[e] <= Len(lines) - Limit
      BY <1>1, <2>1, <2>3, <3>1, Missing
    <3> QED
      BY <1>1, <2>1, <3>1, <3>2 DEF LogInv, InOrder
  <2>6. /\ Cardinality(M) \in Nat
        /\ Cardinality(M) <= Cardinality(torn) + (IF Hidden /\ InProgress THEN 1 ELSE 0)
    <3>1. \A d, e \in M : Kept(at[d]) /\ Kept(at[e]) => d = e
      BY <2>3, <2>5
    <3>2. Hidden => Unfinished
      BY <2>5
    <3> HIDE DEF M
    <3> QED
      BY <1>1, <2>3, <2>4, <3>1, <3>2, Charged
  <2>7. Cardinality(torn) \in Nat
    BY <1>1, FS_CardinalityType DEF LogInv, LogType
  <2> QED
    BY <2>6, <2>7 DEF WindowIsNearlyFull, late, InProgress
<1> QED
  BY <1>1, LogInvariant, PTL
=============================================================================
