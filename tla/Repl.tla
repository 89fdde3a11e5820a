-------------------------------- MODULE Repl --------------------------------
(***************************************************************************)
(* The read-evaluate-print loop of src/main.rs: a bounded reader that meets *)
(* its input in buffers of any length, the history, and the dispatch of a  *)
(* line.  A byte is one of a few symbols; a command word is one symbol.    *)
(* What a line evaluates to, and whether a write succeeds, is a choice.    *)
(***************************************************************************)
EXTENDS ReplHistory, SequencesExt

CONSTANT Inputs    \* the byte streams that standard input may be

ASSUME InputsAssumption == \A stream \in Inputs : stream \in Seq(STRING)

LF == "lf"
CR == "cr"
Blank == "blank"            \* a space or a tab
Hash == "#"
NotUtf8 == "not utf-8"

VARIABLES
    input,      \* all of standard input
    rest,       \* what is not consumed yet
    phase,      \* where the loop stands
    reader,     \* the locals of read_repl_line
    line,       \* the line read, then the one dispatched
    history,
    ended,      \* how the loop ended
    handled,    \* history variable: what became of each line, in order
    recorded    \* history variable: the texts recorded, in order

vars == <<input, rest, phase, reader, line, history, ended, handled, recorded>>

FreshReader == [bytes |-> <<>>, rejection |-> "None", any |-> FALSE, lf |-> FALSE]

Phases == {"Prompt", "Reading", "Line", "Record", "Dispatch", "Ended"}

Init ==
    /\ input \in Inputs
    /\ rest = input
    /\ phase = "Prompt"
    /\ reader = FreshReader
    /\ line = <<>>
    /\ history = EmptyHistory
    /\ ended = "No"
    /\ handled = <<>>
    /\ recorded = <<>>

-----------------------------------------------------------------------------
(* The line reader *)

EndWith(how) == phase' = "Ended" /\ ended' = how

\* The prompt is written before each line; a failed write ends the session.
Prompt ==
    /\ phase = "Prompt"
    /\ \/ /\ phase' = "Reading"
          /\ ended' = ended
       \/ EndWith("Failure")
    /\ reader' = FreshReader
    /\ UNCHANGED <<input, rest, line, history, handled, recorded>>

\* The bytes of a buffer before its first line feed.
Content(available) ==
    IF \E i \in 1..Len(available) : available[i] = LF
    THEN SubSeq(available, 1,
                (CHOOSE i \in 1..Len(available) :
                    /\ available[i] = LF
                    /\ \A j \in 1..(i - 1) : available[j] # LF) - 1)
    ELSE available

\* Faulty: no room is left for the carriage return of a terminator.
KeepWithinMaximum(r, content, hostRefuses) ==
    IF r.rejection # "None" THEN r
    ELSE IF Len(r.bytes) + Len(content) > MaxBytes
         THEN [r EXCEPT !.rejection = "Oversized"]
    ELSE IF content = <<>> THEN r
    ELSE IF hostRefuses THEN [r EXCEPT !.rejection = "AllocationUnavailable"]
    ELSE [r EXCEPT !.bytes = @ \o content]

\* What the reader keeps of a buffer: nothing once the line is rejected.
Keep(r, content, hostRefuses) ==
    IF r.rejection # "None" THEN r
    ELSE IF Len(r.bytes) + Len(content) > MaxBytes + 1
         THEN [r EXCEPT !.rejection = "Oversized"]
    ELSE IF content = <<>> THEN r
    ELSE IF hostRefuses THEN [r EXCEPT !.rejection = "AllocationUnavailable"]
    ELSE [r EXCEPT !.bytes = @ \o content]

\* One turn of the reader's loop: a buffer of any length is consumed up to
\* and with its first line feed, whether the line is rejected or not.
FillBuffer ==
    /\ phase = "Reading"
    /\ rest # <<>>
    /\ \E length \in 1..Len(rest), hostRefuses \in BOOLEAN :
          LET available == SubSeq(rest, 1, length)
              content == Content(available)
              lf == Len(content) < length
              consumed == IF lf THEN Len(content) + 1 ELSE length
          IN  /\ reader' = [Keep(reader, content, hostRefuses)
                              EXCEPT !.any = TRUE, !.lf = lf]
              /\ rest' = SubSeq(rest, consumed + 1, Len(rest))
              /\ phase' = IF lf THEN "Line" ELSE phase
    /\ UNCHANGED <<input, line, history, ended, handled, recorded>>

EndOfInput ==
    /\ phase = "Reading"
    /\ rest = <<>>
    /\ phase' = "Line"
    /\ UNCHANGED <<input, rest, reader, line, history, ended, handled, recorded>>

ReadFails ==
    /\ phase = "Reading"
    /\ EndWith("Failure")
    /\ UNCHANGED <<input, rest, reader, line, history, handled, recorded>>

\* A carriage return belongs to the terminator only before a line feed.
StripCR(bytes, lf) ==
    IF lf /\ bytes # <<>> /\ bytes[Len(bytes)] = CR
    THEN SubSeq(bytes, 1, Len(bytes) - 1)
    ELSE bytes

\* What read_repl_line returns.
LineRead ==
    LET text == StripCR(reader.bytes, reader.lf)
    IN  IF reader.rejection # "None" THEN [kind |-> reader.rejection, text |-> <<>>]
        ELSE IF ~reader.any THEN [kind |-> "Eof", text |-> <<>>]
        ELSE IF Len(text) > MaxBytes THEN [kind |-> "Oversized", text |-> <<>>]
        ELSE IF \E i \in 1..Len(text) : text[i] = NotUtf8
             THEN [kind |-> "NotUtf8", text |-> <<>>]
        ELSE [kind |-> "Line", text |-> text]

\* Faulty: the end of input is one more empty line.
AfterPrompting(read) ==
    CASE read.kind = "NotUtf8" -> <<"Ended", "Failure">>
      [] read.kind = "Line" /\ read.text # <<>> -> <<"Record", "No">>
      [] OTHER -> <<"Prompt", "No">>

\* The loop's match on it: an empty line is passed over without a record.
After(read) ==
    CASE read.kind = "Eof" -> <<"Ended", "Success">>
      [] read.kind = "NotUtf8" -> <<"Ended", "Failure">>
      [] read.kind = "Line" /\ read.text # <<>> -> <<"Record", "No">>
      [] OTHER -> <<"Prompt", "No">>

EndLine ==
    /\ phase = "Line"
    /\ phase' = After(LineRead)[1]
    /\ ended' = After(LineRead)[2]
    /\ line' = LineRead.text
    /\ handled' = IF LineRead.kind = "Eof" THEN handled
                                           ELSE Append(handled, LineRead)
    /\ UNCHANGED <<input, rest, reader, history, recorded>>

-----------------------------------------------------------------------------
(* Recording and dispatch *)

\* Faulty: what is dispatched is the latest entry, whether the line is or not.
RecordThenLatest ==
    /\ phase = "Record"
    /\ \E hostRefuses \in BOOLEAN :
          IF Refusal(history, line, hostRefuses) = "None"
          THEN /\ history' = Recorded(history, line)
               /\ recorded' = Append(recorded, line)
          ELSE UNCHANGED <<history, recorded>>
    /\ history'.entries # <<>>
    /\ line' = LatestText(history')
    /\ phase' = "Dispatch"
    /\ UNCHANGED <<input, rest, reader, ended, handled>>

\* A line that is refused stays with its caller and is dispatched all the same.
Record ==
    /\ phase = "Record"
    /\ \E hostRefuses \in BOOLEAN :
          IF Refusal(history, line, hostRefuses) = "None"
          THEN /\ history' = Recorded(history, line)
               /\ recorded' = Append(recorded, line)
               /\ line' = LatestText(history')
          ELSE UNCHANGED <<history, recorded, line>>
    /\ phase' = "Dispatch"
    /\ UNCHANGED <<input, rest, reader, ended, handled>>

\* trim_matches([' ', '\t'])
Trim(text) ==
    LET kept == {i \in 1..Len(text) : text[i] # Blank}
    IN  IF kept = {} THEN <<>>
        ELSE SubSeq(text, CHOOSE i \in kept : \A j \in kept : i <= j,
                          CHOOSE i \in kept : \A j \in kept : j <= i)

\* classify_repl_input, the comment test, repl_command and the two commands
\* after it.  .cls and .internal stand alone, .exit and .history may be padded.
Kind(text) ==
    CASE Trim(text) = <<>>            -> "Blank"
      [] text = <<".cls">>            -> "Clear"
      [] Trim(text)[1] = Hash         -> "Comment"
      [] Trim(text) = <<".exit">>     -> "Exit"
      [] text = <<".internal">>       -> "Internal"
      [] Trim(text) = <<".history">>  -> "History"
      [] OTHER                        -> "Evaluate"

\* A terminal that cannot be cleared, or an evaluation that fails, is reported
\* and the loop goes on.  A write that fails ends the session, and so does a
\* value that cannot be formatted.
Dispatch ==
    /\ phase = "Dispatch"
    /\ \/ /\ Kind(line) = "Exit"
          /\ EndWith("Success")
       \/ /\ Kind(line) # "Exit"
          /\ phase' = "Prompt"
          /\ ended' = ended
       \/ /\ Kind(line) \in {"Internal", "History", "Evaluate"}
          /\ EndWith("Failure")
    /\ UNCHANGED <<input, rest, reader, line, history, handled, recorded>>

Next == Prompt \/ FillBuffer \/ EndOfInput \/ ReadFails \/ EndLine \/ Record
            \/ Dispatch

\* One thread runs the loop and its input is finite, so a step that can be
\* taken is taken.
Spec == Init /\ [][Next]_vars /\ WF_vars(Next)

-----------------------------------------------------------------------------
(* What the input's lines are, from the positions of the line feeds alone.  *)

Breaks == {i \in 1..Len(input) : input[i] = LF}

LastBreakBefore(i) == LET before == {b \in Breaks : b < i}
                      IN  IF before = {} THEN 0 ELSE Max(before)

LineEnds == Breaks \union
            (IF input # <<>> /\ input[Len(input)] # LF THEN {Len(input) + 1} ELSE {})

\* The n-th line, without its terminator, which is LF or CR LF.
LineNumber(n) ==
    LET end == CHOOSE e \in LineEnds :
                    Cardinality({l \in LineEnds : l <= e}) = n
        from == LastBreakBefore(end) + 1
        crlf == end \in Breaks /\ end > from /\ input[end - 1] = CR
    IN  SubSeq(input, from, IF crlf THEN end - 2 ELSE end - 1)

LinesConsumed == Cardinality({e \in LineEnds : e <= Len(input) - Len(rest)
                                \/ (rest = <<>> /\ e > Len(input))})

-----------------------------------------------------------------------------
TypeOK ==
    /\ rest = SubSeq(input, Len(input) - Len(rest) + 1, Len(input))
    /\ phase \in Phases
    /\ reader.rejection \in {"None", "Oversized", "AllocationUnavailable"}
    /\ Len(reader.bytes) <= MaxBytes + 1
    /\ history.next \in 1..MaxNumber
    /\ history.retained = BytesOf(history.entries)[Len(history.entries)]
    /\ ended \in {"No", "Success", "Failure"}

\* However the input falls into buffers, the loop meets its lines one by one
\* and in order: each is either read as it is or rejected as a whole, too long
\* exactly if it exceeds the limit without its terminator, not UTF-8 only if
\* it holds such a byte.  A session that succeeds without .exit met them all.
LinesAreMet ==
    /\ phase \in {"Prompt", "Record", "Dispatch"} => Len(handled) = LinesConsumed
    /\ \A n \in 1..Len(handled) :
          CASE handled[n].kind = "Line" ->
                    handled[n].text = LineNumber(n) /\ Len(LineNumber(n)) <= MaxBytes
            [] handled[n].kind = "Oversized" -> Len(LineNumber(n)) > MaxBytes
            [] handled[n].kind = "NotUtf8" ->
                    \E i \in 1..Len(LineNumber(n)) : LineNumber(n)[i] = NotUtf8
            [] OTHER -> TRUE
    /\ ended = "Success" =>
          \/ /\ handled # <<>>
             /\ Kind(handled[Len(handled)].text) = "Exit"
          \/ Len(handled) = Cardinality(LineEnds)

LastRecorded(k) == SubSeq(recorded, Len(recorded) - k + 1, Len(recorded))

\* The history is the longest end of what was recorded that keeps within both
\* limits, whatever was refused in between.
HistoryIsLongestSuffix ==
    \E k \in 0..Len(recorded) :
        /\ [i \in 1..Len(history.entries) |-> history.entries[i].text] = LastRecorded(k)
        /\ Fits(k, Len(FlattenSeq(LastRecorded(k))))
        /\ \A l \in (k + 1)..Len(recorded) :
              ~Fits(l, Len(FlattenSeq(LastRecorded(l))))

\* An entry's number is the place of its line among all lines recorded: no
\* number is used twice or skipped by a refusal.
NumbersTellPlace ==
    /\ history.next = Len(recorded) + 1
    /\ \A i \in 1..Len(history.entries) :
          history.entries[i].number = Len(recorded) - Len(history.entries) + i

\* The line dispatched is the line read last, also when it was not recorded.
DispatchesTheLineRead ==
    phase = "Dispatch" => handled[Len(handled)] = [kind |-> "Line", text |-> line]

\* The session ends: the loop never waits without consuming.
Terminates == <>(phase = "Ended")
=============================================================================
