---------------------------- MODULE ReplHistory ----------------------------
(***************************************************************************)
(* The history of the REPL (src/main.rs, ReplHistory): the lines recorded  *)
(* last, numbered from 1, within a number of entries and a number of       *)
(* bytes.  A text is the sequence of its bytes.                            *)
(***************************************************************************)
EXTENDS Naturals, Sequences

CONSTANTS
    MaxEntries,   \* ReplHistoryLimits::max_entries
    MaxBytes,     \* ReplHistoryLimits::max_bytes, also the reader's maximum
    MaxNumber     \* u64::MAX

ASSUME HistoryAssumption ==
    /\ MaxEntries \in Nat
    /\ MaxBytes \in Nat
    /\ MaxNumber \in Nat \ {0}

EmptyHistory == [entries |-> <<>>, retained |-> 0, next |-> 1]

\* BytesOf(entries)[k]: the bytes of the k oldest entries.
BytesOf(entries) ==
    LET bytes[k \in 0..Len(entries)] ==
            IF k = 0 THEN 0 ELSE bytes[k - 1] + Len(entries[k].text)
    IN  bytes

Fits(count, bytes) == count <= MaxEntries /\ bytes <= MaxBytes

\* Faulty: room is made for the lines held, not for the one that comes.
EvictionsBefore(h, line) ==
    {k \in 0..Len(h.entries) :
        Fits(Len(h.entries) - k,
             h.retained + Len(line) - BytesOf(h.entries)[k])}

\* The eviction counts that leave room for a line.  The loop of record takes
\* the oldest entries one by one and stops at the least of them.
Evictions(h, line) ==
    {k \in 0..Len(h.entries) :
        Fits(Len(h.entries) + 1 - k,
             h.retained + Len(line) - BytesOf(h.entries)[k])}

Evicted(h, line) ==
    CHOOSE k \in Evictions(h, line) : \A l \in Evictions(h, line) : k <= l

\* Faulty: entries are numbered by their place in the history.
RecordedRenumbering(h, line) ==
    LET k == Evicted(h, line)
    IN  [entries  |-> Append(SubSeq(h.entries, k + 1, Len(h.entries)),
                             [number |-> Len(h.entries) - k + 1, text |-> line]),
         retained |-> h.retained + Len(line) - BytesOf(h.entries)[k],
         next     |-> h.next + 1]

\* Faulty: the bytes of what is evicted stay counted.
RecordedWithoutRelease(h, line) ==
    LET k == Evicted(h, line)
    IN  [entries  |-> Append(SubSeq(h.entries, k + 1, Len(h.entries)),
                             [number |-> h.next, text |-> line]),
         retained |-> h.retained + Len(line),
         next     |-> h.next + 1]

\* The history once line is recorded: evicted entries drained, one pushed.
Recorded(h, line) ==
    LET k == Evicted(h, line)
    IN  [entries  |-> Append(SubSeq(h.entries, k + 1, Len(h.entries)),
                             [number |-> h.next, text |-> line]),
         retained |-> h.retained + Len(line) - BytesOf(h.entries)[k],
         next     |-> h.next + 1]

\* Why record refuses a line, in the order of its early returns.  The host's
\* refusal stands for the injected one, and for that of try_reserve, which is
\* asked for room only when nothing is evicted.
Refusal(h, line, hostRefuses) ==
    IF MaxEntries = 0 \/ Len(line) > MaxBytes THEN "EntryTooLarge"
    ELSE IF h.next = MaxNumber THEN "EntryNumberOverflow"
    ELSE IF Evictions(h, line) = {} THEN "EntryTooLarge"
    ELSE IF hostRefuses THEN "AllocationUnavailable"
    ELSE "None"

\* latest_text
LatestText(h) == h.entries[Len(h.entries)].text
=============================================================================
