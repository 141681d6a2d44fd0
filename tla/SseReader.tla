----------------------------- MODULE SseReader -----------------------------
(***************************************************************************)
(* SseReader::read_line and next_sse (Cpp/src/client.cpp): the bytes of an *)
(* update stream, as the reads happen to cut them, are put together to     *)
(* lines and the lines to events.                                          *)
(*                                                                         *)
(* A token stands for the bytes that the reader tells apart: a line feed,  *)
(* a carriage return, "event:" with a name, "data:" with and without a     *)
(* value.  Comments, ids and unknown fields do not reach the application.  *)
(* The data of an event is kept as the values that line feeds join.        *)
(***************************************************************************)
EXTENDS Naturals, Sequences

CONSTANTS
    MaxRead,     \* the size of the buffer that read() fills
    Limit,       \* how long pending_ may become
    MaxInput     \* bound: the length of the streams that are looked at

ASSUME SseAssumption == MaxRead \in Nat \ {0} /\ Limit \in Nat /\ MaxInput \in Nat

VARIABLES
    stream,      \* what the server sends until it closes the connection
    got,         \* how much of it the reads have brought
    reader       \* pending_, the event that is being put together, those that
                 \* have been handed over, and whether the reader is done

sse == <<stream, got, reader>>

LF == "\n"
CR == "\r"
Token == {LF, CR, "event", "data", "data_empty"}
Stream == UNION {[1 .. n -> Token] : n \in 0 .. MaxInput}

NewReader == [pending |-> <<>>, name |-> <<>>, data |-> <<>>, events |-> <<>>,
              failed |-> FALSE, ended |-> FALSE]

(* trim_ascii *)
Trim(text) ==
    LET kept == {i \in DOMAIN text : text[i] # CR}
    IN  IF kept = {} THEN <<>>
        ELSE SubSeq(text, CHOOSE i \in kept : \A j \in kept : i <= j,
                          CHOOSE i \in kept : \A j \in kept : i >= j)

(* The value of a field: what follows its colon. *)
Value(line) == Trim(IF Head(line) = "data_empty" THEN Tail(line) ELSE line)

IsName(line) == line # <<>> /\ Head(line) = "event"
IsData(line) == line # <<>> /\ Head(line) \in {"data", "data_empty"}

LineFeeds(text) == {i \in DOMAIN text : text[i] = LF}

WithoutCR(line) ==
    IF line # <<>> /\ line[Len(line)] = CR THEN SubSeq(line, 1, Len(line) - 1) ELSE line

-----------------------------------------------------------------------------
(* next_sse hands over the event, if it has data, and starts another one. *)
HandOver(r) ==
    [r EXCEPT !.events = IF r.data = <<>> THEN @
                         ELSE Append(@, [name |-> r.name, data |-> r.data]),
              !.name = <<>>, !.data = <<>>]

(* next_sse: what a line does to the event that is being put together.  As *)
(* long as there is no data, an empty value adds none.                     *)
ParseLine(r, line) ==
    IF line = <<>> THEN HandOver(r)
    ELSE [r EXCEPT !.name = IF IsName(line) THEN Value(line) ELSE @,
                   !.data = IF IsData(line) /\ (@ # <<>> \/ Value(line) # <<>>)
                            THEN Append(@, Value(line)) ELSE @]

SseInit == stream \in Stream /\ got = 0 /\ reader = NewReader

Reading == ~reader.failed /\ ~reader.ended

(* Mutant of TakeLine: the carriage return stays. *)
TakeLineAsIs ==
    /\ Reading
    /\ \E end \in LineFeeds(reader.pending) :
        /\ \A i \in LineFeeds(reader.pending) : end <= i
        /\ reader' = ParseLine([reader EXCEPT !.pending = SubSeq(@, end + 1, Len(@))],
                               SubSeq(reader.pending, 1, end - 1))
    /\ UNCHANGED <<stream, got>>
(* read_line finds a line feed in pending_. *)
TakeLine ==
    /\ Reading
    /\ \E end \in LineFeeds(reader.pending) :
        /\ \A i \in LineFeeds(reader.pending) : end <= i
        /\ reader' = ParseLine([reader EXCEPT !.pending = SubSeq(@, end + 1, Len(@))],
                               WithoutCR(SubSeq(reader.pending, 1, end - 1)))
    /\ UNCHANGED <<stream, got>>

(* It finds none: read() brings some more, one byte or a full buffer. *)
Read(n) ==
    /\ Reading /\ LineFeeds(reader.pending) = {}
    /\ got + n <= Len(stream)
    /\ got' = got + n
    /\ LET more == reader.pending \o SubSeq(stream, got + 1, got + n)
       IN  reader' = [reader EXCEPT !.pending = more, !.failed = Len(more) > Limit]
    /\ UNCHANGED stream

(* read() brings nothing: the rest of pending_ is the last line, and the   *)
(* last event needs no empty line.                                         *)
EndOfStream ==
    /\ Reading /\ LineFeeds(reader.pending) = {}
    /\ got = Len(stream)
    /\ LET r == [reader EXCEPT !.pending = <<>>, !.ended = TRUE]
       IN  reader' = HandOver(IF reader.pending = <<>> THEN r
                              ELSE ParseLine(r, reader.pending))
    /\ UNCHANGED <<stream, got>>

SseNext == TakeLine \/ (\E n \in 1 .. MaxRead : Read(n)) \/ EndOfStream

SseSpec == SseInit /\ [][SseNext]_sse

-----------------------------------------------------------------------------
(* The reference looks at a whole text and not at the reads.  A line is    *)
(* named by the position where it ends: that of its line feed or, for the  *)
(* last one, the end of the text.                                          *)
LineEnds(text) == LineFeeds(text) \cup {Len(text) + 1}

(* The end of the line before, and the line. *)
Before(text, end) ==
    CHOOSE p \in LineEnds(text) \cup {0} :
        p < end /\ \A q \in LineEnds(text) : q <= p \/ end <= q

RawLine(text, end) == SubSeq(text, Before(text, end) + 1, end - 1)

Line(text, end) ==
    IF end <= Len(text) THEN WithoutCR(RawLine(text, end)) ELSE RawLine(text, end)

Blank(text) == {end \in LineFeeds(text) : Line(text, end) = <<>>}

(* The lines after the last blank one, as far as one that may be blank. *)
Block(text, end) ==
    {l \in LineEnds(text) : l <= end /\ \A blank \in Blank(text) : blank < l \/ end <= blank}

(* The last name counts. *)
NameLines(text, end) == {l \in Block(text, end) : IsName(Line(text, l))}

Named(text, end, name) ==
    IF NameLines(text, end) = {} THEN name = <<>>
    ELSE \E l \in NameLines(text, end) :
            name = Value(Line(text, l)) /\ \A k \in NameLines(text, end) : k <= l

(* Data lines ahead of the first one with a value are not there. *)
Filled(text, end) ==
    {l \in Block(text, end) : IsData(Line(text, l)) /\ Value(Line(text, l)) # <<>>}

DataLines(text, end) ==
    {l \in Block(text, end) : IsData(Line(text, l)) /\ \E d \in Filled(text, end) : d <= l}

(* Positions that list a set in order. *)
Lists(at, set) ==
    /\ \A j, k \in DOMAIN at : j < k => at[j] < at[k]
    /\ {at[k] : k \in DOMAIN at} = set

Contains(text, end, data) ==
    \E at \in [DOMAIN data -> DataLines(text, end)] :
        /\ Lists(at, DataLines(text, end))
        /\ \A k \in DOMAIN data : data[k] = Value(Line(text, at[k]))

(* An event ends at a blank line, or with the text, if it has data. *)
EventEnds(text, last) ==
    {end \in Blank(text) \cup {Len(text) + 1} : end <= last /\ DataLines(text, end) # {}}

AreEvents(text, last, events) ==
    \E at \in [DOMAIN events -> EventEnds(text, last)] :
        /\ Lists(at, EventEnds(text, last))
        /\ \A k \in DOMAIN events : /\ Named(text, at[k], events[k].name)
                                    /\ Contains(text, at[k], events[k].data)

(* The end of the last line that the reader has taken. *)
Taken == IF reader.ended THEN Len(stream) + 1 ELSE got - Len(reader.pending)

-----------------------------------------------------------------------------
(* However the reads cut the stream, and wherever it ends, the events that *)
(* have been handed over are those of the lines so far, all of them, in    *)
(* order and with their names and data; and only a line longer than the    *)
(* limit less one read can be refused as too long.                         *)
CutsDoNotMatter ==
    IF reader.failed
    THEN \E end \in LineEnds(stream) : Len(RawLine(stream, end)) > Limit - MaxRead
    ELSE AreEvents(stream, Taken, reader.events)
=============================================================================
