--------------------------- MODULE DatasetPreview ---------------------------
(***************************************************************************)
(* Paging through a data file that is never loaded as a whole.             *)
(*                                                                         *)
(* A request for the window (offset, limit) pulls byte chunks from the     *)
(* storage backend, decodes each chunk by itself, splits the text into     *)
(* lines and stops as soon as it has the header, the window and one more   *)
(* line, whose existence is the has_more flag.  The preview of a dataset   *)
(* is the page with offset 0.  A client that wants everything asks for the *)
(* next window until has_more is false.                                    *)
(*                                                                         *)
(* A line stands for the row it parses to: delimiters and quotes are left  *)
(* out, carriage returns are not, because the parser refuses them inside a *)
(* line.                                                                   *)
(***************************************************************************)
EXTENDS Positions

CONSTANTS
    FileSizes,    \* sizes of the files that are read, in bytes
    ChunkSizes,   \* chunk sizes of the storage backend
    RawOffsets,   \* "offset" as it comes in the query string
    RawLimits,    \* "limit" likewise
    Garbage,      \* a query value that is no number, or none at all
    DefaultLimit, \* PREVIEW_MAX_ROWS
    PageMaxRows,  \* PAGE_MAX_ROWS
    LargestOffset,\* 2^63 - 1
    None          \* the end of an exhausted generator

ASSUME ConstantsAssumption ==
    /\ FileSizes \subseteq Nat
    /\ ChunkSizes \subseteq Nat \ {0}
    /\ RawOffsets \ {Garbage} \subseteq Int
    /\ RawLimits \ {Garbage} \subseteq Int
    /\ DefaultLimit \in Nat /\ PageMaxRows \in Nat /\ LargestOffset \in Nat
    /\ None \notin Seq({"x", "nl", "cr", "wide", "bad"})

VARIABLES
    file,    \* the bytes of the issue
    chunk,   \* bytes per chunk
    offset,  \* the window that was asked for
    limit,
    pulled,  \* bytes taken from the backend so far
    buffer,  \* text that is decoded but not split into lines yet
    phase,   \* where _read_page is
    asks,    \* next() calls on the line generator
    skipped, \* rows before the window that were passed over
    header,
    rows,    \* rows of the window
    hasMore,
    first,   \* history: the offset the client started at
    got      \* history: the rows of all pages of this client

request == <<file, chunk, offset, limit, first>>
stream  == <<pulled, buffer>>
vars    == <<request, stream, phase, asks, skipped, header, rows, hasMore, got>>

(***************************************************************************)
(* Bytes and text                                                          *)
(***************************************************************************)
\* "lead" and "cont" are the two bytes of one wide character.
Byte == {"x", "nl", "cr", "lead", "cont"}
Text == Seq({"x", "nl", "cr", "wide", "bad"})

Completes(bytes, i) == bytes[i] = "cont" /\ i > 1 /\ bytes[i-1] = "lead"

Completed(bytes, i) == bytes[i] = "lead" /\ i < Len(bytes) /\ bytes[i+1] = "cont"

\* bytes.decode("utf-8", errors="replace"): half a character becomes "bad".
Decode(bytes) ==
    LET Char(i) == IF Completed(bytes, i) THEN "wide"
                   ELSE IF bytes[i] \in {"lead", "cont"} THEN "bad" ELSE bytes[i]
    IN  Pick([i \in DOMAIN bytes |-> Char(i)],
             {i \in DOMAIN bytes : ~Completes(bytes, i)})

HasLine(text) == \E i \in DOMAIN text : text[i] = "nl"

Cut(text) == CHOOSE i \in DOMAIN text :
                text[i] = "nl" /\ \A k \in DOMAIN text : text[k] = "nl" => i <= k

\* A carriage return followed by anything else makes the csv reader raise.
Unparsable(line) == \E i, k \in DOMAIN line : i < k /\ line[i] = "cr" /\ line[k] # "cr"

(***************************************************************************)
(* A request                                                               *)
(***************************************************************************)
\* Faulty variants (named Wrong...) are slips this code could have, kept to show
\* that the properties below notice them.  No action uses them.
Smaller(a, b) == IF a < b THEN a ELSE b
Larger(a, b)  == IF a > b THEN a ELSE b

WrongClampNoMinimum(raw, default, minimum, maximum) ==
    Smaller(IF raw = Garbage THEN default ELSE raw, maximum)

ClampInt(raw, default, minimum, maximum) ==
    Larger(minimum, Smaller(IF raw = Garbage THEN default ELSE raw, maximum))

Init ==
    /\ file \in UNION {[1..n -> Byte] : n \in FileSizes}
    /\ chunk \in ChunkSizes
    /\ \E raw \in RawOffsets : offset = ClampInt(raw, 0, 0, LargestOffset)
    /\ \E raw \in RawLimits : limit = ClampInt(raw, DefaultLimit, 0, PageMaxRows)
    /\ pulled = 0
    /\ buffer = <<>>
    /\ phase = "header"
    /\ asks = 0
    /\ skipped = 0
    /\ header = <<>>
    /\ rows = <<>>
    /\ hasMore = FALSE
    /\ first = offset
    /\ got = <<>>

Exhausted == pulled = Len(file)

WrongPullAhead ==
    /\ phase \in {"header", "skip", "collect", "peek"}
    /\ ~Exhausted
    /\ LET end == Smaller(pulled + chunk, Len(file)) IN
          /\ buffer' = buffer \o Decode(SubSeq(file, pulled + 1, end))
          /\ pulled' = end
    /\ UNCHANGED <<request, phase, asks, skipped, header, rows, hasMore, got>>

WrongPullDropsRest ==
    /\ phase \in {"header", "skip", "collect", "peek"}
    /\ ~HasLine(buffer)
    /\ ~Exhausted
    /\ LET end == Smaller(pulled + chunk, Len(file)) IN
          /\ buffer' = Decode(SubSeq(file, pulled + 1, end))
          /\ pulled' = end
    /\ UNCHANGED <<request, phase, asks, skipped, header, rows, hasMore, got>>

\* The generator resumes only when a line is asked for and none is buffered.
PullChunk ==
    /\ phase \in {"header", "skip", "collect", "peek"}
    /\ ~HasLine(buffer)
    /\ ~Exhausted
    /\ LET end == Smaller(pulled + chunk, Len(file)) IN
          /\ buffer' = buffer \o Decode(SubSeq(file, pulled + 1, end))
          /\ pulled' = end
    /\ UNCHANGED <<request, phase, asks, skipped, header, rows, hasMore, got>>

\* A file without a final newline leaves an unterminated line.
Line ==
    IF HasLine(buffer) THEN SubSeq(buffer, 1, Cut(buffer) - 1)
    ELSE IF buffer = <<>> THEN None ELSE buffer

\* next(lines, None) yields Line.
NextLine ==
    /\ HasLine(buffer) \/ Exhausted
    /\ asks' = asks + 1
    /\ buffer' = IF HasLine(buffer) THEN SubSeq(buffer, Cut(buffer) + 1, Len(buffer)) ELSE <<>>
    /\ UNCHANGED pulled

\* An empty file is an empty page.
ReadHeader ==
    /\ phase = "header"
    /\ NextLine
    /\ header' = IF Line = None THEN header ELSE Line
    /\ phase' = IF Line = None THEN "done" ELSE "skip"
    /\ UNCHANGED <<request, skipped, rows, hasMore, got>>

WrongSkipToTheEnd ==
    /\ phase = "skip"
    /\ skipped < offset
    /\ NextLine
    /\ skipped' = skipped + 1
    /\ UNCHANGED <<request, phase, header, rows, hasMore, got>>

SkipRow ==
    /\ phase = "skip"
    /\ skipped < offset
    /\ NextLine
    /\ skipped' = IF Line = None THEN skipped ELSE skipped + 1
    /\ phase' = IF Line = None THEN "collect" ELSE phase
    /\ UNCHANGED <<request, header, rows, hasMore, got>>

EndSkip ==
    /\ phase = "skip"
    /\ skipped = offset
    /\ phase' = "collect"
    /\ UNCHANGED <<request, stream, asks, skipped, header, rows, hasMore, got>>

CollectRow ==
    /\ phase = "collect"
    /\ Len(rows) < limit
    /\ NextLine
    /\ rows' = IF Line = None THEN rows ELSE Append(rows, Line)
    /\ phase' = IF Line = None THEN "peek" ELSE phase
    /\ UNCHANGED <<request, skipped, header, hasMore, got>>

EndCollect ==
    /\ phase = "collect"
    /\ Len(rows) = limit
    /\ phase' = "peek"
    /\ UNCHANGED <<request, stream, asks, skipped, header, rows, hasMore, got>>

WrongMoreIfUnread ==
    /\ phase = "peek"
    /\ NextLine
    /\ hasMore' = ~Exhausted
    /\ phase' = "parse"
    /\ UNCHANGED <<request, skipped, header, rows, got>>

WrongMoreIfFull ==
    /\ phase = "peek"
    /\ NextLine
    /\ hasMore' = (Len(rows) = limit)
    /\ phase' = "parse"
    /\ UNCHANGED <<request, skipped, header, rows, got>>

Peek ==
    /\ phase = "peek"
    /\ NextLine
    /\ hasMore' = (Line # None)
    /\ phase' = "parse"
    /\ UNCHANGED <<request, skipped, header, rows, got>>

WrongParsesHeader == ~Unparsable(header)

Parses == /\ ~Unparsable(header)
          /\ \A i \in DOMAIN rows : ~Unparsable(rows[i])

\* The header and the collected lines are parsed last; an error of the parser is
\* an error of the request.
ParseRows ==
    /\ phase = "parse"
    /\ phase' = IF Parses THEN "done" ELSE "failed"
    /\ got' = IF Parses THEN got \o rows ELSE got
    /\ UNCHANGED <<request, stream, asks, skipped, header, rows, hasMore>>

\* A client asks for the window after the one it got.
NextPage ==
    /\ phase = "done"
    /\ hasMore
    /\ limit > 0
    /\ offset' = offset + limit
    /\ pulled' = 0
    /\ buffer' = <<>>
    /\ phase' = "header"
    /\ asks' = 0
    /\ skipped' = 0
    /\ header' = <<>>
    /\ rows' = <<>>
    /\ hasMore' = FALSE
    /\ UNCHANGED <<file, chunk, limit, first, got>>

Next ==
    \/ PullChunk \/ ReadHeader \/ SkipRow \/ EndSkip \/ CollectRow \/ EndCollect
    \/ Peek \/ ParseRows \/ NextPage

Spec == Init /\ [][Next]_vars

(***************************************************************************)
(* Properties                                                              *)
(***************************************************************************)
\* The lines of a text, read off its newlines: line k is what lies between
\* newline k-1 and newline k, and what follows the last one counts unless empty.
Breaks(text) == {i \in DOMAIN text : text[i] = "nl"}

Newlines(text, i) == Count(Breaks(text), i)

LineCount(text) ==
    Cardinality(Breaks(text)) + (IF text # <<>> /\ text[Len(text)] # "nl" THEN 1 ELSE 0)

LineEnd(text, k) ==
    IF k = 0 THEN 0
    ELSE IF k <= Cardinality(Breaks(text)) THEN Nth(Breaks(text), k) ELSE Len(text) + 1

Lines(text) ==
    [k \in 1..LineCount(text) |-> SubSeq(text, LineEnd(text, k - 1) + 1, LineEnd(text, k) - 1)]

Window(lines, from, size) == SubSeq(lines, from + 2, Smaller(from + size + 1, Len(lines)))

\* What a text shows apart from its wide characters and from what became of them.
Plain(text) == Pick(text, {i \in DOMAIN text : text[i] \notin {"wide", "bad"}})

\* A character is torn if a chunk ends between its bytes.
Torn == \E i \in 1..(Len(file) - 1) : i % chunk = 0 /\ Completes(file, i + 1)

TypeOK ==
    /\ file \in Seq(Byte)
    /\ chunk \in ChunkSizes
    /\ offset \in Nat /\ limit \in 0..PageMaxRows
    /\ pulled \in 0..Len(file)
    /\ buffer \in Text
    /\ phase \in {"header", "skip", "collect", "peek", "parse", "done", "failed"}
    /\ asks \in Nat
    /\ skipped \in 0..offset
    /\ header \in Text
    /\ rows \in Seq(Text) /\ Len(rows) <= limit
    /\ hasMore \in BOOLEAN
    /\ first \in Nat
    /\ got \in Seq(Text)

\* Unless a chunk boundary tears a character, a page is the window of the lines
\* of the whole file, and has_more says whether a row follows it: where the chunks
\* end, and when the reader stops pulling them, does not show.
PageIsWindow ==
    phase = "done" /\ ~Torn =>
       LET lines == Lines(Decode(file)) IN
       /\ rows = Window(lines, offset, limit)
       /\ hasMore = (offset + limit + 1 < Len(lines))

\* As many rows, and the same in all but their wide characters.
Alike(some, others) ==
    Len(some) = Len(others) /\ \A i \in DOMAIN some : Plain(some[i]) = Plain(others[i])

\* A torn character spoils itself and nothing else: the page has the rows the
\* window has, whatever is inside them, and as many of them.
TearingKeepsRows ==
    phase = "done" => Alike(rows, Window(Lines(Decode(file)), offset, limit))

\* No chunk is pulled before the chunks at hand are used up: all but the last one
\* lack a line the page needs.
PullsNoMoreThanNeeded ==
    pulled > 0 =>
       LET before == ((pulled - 1) \div chunk) * chunk IN
       Newlines(file, before) < offset + limit + 2

\* The work of a request is bounded by the file, not by the offset it was given:
\* an offset far beyond the end does not make the reader count up to it.
WorkBoundedByFile == asks <= Newlines(file, Len(file)) + 4

\* A client that follows has_more to its end has every row from its first offset
\* on exactly once, torn characters or not: no page loses a row or repeats one.
PagesTile ==
    phase = "done" /\ ~hasMore /\ limit > 0 =>
       LET rest == Window(Lines(Decode(file)), first, Len(file)) IN
       Alike(got, rest) /\ (~Torn => got = rest)

\* The request fails only because of a line it shows: a carriage return inside a
\* row that is skipped, or that comes later, does no harm.
FailsOnlyOnShownLine ==
    LET lines == Lines(Decode(file))
        shown == {1} \union (offset + 2)..(offset + limit + 1)
    IN  /\ phase = "failed" => \E k \in shown \intersect DOMAIN lines : Unparsable(lines[k])
        /\ phase = "done" => \A k \in shown \intersect DOMAIN lines : ~Unparsable(lines[k])

=============================================================================
