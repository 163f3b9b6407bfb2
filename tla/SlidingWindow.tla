----------------------------- MODULE SlidingWindow -----------------------------
(***************************************************************************)
(* The loop that cuts a text too long for one chunk into windows that      *)
(* overlap: splitFuncWithSlidingWindow, which counts in tokens, and        *)
(* splitTextWithSlidingWindow, which counts in bytes.  Both are the same   *)
(* loop, one iteration a step here, over units numbered from 1.            *)
(***************************************************************************)
EXTENDS Integers, Sequences, FiniteSets

VARIABLES
  total,      \* units of the text
  newlines,   \* the units that are newlines
  limit,      \* units of a window
  overlap,    \* units two windows share
  start,      \* startTokenIdx, startByteIdx: units before the next window
  windows,    \* the windows cut so far
  cutting     \* the loop goes on

windowVars == <<total, newlines, limit, overlap, start, windows, cutting>>

NoText ==
  /\ total = 0 /\ newlines = {} /\ limit = 1 /\ overlap = 0
  /\ start = 0 /\ windows = <<>> /\ cutting = FALSE

\* The call is over, and its variables are gone.
Return ==
  /\ total' = 0 /\ newlines' = {} /\ limit' = 1 /\ overlap' = 0
  /\ start' = 0 /\ windows' = <<>> /\ cutting' = FALSE

\* The call: nothing is cut, and nothing returned, when the overlap would not let windows advance.
Cuttable(n, size, shared) == size > 0 /\ shared >= 0 /\ shared < size /\ n > 0

Call(n, breaks, size, shared) ==
  /\ ~cutting
  /\ total' = n /\ newlines' = breaks
  /\ limit' = size /\ overlap' = shared
  /\ start' = 0 /\ windows' = <<>>
  /\ cutting' = Cuttable(n, size, shared)

\* Faulty variant: newline characters only.
NewlinesIn(from, to) == Cardinality({k \in newlines : from < k /\ k <= to})

\* countLines of the units after from up to to: a last line without its newline counts.
CountLines(from, to) ==
  Cardinality({k \in newlines : from < k /\ k <= to})
    + (IF from < to /\ to \notin newlines THEN 1 ELSE 0)

\* The range of a window: its lines, counted from the line the text starts in.
FirstLine(from)    == CountLines(0, from)
LastLine(from, to) == FirstLine(from) + CountLines(from, to) - 1

\* Faulty variant: the last window is aligned without what is left of the text.
NextStartUnaligned(to) == IF total - to < limit THEN to + (total - to) ELSE to - overlap

\* The last window is moved back so that it is a full one; the others overlap as configured.
NextStart(to) == IF total - to < limit THEN to - (limit - (total - to)) ELSE to - overlap

Window ==
  /\ cutting
  /\ LET to == IF start + limit > total THEN total ELSE start + limit
     IN /\ windows' = Append(windows, [from |-> start, to |-> to,
                                       lines |-> <<FirstLine(start), LastLine(start, to)>>])
        /\ cutting' = (to < total)
        /\ start' = IF to < total THEN NextStart(to) ELSE start
  /\ UNCHANGED <<total, newlines, limit, overlap>>

-----------------------------------------------------------------------------
(* Properties.                                                             *)

(***************************************************************************)
(* Whatever the length of the text, of a window and of the overlap: the    *)
(* windows begin at its beginning, every next one begins and ends after    *)
(* the one before it but not after that one's end, none is longer than     *)
(* the limit, and when the loop ends the last one ends the text.           *)
(***************************************************************************)
WindowsCoverText ==
  /\ \A i \in DOMAIN windows :
       /\ windows[i].from < windows[i].to
       /\ windows[i].to - windows[i].from <= limit
       /\ i = 1 => windows[i].from = 0
       /\ i > 1 => /\ windows[i - 1].from < windows[i].from
                   /\ windows[i].from <= windows[i - 1].to
                   /\ windows[i - 1].to < windows[i].to
  /\ windows # <<>> /\ ~cutting => windows[Len(windows)].to = total

(***************************************************************************)
(* The lines of a window do not end before they begin, and windows begin   *)
(* in the order of the text, each in the line its first unit is in or,     *)
(* as the code counts the line it cuts through, in the one after.          *)
(***************************************************************************)
LineOf(unit) == Cardinality({k \in newlines : k < unit})

RangesAreOrdered ==
  \A i \in DOMAIN windows :
    /\ windows[i].lines[1] <= windows[i].lines[2]
    /\ windows[i].lines[1] - LineOf(windows[i].from + 1) \in {0, 1}
    /\ i > 1 => windows[i - 1].lines[1] <= windows[i].lines[1]
=============================================================================
