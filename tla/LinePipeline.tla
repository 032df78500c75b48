----------------------------- MODULE LinePipeline -----------------------------
(***************************************************************************)
(* From the log file to the matches: LogTail, the channel of log lines     *)
(* (server/jail.rs, spawn), and the jail task, which pushes each line into *)
(* its LineBuffer and runs the filter on the joined lines (filter/mod.rs). *)
(* What a regex matches is given by the number of the line; the halves of  *)
(* a line that was read half written match nothing, and only the first     *)
(* one has the date.                                                       *)
(***************************************************************************)
EXTENDS LogTail

CONSTANTS BufLines,    \* maxlines of the filter
          Capacity,    \* of the channel of log lines
          Failing,     \* lines a failregex matches
          Pairs,       \* n: a failregex matches line n followed by n + 1
          Ignorable    \* lines an ignoreregex matches

ASSUME LinePipelineAssumption ==
    /\ BufLines \in Nat /\ Capacity \in Nat \ {0}
    /\ Failing \cup Pairs \cup Ignorable \subseteq 1..MaxLines

VARIABLES
    taken,      \* how many of the sent lines the jail has received
    buffer,     \* LineBuffer.lines: the places of its lines among the sent
    matches     \* history: what the filter returned

jail == <<taken, buffer, matches>>
allVars == <<vars, jail>>

PipelineInit == Init /\ taken = 0 /\ buffer = <<>> /\ matches = <<>>

-----------------------------------------------------------------------------
Whole(k, n) == sent[k] = <<First(n), Second(n)>>
HoldsOneOf(kind, k) == \E n \in kind : Whole(k, n)
Dated(k) == \E p \in Range(sent[k]) : ~p.end

(* Mutated forms: one line too many is kept; none is ever evicted.         *)
PushedLate(k) ==
    IF Len(buffer) > BufLines THEN Append(Tail(buffer), k)
    ELSE Append(buffer, k)
PushedForEver(k) == Append(buffer, k)

(* LineBuffer::push, with a maxlines of at least one.                      *)
Cap == IF BufLines = 0 THEN 1 ELSE BufLines
Pushed(k) ==
    IF Len(buffer) >= Cap THEN Append(Tail(buffer), k) ELSE Append(buffer, k)

(* process_line on the joined lines.  An ignoreregex that matches any of   *)
(* them drops them all; a failregex finds the first line, or two lines one *)
(* after the other, that it matches; the date found is the first there is. *)
(* So it is when the dates of the log have one format: auto_detect tries a *)
(* format on all the lines before the next one.  prefregex is left out.    *)
Ignored(ls) == \E i \in DOMAIN ls : HoldsOneOf(Ignorable, ls[i])
FailsAt(ls, i) ==
    \/ HoldsOneOf(Failing, ls[i])
    \/ /\ i < Len(ls)
       /\ \E n \in Pairs : Whole(ls[i], n) /\ Whole(ls[i + 1], n + 1)
Matched(ls) == {i \in DOMAIN ls : ~Ignored(ls) /\ FailsAt(ls, i)}
FirstDate(ls) ==
    IF \E i \in DOMAIN ls : Dated(ls[i])
    THEN ls[SelectInSeq(ls, Dated)] ELSE None

Least(S) == CHOOSE i \in S : \A j \in S : i <= j

(* Mutated form: the buffer is kept after a match.                         *)
ProcessBufferedKept(ls) ==
    /\ buffer' = ls
    /\ matches' = IF Matched(ls) = {} THEN matches
                  ELSE Append(matches, [line |-> ls[Least(Matched(ls))],
                                        date |-> FirstDate(ls), at |-> taken'])

(* process_buffered: cleared by a match, or else kept for the next line.   *)
ProcessBuffered(ls) ==
    IF Matched(ls) = {}
    THEN buffer' = ls /\ UNCHANGED matches
    ELSE /\ buffer' = <<>>
         /\ matches' = Append(matches, [line |-> ls[Least(Matched(ls))],
                                        date |-> FirstDate(ls), at |-> taken'])

(* The jail task receives a line.                                          *)
Take ==
    /\ taken < Len(sent)
    /\ taken' = taken + 1
    /\ ProcessBuffered(Pushed(taken'))
    /\ UNCHANGED vars

(* The backend waits for room in the channel.                              *)
Send == SendLine /\ Len(sent) - taken < Capacity /\ UNCHANGED jail

PipelineNext ==
    \/ Start /\ UNCHANGED jail
    \/ Follow /\ UNCHANGED jail
    \/ Writer /\ UNCHANGED jail
    \/ Send \/ Take

PipelineSpec ==
    /\ PipelineInit /\ [][PipelineNext]_allVars
    /\ Fairness /\ WF_allVars(Send) /\ WF_allVars(Take)

-----------------------------------------------------------------------------
(* Places of sent lines, in order and not yet matched.                     *)
PipelineTypeOK ==
    /\ TypeOK
    /\ taken \in 0..Len(sent) /\ Len(sent) - taken <= Capacity
    /\ Len(buffer) <= Cap
    /\ \A i \in DOMAIN buffer : buffer[i] = taken - Len(buffer) + i
    /\ \A m \in Range(matches) : m.line \in 1..m.at /\ m.at \in 1..taken

(* "On a match, the buffer is cleared" (filter/mod.rs:255): a match is made *)
(* of lines after the last match, so that a failure counts once, and its   *)
(* date, which findtime and the ban go by, is that of a line less than     *)
(* maxlines before the one that completed it.                              *)
DatesAreClose ==
    \A i \in DOMAIN matches :
        LET m == matches[i]
        IN  /\ m.date # None /\ m.date <= m.line /\ m.at - m.date < Cap
            /\ i > 1 => m.date > matches[i - 1].at

(* A failing line, or a failing pair of lines, is a match when the jail    *)
(* receives it, unless one of the lines the filter may remember, less than *)
(* maxlines before, is to be ignored or the first of the pair completed a  *)
(* match itself: nothing else hides a failure.                             *)
Remembered(k) == {j \in 1..k : k - j < Cap}
Failure(k) ==
    \/ HoldsOneOf(Failing, k)
    \/ /\ k > 1 /\ Cap > 1
       /\ \E n \in Pairs : Whole(k - 1, n) /\ Whole(k, n + 1)
       /\ \A m \in Range(matches) : m.at # k - 1
FailureCounted ==
    [][/\ taken' = taken + 1
       /\ Failure(taken')
       /\ \A k \in Remembered(taken') : ~HoldsOneOf(Ignorable, k)
       => Len(matches') = Len(matches) + 1]_allVars
=============================================================================
