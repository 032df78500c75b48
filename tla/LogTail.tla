------------------------------- MODULE LogTail -------------------------------
(***************************************************************************)
(* How a jail follows one log file: backend/file.rs (inotify, falling back *)
(* to polling) and backend/poll.rs, against a writer and a log rotation    *)
(* that run at any moment.  A file is a sequence of pieces: a line is two  *)
(* halves, the second of which ends it, so that it can be read half        *)
(* written.  Lines are numbered as they are written.                       *)
(***************************************************************************)
EXTENDS Integers, Sequences, SequencesExt

CONSTANTS None,
          Rotations,       \* the ways a log is rotated: "rename", "truncate"
          TornWrites,      \* may a line be read while it is half written?
          Undecodable,     \* the lines that are not UTF-8
          MaxLines, MaxRotations    \* bounds

ASSUME LogTailAssumption ==
    /\ None \notin Nat \cup [inode : Nat, pos : Nat]
    /\ Rotations \subseteq {"rename", "truncate"}
    /\ TornWrites \in BOOLEAN
    /\ Undecodable \subseteq Nat
    /\ MaxLines \in Nat /\ MaxRotations \in Nat

VARIABLES
    files,       \* the contents of the files, by inode
    path,        \* the inode the log path names, or None
    out,         \* the inode the writer holds open
    half,        \* is the writer in the middle of a line?
    lines,       \* how many lines were begun
    rotations,
    mode,        \* which backend runs, or "none"
    pc,          \* where it is in its loop
    handle,      \* the open file: inode and position, or None
    buf,         \* the BufReader: pieces read and not yet returned
    inode, size, \* FileState.inode and .size; ino and last_size with inotify
    event,       \* inotify: is an event queued?
    watched,     \* inotify: the inode the watch is on
    sent,        \* the lines sent to the jail
    astray       \* did inotify fall back to polling, or store the inode of
                 \* a file it left?

disk == <<files, path, out, half, lines, rotations>>
reader == <<handle, buf, inode, size>>
vars == <<disk, mode, pc, reader, event, watched, sent, astray>>

Piece == [line : 1..MaxLines, end : BOOLEAN]
First(n) == [line |-> n, end |-> FALSE]
Second(n) == [line |-> n, end |-> TRUE]

Init ==
    /\ files = << <<>> >> /\ path = 1 /\ out = 1
    /\ half = FALSE /\ lines = 0 /\ rotations = 0
    /\ mode = "none" /\ pc = "wait" /\ handle = None /\ buf = <<>>
    /\ inode = None /\ size = 0 /\ event = FALSE /\ watched = None
    /\ sent = <<>> /\ astray = FALSE

-----------------------------------------------------------------------------
(* The writer and the rotation, in other processes.  The kernel queues an  *)
(* inotify event for each change of the watched file.                      *)
Notify(i) == event' = (event \/ (mode = "inotify" /\ watched = i))
Elsewhere == UNCHANGED <<mode, pc, reader, watched, sent, astray>>

Write ==
    /\ ~half /\ lines < MaxLines
    /\ lines' = lines + 1
    /\ \/ /\ files' = [files EXCEPT ![out] =
                          @ \o <<First(lines'), Second(lines')>>]
          /\ UNCHANGED half
       \/ /\ TornWrites
          /\ files' = [files EXCEPT ![out] = Append(@, First(lines'))]
          /\ half' = TRUE
    /\ Notify(out) /\ UNCHANGED <<path, out, rotations>> /\ Elsewhere

WriteRest ==
    /\ half
    /\ files' = [files EXCEPT ![out] = Append(@, Second(lines))]
    /\ half' = FALSE
    /\ Notify(out) /\ UNCHANGED <<path, out, lines, rotations>> /\ Elsewhere

(* logrotate renames the log, creates a new one, and tells the writer.     *)
Rename ==
    /\ "rename" \in Rotations /\ rotations < MaxRotations
    /\ path # None /\ out = path
    /\ path' = None /\ rotations' = rotations + 1
    /\ Notify(path) /\ UNCHANGED <<files, out, half, lines>> /\ Elsewhere

Create ==
    /\ path = None
    /\ files' = Append(files, <<>>) /\ path' = Len(files')
    /\ UNCHANGED <<out, half, lines, rotations, event>> /\ Elsewhere

Reopen ==
    /\ path # None /\ out # path /\ ~half
    /\ out' = path
    /\ UNCHANGED <<files, path, half, lines, rotations, event>> /\ Elsewhere

(* ... or copies it and truncates it (copytruncate).                       *)
Truncate ==
    /\ "truncate" \in Rotations /\ rotations < MaxRotations
    /\ path # None /\ files[path] # <<>>
    /\ files' = [files EXCEPT ![path] = <<>>] /\ rotations' = rotations + 1
    /\ Notify(path) /\ UNCHANGED <<path, out, half, lines>> /\ Elsewhere

-----------------------------------------------------------------------------
(* FileBackend::run: inotify, or polling when it cannot be set up.  Both   *)
(* begin at the head of the file (spawn_backends passes from_tail = false) *)
(* and inotify starts with last_size at the end of what is there.  The     *)
(* glob of the log path must match, or the backend ends at once.           *)
Open(i) == [inode |-> i, pos |-> 0]

StartPolling ==
    /\ mode' = "poll" /\ pc' = "check"
    /\ handle' = (IF path = None THEN None ELSE Open(path))
    /\ inode' = path /\ size' = 0 /\ buf' = <<>>
    /\ event' = FALSE /\ watched' = None

StartInotify ==
    /\ mode' = "inotify" /\ pc' = "wait"
    /\ handle' = Open(path) /\ watched' = path
    /\ inode' = path /\ size' = Len(files[path]) /\ buf' = <<>>
    /\ event' = FALSE

(* The jail starts its backend at any moment in the life of the log.       *)
Start ==
    /\ mode = "none" /\ path # None
    /\ StartInotify \/ StartPolling
    /\ UNCHANGED <<disk, sent, astray>>

-----------------------------------------------------------------------------
(* One round: the poll interval is over, or an event is there ...          *)
Wake ==
    /\ pc = "wait"
    /\ mode = "poll" \/ (mode = "inotify" /\ event)
    /\ pc' = "check" /\ event' = FALSE
    /\ UNCHANGED <<disk, mode, reader, watched, sent, astray>>

(* Mutated form.                                                           *)
ShrunkOrSame(i) == Len(files[i]) <= size
Shrunk(i) == Len(files[i]) < size

(* Mutated form: the size is not reset with the reader.                    *)
PollCheckKeepsSize ==
    /\ mode = "poll" /\ pc = "check"
    /\ IF path # None /\ (path # inode \/ Shrunk(path))
       THEN inode' = path /\ handle' = None /\ buf' = <<>> /\ UNCHANGED size
       ELSE UNCHANGED reader
    /\ pc' = "open"
    /\ UNCHANGED <<disk, mode, event, watched, sent, astray>>

(* ... poll_one compares the path's file with the one it has open ...      *)
PollCheck ==
    /\ mode = "poll" /\ pc = "check"
    /\ IF path # None /\ (path # inode \/ Shrunk(path))
       THEN inode' = path /\ size' = 0 /\ handle' = None /\ buf' = <<>>
       ELSE UNCHANGED reader
    /\ pc' = "open"
    /\ UNCHANGED <<disk, mode, event, watched, sent, astray>>

(* ... and opens it when it has none (try_open); ...                       *)
PollOpen ==
    /\ mode = "poll" /\ pc = "open"
    /\ IF handle = None /\ path # None
       THEN LET at == IF Shrunk(path) THEN 0 ELSE size
            IN  /\ handle' = [inode |-> path, pos |-> at]
                /\ inode' = path /\ size' = at /\ UNCHANGED buf
       ELSE UNCHANGED reader
    /\ pc' = IF handle' = None THEN "wait" ELSE "read"
    /\ UNCHANGED <<disk, mode, event, watched, sent, astray>>

(* ... or run_inotify looks at the file it has open, and opens the path    *)
(* anew when that file has shrunk; the inode it compares is that file's    *)
(* own, and the one it stores the inode of before.                         *)
InotifyCheck ==
    /\ mode = "inotify" /\ pc = "check"
    /\ IF (handle.inode # inode \/ Shrunk(handle.inode)) /\ path # None
       THEN /\ handle' = Open(path) /\ inode' = handle.inode /\ size' = 0
            /\ astray' = (astray \/ path # handle.inode)
            /\ UNCHANGED buf
       ELSE UNCHANGED <<reader, astray>>
    /\ pc' = "read"
    /\ UNCHANGED <<disk, mode, event, watched, sent>>

-----------------------------------------------------------------------------
(* read_line: from the buffer, which is filled from the file when it does  *)
(* not hold a whole line.                                                  *)
Unread == SubSeq(files[handle.inode], handle.pos + 1, Len(files[handle.inode]))
Decodable(text) == \A k \in DOMAIN text : text[k].line \notin Undecodable
LineEnd == SelectInSeq(buf, LAMBDA p : p.end)

Fill ==
    /\ pc = "read" /\ LineEnd = 0 /\ Unread # <<>>
    /\ buf' = buf \o Unread
    /\ handle' = [handle EXCEPT !.pos = @ + Len(Unread)]
    /\ UNCHANGED <<disk, mode, pc, inode, size, event, watched, sent, astray>>

(* The next line, or at the end of the file what there is of one.          *)
Line == IF LineEnd = 0 THEN buf ELSE SubSeq(buf, 1, LineEnd)
Ready == pc = "read" /\ buf # <<>> /\ (LineEnd # 0 \/ Unread = <<>>)

SendLine ==
    /\ Ready /\ Decodable(Line)
    /\ sent' = Append(sent, Line)
    /\ buf' = SubSeq(buf, Len(Line) + 1, Len(buf))
    /\ UNCHANGED <<disk, mode, pc, handle, inode, size, event, watched, astray>>

(* A line that is not UTF-8 is an error: poll_one goes on in its next      *)
(* round, run_inotify ends and polling begins at the head of the file.     *)
FailLine ==
    /\ Ready /\ ~Decodable(Line)
    /\ \/ /\ mode = "poll"
          /\ buf' = SubSeq(buf, Len(Line) + 1, Len(buf))
          /\ pc' = "wait"
          /\ UNCHANGED <<mode, handle, inode, size, event, watched, astray>>
       \/ mode = "inotify" /\ StartPolling /\ astray' = TRUE
    /\ UNCHANGED <<disk, sent>>

EndOfFile ==
    /\ pc = "read" /\ buf = <<>> /\ Unread = <<>>
    /\ size' = handle.pos
    /\ pc' = "wait"
    /\ UNCHANGED <<disk, mode, handle, buf, inode, event, watched, sent, astray>>

Follow ==
    \/ Wake \/ PollCheck \/ PollOpen \/ InotifyCheck
    \/ Fill \/ FailLine \/ EndOfFile
Writer == Write \/ WriteRest \/ Rename \/ Create \/ Reopen \/ Truncate

Next == Start \/ Follow \/ SendLine \/ Writer
Spec == Init /\ [][Next]_vars

(* The backend task is run whenever it can run; logrotate finishes what it *)
(* began.  Nobody has to write.                                            *)
Fairness ==
    /\ WF_vars(Wake) /\ WF_vars(PollCheck) /\ WF_vars(PollOpen)
    /\ WF_vars(InotifyCheck) /\ WF_vars(Fill)
    /\ WF_vars(FailLine) /\ WF_vars(EndOfFile)
    /\ WF_vars(Create) /\ WF_vars(Reopen) /\ WF_vars(WriteRest)

-----------------------------------------------------------------------------
Offset == 0..(2 * MaxLines)

(* Shapes of the state, and that only an open file is read.                *)
TypeOK ==
    /\ \A i \in DOMAIN files : files[i] \in Seq(Piece)
    /\ path \in DOMAIN files \cup {None} /\ out \in DOMAIN files
    /\ half \in BOOLEAN
    /\ lines \in 0..MaxLines /\ rotations \in 0..MaxRotations
    /\ mode \in {"none", "poll", "inotify"}
    /\ pc \in {"wait", "check", "open", "read"}
    /\ handle \in [inode : DOMAIN files, pos : Offset] \cup {None}
    /\ pc = "read" \/ mode = "inotify" => handle # None
    /\ buf \in Seq(Piece)
    /\ inode \in DOMAIN files \cup {None} /\ size \in Offset
    /\ event \in BOOLEAN /\ watched \in DOMAIN files \cup {None}
    /\ \A k \in DOMAIN sent : sent[k] \in Seq(Piece)
    /\ astray \in BOOLEAN

(* A backend sends nothing twice and nothing out of order, however the log *)
(* is rotated: a failure in the log counts once.  Except when inotify      *)
(* failed and polling began anew, or when it opened a new file and stored  *)
(* the inode of the old one, which makes it read the new file once more.   *)
Rank(p) == 2 * p.line + (IF p.end THEN 1 ELSE 0)
OnceInOrder ==
    ~astray =>
        \A k, l \in DOMAIN sent : \A i \in DOMAIN sent[k], j \in DOMAIN sent[l] :
            k < l \/ (k = l /\ i < j) => Rank(sent[k][i]) < Rank(sent[l][j])

(* A line that ends in the file the path names, ahead of the reader, who   *)
(* does not hold half of a line that cannot be read to prepend to it.      *)
Ahead(n) ==
    /\ path # None
    /\ \E k \in DOMAIN files[path] :
          /\ files[path][k] = Second(n)
          /\ handle # None /\ handle.inode = path => handle.pos < k
    /\ buf # <<>> /\ ~Last(buf).end => Decodable(buf)
Arrived(n) == \E k \in DOMAIN sent : Second(n) \in Range(sent[k])
Awake ==
    \/ mode = "poll"
    \/ mode = "inotify" /\ handle.inode = path /\ (event \/ pc # "wait")

(* Every such line is sent to the jail, by a polling backend in any case   *)
(* and by inotify once an event has come, if the log is not rotated before.*)
LinesArrive ==
    \A n \in (1..MaxLines) \ Undecodable, r \in 0..MaxRotations :
        rotations = r /\ Awake /\ Ahead(n) ~> Arrived(n) \/ rotations # r

(* "Re-stat to detect rotation / truncation" (file.rs:107): the backend    *)
(* comes to follow the file that the log path names.                       *)
RotationFollowed ==
    \A i \in 1..(MaxRotations + 1) :
        mode # "none" /\ path = i
            ~> path # i \/ (handle # None /\ handle.inode = i)
=============================================================================
