-------------------------- MODULE LinePipelineProofs --------------------------
(***************************************************************************)
(* Machine-checked proofs about LogTail and LinePipeline, for any number   *)
(* of lines and rotations and any capacities: the types; that no piece of  *)
(* a line is sent twice or out of order; and that a match has the date of  *)
(* a line close to it.                                                     *)
(***************************************************************************)
EXTENDS LinePipeline, SequenceTheorems, RecursionLemmas

(* Parts of sequences.                                                     *)
LEMMA Suffix ==
    ASSUME NEW S, NEW s \in Seq(S), NEW n \in Nat
    PROVE  /\ SubSeq(s, n + 1, Len(s)) \in Seq(S)
           /\ Len(SubSeq(s, n + 1, Len(s))) = IF n < Len(s) THEN Len(s) - n ELSE 0
           /\ \A i \in 1..(Len(s) - n) : SubSeq(s, n + 1, Len(s))[i] = s[n + i]
<1>1. Len(s) \in Nat /\ \A i \in (n + 1)..Len(s) : s[i] \in S
  OBVIOUS
<1>2. n + 1 \in Int /\ Len(s) \in Int
  BY <1>1
<1>3. /\ SubSeq(s, n + 1, Len(s)) \in Seq(S)
      /\ Len(SubSeq(s, n + 1, Len(s))) = IF n + 1 <= Len(s) THEN Len(s) - (n + 1) + 1 ELSE 0
      /\ \A i \in 1..(Len(s) - (n + 1) + 1) :
            SubSeq(s, n + 1, Len(s))[i] = s[n + 1 + i - 1]
  BY <1>1, <1>2, SubSeqProperties
<1> QED BY <1>1, <1>3

LEMMA Prefix ==
    ASSUME NEW S, NEW s \in Seq(S), NEW n \in 0..Len(s)
    PROVE  /\ SubSeq(s, 1, n) \in Seq(S)
           /\ Len(SubSeq(s, 1, n)) = n
           /\ \A i \in 1..n : SubSeq(s, 1, n)[i] = s[i]
<1>1. Len(s) \in Nat /\ n \in Int /\ 1 \in Int /\ \A i \in 1..n : s[i] \in S
  OBVIOUS
<1>2. /\ SubSeq(s, 1, n) \in Seq(S)
      /\ Len(SubSeq(s, 1, n)) = IF 1 <= n THEN n - 1 + 1 ELSE 0
      /\ \A i \in 1..(n - 1 + 1) : SubSeq(s, 1, n)[i] = s[1 + i - 1]
  BY <1>1, SubSeqProperties
<1> QED BY <1>1, <1>2

-----------------------------------------------------------------------------
(* The rank of the piece written last, and the types: the disk, the        *)
(* backend, the jail.  No file is longer than what was written.            *)
Top == 2 * lines + (IF half THEN 0 ELSE 1)

DiskOK ==
    /\ files \in Seq(Seq(Piece))
    /\ path \in DOMAIN files \cup {None} /\ out \in DOMAIN files
    /\ half \in BOOLEAN /\ lines \in 0..MaxLines /\ rotations \in 0..MaxRotations
    /\ half => lines > 0
    /\ \A i \in DOMAIN files : Len(files[i]) <= Top - 1
    /\ path = None => out = Len(files)
    /\ path # None => path = Len(files)

Handles == [inode : DOMAIN files, pos : Nat]
ReaderOK ==
    /\ mode \in {"none", "poll", "inotify"} /\ pc \in {"wait", "check", "open", "read"}
    /\ handle \in Handles \cup {None}
    /\ handle # None => handle.pos <= Top - 1
    /\ pc = "read" \/ mode = "inotify" => handle # None
    /\ size \in Nat /\ size <= Top - 1 /\ buf \in Seq(Piece)
    /\ inode \in DOMAIN files \cup {None}
    /\ event \in BOOLEAN /\ watched \in DOMAIN files \cup {None}
    /\ sent \in Seq(Seq(Piece)) /\ astray \in BOOLEAN
    /\ mode = "none" => sent = <<>> /\ ~astray /\ handle = None
    /\ handle = None => size = 0 /\ buf = <<>>
    /\ mode = "inotify" => pc # "open" /\ (pc # "read" => buf = <<>>)
TailOK == DiskOK /\ ReaderOK

LEMMA InitTailOK == Init => TailOK
<1> SUFFICES ASSUME Init PROVE TailOK
  OBVIOUS
<1>1. /\ files \in Seq(Seq(Piece)) /\ Len(files) = 1 /\ DOMAIN files = {1}
      /\ files[1] = <<>> /\ Len(files[1]) = 0
  BY DEF Init
<1>2. 1 \notin {None} /\ MaxLines \in Nat /\ MaxRotations \in Nat
  BY LogTailAssumption
<1>3. DiskOK
  <2>1. Top = 1 /\ lines = 0 /\ ~half
    BY DEF Init, Top
  <2>2. \A i \in DOMAIN files : Len(files[i]) <= Top - 1
    BY <1>1, <2>1
  <2>3. path = 1 /\ out = 1 /\ path # None
    BY <1>2 DEF Init
  <2>4. lines \in 0..MaxLines /\ rotations \in 0..MaxRotations
    BY <1>2 DEF Init
  <2> QED BY <1>1, <2>1, <2>2, <2>3, <2>4 DEF DiskOK, Init
<1>4. ReaderOK
  <2>1. Top = 1
    BY DEF Init, Top
  <2>2. buf \in Seq(Piece) /\ sent \in Seq(Seq(Piece))
    BY DEF Init
  <2>3. /\ mode = "none" /\ pc = "wait" /\ handle = None /\ size = 0 /\ buf = <<>>
        /\ inode = None /\ watched = None /\ sent = <<>>
        /\ event \in BOOLEAN /\ astray \in BOOLEAN /\ ~astray
    BY DEF Init
  <2> QED BY <2>1, <2>2, <2>3 DEF ReaderOK
<1> QED BY <1>3, <1>4 DEF TailOK

(* What the backend still has to read, and the line it returns next.       *)
LEMMA UnreadIs ==
    ASSUME TailOK, handle # None
    PROVE  /\ handle.inode \in DOMAIN files /\ handle.pos \in Nat
           /\ files[handle.inode] \in Seq(Piece) /\ Unread \in Seq(Piece)
           /\ Len(Unread) = IF handle.pos < Len(files[handle.inode])
                            THEN Len(files[handle.inode]) - handle.pos ELSE 0
           /\ \A i \in DOMAIN Unread :
                 /\ handle.pos + i \in DOMAIN files[handle.inode]
                 /\ Unread[i] = files[handle.inode][handle.pos + i]
<1>1. handle.inode \in DOMAIN files /\ handle.pos \in Nat
  BY DEF TailOK, ReaderOK, Handles
<1>2. files[handle.inode] \in Seq(Piece)
  BY <1>1 DEF TailOK, DiskOK
<1> DEFINE f == files[handle.inode]
<1> HIDE DEF f
<1>3. /\ SubSeq(f, handle.pos + 1, Len(f)) \in Seq(Piece)
      /\ Len(SubSeq(f, handle.pos + 1, Len(f)))
         = IF handle.pos < Len(f) THEN Len(f) - handle.pos ELSE 0
      /\ \A i \in 1..(Len(f) - handle.pos) :
            SubSeq(f, handle.pos + 1, Len(f))[i] = f[handle.pos + i]
  BY <1>1, <1>2, Suffix DEF f
<1>4. Unread = SubSeq(f, handle.pos + 1, Len(f))
  BY DEF Unread, f
<1>5. /\ Unread \in Seq(Piece)
      /\ Len(Unread) = IF handle.pos < Len(f) THEN Len(f) - handle.pos ELSE 0
      /\ \A i \in 1..(Len(f) - handle.pos) : Unread[i] = f[handle.pos + i]
  BY <1>3, <1>4
<1>6. DOMAIN Unread = 1..Len(Unread) /\ f \in Seq(Piece) /\ DOMAIN f = 1..Len(f)
      /\ Len(f) \in Nat
  BY <1>2, <1>5 DEF f
<1>7. \A i \in DOMAIN Unread :
          handle.pos + i \in DOMAIN f /\ Unread[i] = f[handle.pos + i]
  BY <1>1, <1>5, <1>6, SMTT(20)
<1> QED BY <1>1, <1>2, <1>5, <1>7, SMTT(20) DEF f

Rest == SubSeq(buf, Len(Line) + 1, Len(buf))
LEMMA LineIs ==
    ASSUME buf \in Seq(Piece)
    PROVE  /\ Line \in Seq(Piece) /\ Rest \in Seq(Piece)
           /\ \A i \in DOMAIN Line : i \in DOMAIN buf /\ Line[i] = buf[i]
           /\ \A i \in DOMAIN Rest :
                 Len(Line) + i \in DOMAIN buf /\ Rest[i] = buf[Len(Line) + i]
           /\ \A i \in DOMAIN buf :
                 \/ i \in DOMAIN Line
                 \/ i - Len(Line) \in DOMAIN Rest /\ i = Len(Line) + (i - Len(Line))
<1>1. LineEnd \in 0..Len(buf)
  <2> DEFINE I == {i \in 1..Len(buf) : buf[i].end}
  <2>1. LineEnd = IF I # {} THEN Min(I) ELSE 0
    BY DEF LineEnd, SelectInSeq
  <2>2. Len(buf) \in Nat /\ I \in SUBSET Nat /\ I \subseteq 0..Len(buf)
    OBVIOUS
  <2> HIDE DEF I
  <2>3. I # {} => Min(I) \in I
    BY <2>2, HasLeast DEF Min
  <2>4. Min(I) \in I => Min(I) \in 0..Len(buf)
    BY <2>2
  <2>5. 0 \in 0..Len(buf)
    BY <2>2
  <2> QED BY <2>1, <2>3, <2>4, <2>5
<1>2. /\ Line \in Seq(Piece) /\ Len(Line) \in 0..Len(buf)
      /\ \A i \in 1..Len(Line) : Line[i] = buf[i]
  <2>1. CASE LineEnd = 0
    BY <2>1 DEF Line
  <2>2. CASE LineEnd # 0
    BY <1>1, <2>2, Prefix DEF Line
  <2> QED BY <2>1, <2>2
<1>3. Len(Line) \in Nat /\ Len(buf) \in Nat /\ DOMAIN Line = 1..Len(Line)
      /\ DOMAIN buf = 1..Len(buf)
  BY <1>2
<1>4. /\ Rest \in Seq(Piece) /\ Len(Rest) = Len(buf) - Len(Line)
      /\ \A i \in 1..(Len(buf) - Len(Line)) : Rest[i] = buf[Len(Line) + i]
  <2> DEFINE n == Len(Line)
  <2> HIDE DEF n
  <2>1. n \in Nat /\ n <= Len(buf) /\ n = Len(Line)
    BY <1>2, <1>3 DEF n
  <2>2. /\ SubSeq(buf, n + 1, Len(buf)) \in Seq(Piece)
        /\ Len(SubSeq(buf, n + 1, Len(buf))) = IF n < Len(buf) THEN Len(buf) - n ELSE 0
        /\ \A i \in 1..(Len(buf) - n) : SubSeq(buf, n + 1, Len(buf))[i] = buf[n + i]
    BY <2>1, Suffix
  <2>3. Rest = SubSeq(buf, n + 1, Len(buf))
    BY DEF Rest, n
  <2>a. Len(SubSeq(buf, n + 1, Len(buf))) = Len(buf) - n
    <3>1. Len(buf) \in Nat
      BY <1>3
    <3>2. n < Len(buf) \/ Len(buf) - n = 0
      BY <2>1, <3>1
    <3> QED BY <2>2, <3>2
  <2>4. Len(Rest) = Len(buf) - Len(Line)
    BY <2>a, <2>1, <2>3
  <2>5. \A i \in 1..(Len(buf) - Len(Line)) : Rest[i] = buf[Len(Line) + i]
    BY <2>1, <2>2, <2>3
  <2> QED BY <2>2, <2>3, <2>4, <2>5
<1>5. DOMAIN Rest = 1..Len(Rest)
  BY <1>4
<1> QED BY <1>2, <1>3, <1>4, <1>5

LEMMA TopIs ==
    ASSUME DiskOK
    PROVE  /\ Top \in Nat /\ Top >= 1 /\ Top - 1 <= 2 * MaxLines
           /\ files \in Seq(Seq(Piece)) /\ Len(files) \in Nat /\ DOMAIN files = 1..Len(files)
           /\ \A i \in DOMAIN files : files[i] \in Seq(Piece) /\ Len(files[i]) \in Nat
           /\ None \notin DOMAIN files
<1>1. /\ files \in Seq(Seq(Piece)) /\ Len(files) \in Nat /\ DOMAIN files = 1..Len(files)
      /\ \A i \in DOMAIN files : files[i] \in Seq(Piece) /\ Len(files[i]) \in Nat
  BY DEF DiskOK
<1>2. lines \in Nat /\ lines <= MaxLines /\ MaxLines \in Nat /\ half \in BOOLEAN
      /\ (half => lines > 0)
  BY LogTailAssumption DEF DiskOK
<1>3. Top \in Nat /\ Top >= 1 /\ Top - 1 <= 2 * MaxLines
  BY <1>2 DEF Top
<1> QED BY <1>1, <1>3, LogTailAssumption

(* A step of another process leaves the backend as it is.                  *)
LEMMA ReaderKept ==
    ASSUME DiskOK, DiskOK', ReaderOK, DOMAIN files \subseteq DOMAIN files', Top <= Top',
           UNCHANGED <<mode, pc, reader, watched, sent, astray>>, event' \in BOOLEAN
    PROVE  ReaderOK'
<1>1. Top \in Nat /\ Top' \in Nat
  <2>1. Top \in Nat
    BY TopIs
  <2>2. Top' \in Nat
    <3>1. lines' \in Nat /\ half' \in BOOLEAN /\ (half' => lines' > 0)
      BY LogTailAssumption DEF DiskOK
    <3>2. \A n \in Nat, b \in BOOLEAN : 2 * n + (IF b THEN 0 ELSE 1) \in Nat
      OBVIOUS
    <3>3. Top' = 2 * lines' + (IF half' THEN 0 ELSE 1)
      BY DEF Top
    <3> QED BY <3>1, <3>2, <3>3
  <2> QED BY <2>1, <2>2
<1>2. Handles \subseteq Handles'
  BY DEF Handles
<1>3. handle' = handle /\ inode' = inode /\ size' = size /\ buf' = buf
  BY DEF reader
<1>4. handle # None => handle.pos <= Top' - 1
  <2>1. handle # None => handle.pos \in Nat /\ handle.pos <= Top - 1
    BY DEF ReaderOK, Handles
  <2> QED BY <1>1, <2>1
<1>5. size \in Nat /\ size <= Top' - 1
  <2>1. size \in Nat /\ size <= Top - 1
    BY DEF ReaderOK
  <2>2. \A a, b, c \in Nat : a <= b - 1 /\ b <= c => a <= c - 1
    OBVIOUS
  <2> QED BY <1>1, <2>1, <2>2
<1>6. UNCHANGED <<mode, pc, watched, sent, astray>>
  OBVIOUS
<1> QED BY <1>2, <1>3, <1>4, <1>5, <1>6 DEF ReaderOK

(* The file the writer holds open is written.                              *)
LEMMA Rewritten ==
    ASSUME DiskOK, NEW s \in Seq(Piece), files' = [files EXCEPT ![out] = s]
    PROVE  /\ files' \in Seq(Seq(Piece)) /\ Len(files') = Len(files)
           /\ DOMAIN files' = DOMAIN files /\ files'[out] = s
           /\ \A i \in DOMAIN files : i # out => files'[i] = files[i]
  BY DEF DiskOK

LEMMA AddedPieces ==
    ASSUME NEW s \in Seq(Piece), NEW p \in Piece, NEW q \in Piece
    PROVE  /\ s \o <<p, q>> \in Seq(Piece) /\ Len(s \o <<p, q>>) = Len(s) + 2
           /\ Append(s, p) \in Seq(Piece) /\ Len(Append(s, p)) = Len(s) + 1
           /\ Len(s) \in Nat
           /\ \A i \in DOMAIN (s \o <<p, q>>) :
                 \/ i \in DOMAIN s /\ (s \o <<p, q>>)[i] = s[i]
                 \/ i = Len(s) + 1 /\ (s \o <<p, q>>)[i] = p
                 \/ i = Len(s) + 2 /\ (s \o <<p, q>>)[i] = q
           /\ \A i \in DOMAIN Append(s, p) :
                 \/ i \in DOMAIN s /\ Append(s, p)[i] = s[i]
                 \/ i = Len(s) + 1 /\ Append(s, p)[i] = p
<1>1. <<p, q>> \in Seq(Piece) /\ Len(<<p, q>>) = 2
  OBVIOUS
<1> DEFINE t == <<p, q>>
<1>2. t \in Seq(Piece) /\ Len(t) = 2 /\ t[1] = p /\ t[2] = q
  OBVIOUS
<1> HIDE DEF t
<1>3. /\ s \o t \in Seq(Piece) /\ Len(s \o t) = Len(s) + 2 /\ Len(s) \in Nat
      /\ \A i \in DOMAIN (s \o t) :
            \/ i \in DOMAIN s /\ (s \o t)[i] = s[i]
            \/ i = Len(s) + 1 /\ (s \o t)[i] = p
            \/ i = Len(s) + 2 /\ (s \o t)[i] = q
  <2>0. /\ s \o t \in Seq(Piece) /\ Len(s \o t) = Len(s) + Len(t) /\ Len(s) \in Nat
        /\ \A i \in 1..(Len(s) + Len(t)) :
              (s \o t)[i] = IF i <= Len(s) THEN s[i] ELSE t[i - Len(s)]
    BY <1>2, ConcatProperties, LenProperties
  <2>1. /\ s \o t \in Seq(Piece) /\ Len(s \o t) = Len(s) + 2 /\ Len(s) \in Nat
        /\ \A i \in 1..(Len(s) + 2) :
              (s \o t)[i] = IF i <= Len(s) THEN s[i] ELSE t[i - Len(s)]
    BY <1>2, <2>0
  <2>2. DOMAIN (s \o t) = 1..(Len(s) + 2) /\ DOMAIN s = 1..Len(s)
    BY <2>1
  <2> QED BY <1>2, <2>1, <2>2
<1>4. /\ Append(s, p) \in Seq(Piece) /\ Len(Append(s, p)) = Len(s) + 1
      /\ \A i \in DOMAIN Append(s, p) :
            \/ i \in DOMAIN s /\ Append(s, p)[i] = s[i]
            \/ i = Len(s) + 1 /\ Append(s, p)[i] = p
  OBVIOUS
<1> QED BY <1>3, <1>4 DEF t

(* What the writer and the rotation do to the disk.  A piece is new, or it *)
(* was there, in a file that did not shrink.                               *)
Fresh(s, k, low, high) ==
    /\ Rank(s[k]) > low /\ Rank(s[k]) <= high
    /\ \A m \in DOMAIN s : k < m => Rank(s[k]) < Rank(s[m])
Grows ==
    /\ DOMAIN files \subseteq DOMAIN files' /\ Top <= Top' /\ out <= out'
    /\ \A j \in DOMAIN files' : \A k \in DOMAIN files'[j] :
          \/ j = out /\ Fresh(files'[j], k, Top, Top')
          \/ /\ j \in DOMAIN files /\ k \in DOMAIN files[j]
             /\ files'[j][k] = files[j][k] /\ Len(files[j]) <= Len(files'[j])

LEMMA WriteGrows ==
    ASSUME DiskOK, Write \/ WriteRest
    PROVE  DiskOK' /\ Grows
<1>0. /\ files \in Seq(Seq(Piece)) /\ out \in DOMAIN files /\ files[out] \in Seq(Piece)
      /\ Top \in Nat /\ lines \in Nat /\ lines <= MaxLines /\ MaxLines \in Nat
      /\ half \in BOOLEAN
      /\ \A i \in DOMAIN files : files[i] \in Seq(Piece) /\ Len(files[i]) \in Nat
      /\ \A i \in DOMAIN files : Len(files[i]) <= Top - 1
  BY TopIs, LogTailAssumption DEF DiskOK
<1>n. \A i \in DOMAIN files : DOMAIN files[i] = 1..Len(files[i])
  BY <1>0
<1>o. out <= out
  BY TopIs DEF DiskOK
<1>w. ASSUME NEW s \in Seq(Piece), files' = [files EXCEPT ![out] = s], UNCHANGED <<path, out, rotations>>,
             half' \in BOOLEAN, lines' \in 0..MaxLines, half' => lines' > 0,
             Top' \in Nat, Top <= Top', Len(s) <= Top' - 1, Len(files[out]) <= Len(s),
             \A k \in DOMAIN s : \/ Fresh(s, k, Top, Top')
                                 \/ k \in DOMAIN files[out] /\ s[k] = files[out][k]
      PROVE  DiskOK' /\ Grows
  <2>1. /\ files' \in Seq(Seq(Piece)) /\ Len(files') = Len(files)
        /\ DOMAIN files' = DOMAIN files /\ files'[out] = s
        /\ \A i \in DOMAIN files : i # out => files'[i] = files[i]
    BY <1>w, Rewritten
  <2>2. \A i \in DOMAIN files' : Len(files'[i]) <= Top' - 1
    <3> SUFFICES ASSUME NEW i \in DOMAIN files' PROVE Len(files'[i]) <= Top' - 1
      OBVIOUS
    <3>1. CASE i = out
      BY <1>w, <2>1, <3>1
    <3>2. CASE i # out
      <4>1. i \in DOMAIN files /\ files'[i] = files[i]
        BY <2>1, <3>2
      <4>2. Len(files[i]) \in Nat /\ Len(files[i]) <= Top - 1
        BY <1>0, <4>1
      <4> QED BY <1>0, <1>w, <4>1, <4>2
    <3> QED BY <3>1, <3>2
  <2>3. DiskOK'
    BY <1>w, <2>1, <2>2 DEF DiskOK
  <2>4. Grows
    <3> SUFFICES ASSUME NEW j \in DOMAIN files', NEW k \in DOMAIN files'[j]
                 PROVE  \/ j = out /\ Fresh(files'[j], k, Top, Top')
                        \/ /\ j \in DOMAIN files /\ k \in DOMAIN files[j]
                           /\ files'[j][k] = files[j][k] /\ Len(files[j]) <= Len(files'[j])
      BY <1>o, <1>w, <2>1 DEF Grows
    <3>1. CASE j = out
      BY <1>w, <2>1, <3>1
    <3>2. CASE j # out
      <4>1. j \in DOMAIN files /\ files'[j] = files[j]
        BY <2>1, <3>2
      <4>2. Len(files[j]) <= Len(files'[j])
        BY <1>0, <4>1
      <4> QED BY <4>1, <4>2
    <3> QED BY <3>1, <3>2
  <2> QED BY <2>3, <2>4
<1> DEFINE n == lines + 1
<1>1. CASE Write
  <2>1. /\ ~half /\ lines' = n /\ n \in 1..MaxLines /\ n = lines + 1
        /\ UNCHANGED <<path, out, rotations>>
    BY <1>0, <1>1 DEF Write
  <2> HIDE DEF n
  <2>2. /\ First(n) \in Piece /\ Second(n) \in Piece
        /\ Rank(First(n)) = 2 * n /\ Rank(Second(n)) = 2 * n + 1
    BY <2>1 DEF First, Second, Piece, Rank
  <2>3. Top = 2 * lines + 1 /\ Top < 2 * n
    BY <1>0, <2>1 DEF Top
  <2>g. Rank(First(n)) > Top /\ Rank(Second(n)) > Top
    BY <1>0, <2>1, <2>2, <2>3
  <2>l. lines \in Nat /\ Len(files[out]) \in Nat /\ Len(files[out]) <= 2 * lines
    BY <1>0, <2>3
  <2>4. CASE /\ files' = [files EXCEPT ![out] = @ \o <<First(lines'), Second(lines')>>]
             /\ UNCHANGED half
    <3> DEFINE s == files[out] \o <<First(n), Second(n)>>
    <3>1. /\ s \in Seq(Piece) /\ Len(s) = Len(files[out]) + 2
          /\ \A i \in DOMAIN s : \/ i \in DOMAIN files[out] /\ s[i] = files[out][i]
                                 \/ i = Len(files[out]) + 1 /\ s[i] = First(n)
                                 \/ i = Len(files[out]) + 2 /\ s[i] = Second(n)
      BY <1>0, <2>2, AddedPieces
    <3>2. files' = [files EXCEPT ![out] = s]
      BY <2>1, <2>4
    <3> HIDE DEF s
    <3>3. Top' = 2 * n + 1
      BY <2>1, <2>4 DEF Top
    <3>l. /\ Len(files[out]) + 1 < Len(files[out]) + 2
          /\ ~(Len(files[out]) + 2 < Len(files[out]) + 1) /\ ~(Len(files[out]) + 2 < Len(files[out]) + 2)
          /\ ~(Len(files[out]) + 1 < Len(files[out]) + 1)
          /\ \A i \in 1..Len(files[out]) : /\ ~(Len(files[out]) + 1 < i)
                                           /\ ~(Len(files[out]) + 2 < i)
          /\ DOMAIN files[out] = 1..Len(files[out])
      BY <1>0, <1>n, <2>l
    <3>r. Rank(First(n)) < Rank(Second(n)) /\ Rank(First(n)) <= Top' /\ Rank(Second(n)) <= Top'
      BY <2>1, <2>2, <3>3
    <3>4. \A k \in DOMAIN s : \/ Fresh(s, k, Top, Top')
                              \/ k \in DOMAIN files[out] /\ s[k] = files[out][k]
      BY <2>g, <3>1, <3>l, <3>r DEF Fresh
    <3>5. Top' \in Nat /\ Top <= Top' /\ Len(s) <= Top' - 1 /\ Len(files[out]) <= Len(s)
      BY <2>1, <2>3, <2>l, <3>1, <3>3
    <3>6. half' \in BOOLEAN /\ lines' \in 0..MaxLines /\ (half' => lines' > 0)
      BY <1>0, <2>1, <2>4
    <3> QED BY <1>w, <2>1, <3>1, <3>2, <3>4, <3>5, <3>6
  <2>5. CASE files' = [files EXCEPT ![out] = Append(@, First(lines'))] /\ half' = TRUE
    <3> DEFINE s == Append(files[out], First(n))
    <3>1. /\ s \in Seq(Piece) /\ Len(s) = Len(files[out]) + 1
          /\ \A i \in DOMAIN s : \/ i \in DOMAIN files[out] /\ s[i] = files[out][i]
                                 \/ i = Len(files[out]) + 1 /\ s[i] = First(n)
      BY <1>0, <2>2, AddedPieces
    <3>2. files' = [files EXCEPT ![out] = s]
      BY <2>1, <2>5
    <3> HIDE DEF s
    <3>3. Top' = 2 * n
      BY <1>0, <2>1, <2>5 DEF Top
    <3>l. /\ ~(Len(files[out]) + 1 < Len(files[out]) + 1)
          /\ \A i \in 1..Len(files[out]) : ~(Len(files[out]) + 1 < i)
          /\ DOMAIN files[out] = 1..Len(files[out])
      BY <1>0, <1>n, <2>l
    <3>4. \A k \in DOMAIN s : \/ Fresh(s, k, Top, Top')
                              \/ k \in DOMAIN files[out] /\ s[k] = files[out][k]
      BY <2>1, <2>g, <2>2, <3>1, <3>3, <3>l, SMTT(20) DEF Fresh
    <3>5. /\ Top' \in Nat /\ Top <= Top' /\ Len(s) <= Top' - 1 /\ Len(files[out]) <= Len(s)
          /\ half' \in BOOLEAN /\ lines' \in 0..MaxLines /\ (half' => lines' > 0)
      BY <1>0, <2>1, <2>3, <2>l, <2>5, <3>1, <3>3
    <3> QED BY <1>w, <2>1, <3>1, <3>2, <3>4, <3>5
  <2> QED BY <1>1, <2>4, <2>5 DEF Write
<1>2. CASE WriteRest
  <2>1. /\ half /\ half' \in BOOLEAN /\ ~half' /\ lines' = lines /\ lines \in 1..MaxLines
        /\ UNCHANGED <<path, out, rotations>>
    <3>1. half /\ half' = FALSE /\ UNCHANGED <<path, out, lines, rotations>>
      BY <1>2 DEF WriteRest
    <3>2. lines > 0
      BY <3>1 DEF DiskOK
    <3>3. lines \in 1..MaxLines
      BY <1>0, <3>2
    <3> QED BY <3>1, <3>3
  <2>2. Second(lines) \in Piece /\ Rank(Second(lines)) = 2 * lines + 1
    BY <2>1 DEF Second, Piece, Rank
  <2>3. Top = 2 * lines /\ Top' = 2 * lines + 1
    BY <1>0, <2>1 DEF Top
  <2> DEFINE s == Append(files[out], Second(lines))
  <2>4. /\ s \in Seq(Piece) /\ Len(s) = Len(files[out]) + 1
        /\ \A i \in DOMAIN s : \/ i \in DOMAIN files[out] /\ s[i] = files[out][i]
                               \/ i = Len(files[out]) + 1 /\ s[i] = Second(lines)
    BY <1>0, <2>2, AddedPieces
  <2>5. files' = [files EXCEPT ![out] = s]
    BY <1>2 DEF WriteRest
  <2> HIDE DEF s
  <2>m. /\ ~(Len(files[out]) + 1 < Len(files[out]) + 1)
        /\ \A i \in 1..Len(files[out]) : ~(Len(files[out]) + 1 < i)
        /\ DOMAIN files[out] = 1..Len(files[out])
    BY <1>0, <1>n
  <2>6. \A k \in DOMAIN s : \/ Fresh(s, k, Top, Top')
                            \/ k \in DOMAIN files[out] /\ s[k] = files[out][k]
    BY <2>1, <2>2, <2>3, <2>4, <2>m DEF Fresh
  <2>l. Len(files[out]) \in Nat /\ Len(files[out]) <= Top - 1
    BY <1>0
  <2>7. /\ Top' \in Nat /\ Top <= Top' /\ Len(s) <= Top' - 1 /\ Len(files[out]) <= Len(s)
        /\ half' \in BOOLEAN /\ lines' \in 0..MaxLines /\ (half' => lines' > 0)
    BY <1>0, <2>1, <2>3, <2>4, <2>l
  <2> QED BY <1>w, <2>1, <2>4, <2>5, <2>6, <2>7
<1> QED BY <1>1, <1>2

LEMMA RotationGrows ==
    ASSUME DiskOK, Rename \/ Create \/ Reopen \/ Truncate
    PROVE  DiskOK' /\ Grows
<1>0. /\ files \in Seq(Seq(Piece)) /\ out \in DOMAIN files /\ MaxRotations \in Nat
      /\ Top \in Nat /\ Top >= 1 /\ Len(files) \in Nat /\ DOMAIN files = 1..Len(files)
      /\ \A i \in DOMAIN files : files[i] \in Seq(Piece) /\ Len(files[i]) \in Nat
      /\ \A i \in DOMAIN files : Len(files[i]) <= Top - 1
      /\ None \notin DOMAIN files /\ None \notin Nat
  BY TopIs, LogTailAssumption DEF DiskOK
<1>t. UNCHANGED <<lines, half>> => Top' = Top
  BY DEF Top
<1>1. CASE Rename \/ Reopen
  <2>1. /\ UNCHANGED <<files, lines, half>>
        /\ rotations' \in 0..MaxRotations
        /\ out' \in DOMAIN files /\ path' \in DOMAIN files \cup {None}
        /\ path' = None => out' = Len(files)
        /\ path' # None => path' = Len(files)
        /\ out <= out'
    BY <1>0, <1>1 DEF Rename, Reopen, DiskOK
  <2>2. DiskOK'
    BY <1>t, <2>1 DEF DiskOK
  <2>3. Grows
    BY <1>0, <1>t, <2>1 DEF Grows
  <2> QED BY <2>2, <2>3
<1>2. CASE Create
  <2>1. /\ path = None /\ files' = Append(files, <<>>) /\ path' = Len(files')
        /\ UNCHANGED <<out, half, lines, rotations>>
    BY <1>2 DEF Create
  <2>2. /\ files' \in Seq(Seq(Piece)) /\ Len(files') = Len(files) + 1
        /\ DOMAIN files' = 1..(Len(files) + 1) /\ files'[Len(files) + 1] = <<>>
        /\ \A i \in DOMAIN files : files'[i] = files[i]
    BY <1>0, <2>1
  <2>3. \A i \in DOMAIN files' : i \in DOMAIN files \/ files'[i] = <<>>
    BY <1>0, <2>2
  <2>4. \A i \in DOMAIN files' : Len(files'[i]) <= Top - 1
    BY <1>0, <2>2, <2>3
  <2>5. DiskOK'
    BY <1>0, <1>t, <2>1, <2>2, <2>4 DEF DiskOK
  <2>6. DOMAIN <<>> = {}
    OBVIOUS
  <2>7. \A j \in DOMAIN files' : \A k \in DOMAIN files'[j] : j \in DOMAIN files
    BY <2>3, <2>6
  <2>8. Grows
    BY <1>0, <1>t, <2>1, <2>2, <2>7 DEF Grows
  <2> QED BY <2>5, <2>8
<1>3. CASE Truncate
  <2>1. /\ path \in DOMAIN files /\ files' = [files EXCEPT ![path] = <<>>]
        /\ rotations' \in 0..MaxRotations /\ UNCHANGED <<path, out, half, lines>>
    BY <1>0, <1>3 DEF Truncate, DiskOK
  <2>2. /\ files' \in Seq(Seq(Piece)) /\ Len(files') = Len(files)
        /\ DOMAIN files' = DOMAIN files /\ files'[path] = <<>>
        /\ \A i \in DOMAIN files : i # path => files'[i] = files[i]
    BY <1>0, <2>1
  <2>3. \A i \in DOMAIN files' : Len(files'[i]) <= Top - 1
    <3>1. Len(<<>>) = 0
      OBVIOUS
    <3>2. \A i \in DOMAIN files : Len(files'[i]) = 0 \/ files'[i] = files[i]
      BY <2>2, <3>1
    <3>3. \A i \in DOMAIN files : Len(files[i]) <= Top - 1 /\ 0 <= Top - 1
      BY <1>0
    <3> QED BY <2>2, <3>2, <3>3
  <2>4. DiskOK'
    BY <1>0, <1>t, <2>1, <2>2, <2>3 DEF DiskOK
  <2>5. DOMAIN <<>> = {}
    OBVIOUS
  <2>6. \A j \in DOMAIN files' : \A k \in DOMAIN files'[j] :
            j \in DOMAIN files /\ files'[j] = files[j]
    BY <2>2, <2>5
  <2>7. Grows
    BY <1>0, <1>t, <2>1, <2>2, <2>6 DEF Grows
  <2> QED BY <2>4, <2>7
<1> QED BY <1>1, <1>2, <1>3

-----------------------------------------------------------------------------
(* The steps of the backend.                                               *)
LEMMA DiskKept ==
    ASSUME DiskOK, UNCHANGED disk
    PROVE  DiskOK' /\ Top' = Top /\ Handles' = Handles /\ DOMAIN files' = DOMAIN files
  BY DEF disk, DiskOK, Top, Handles

LEMMA NewHandle ==
    ASSUME DiskOK, NEW i \in DOMAIN files, NEW n \in Nat
    PROVE  /\ [inode |-> i, pos |-> n] \in Handles /\ [inode |-> i, pos |-> n] # None
           /\ i # None
<1>1. i \in Nat
  BY TopIs
<1>2. [inode |-> i, pos |-> n] \in [inode : Nat, pos : Nat]
  BY <1>1
<1> QED BY <1>1, <1>2, LogTailAssumption DEF Handles

LEMMA ReaderSteps ==
    ASSUME TailOK, Start \/ Follow \/ SendLine
    PROVE  TailOK'
<1> USE DEF TailOK
<1>0. UNCHANGED disk
  BY DEF Start, Follow, SendLine, Wake, PollCheck, PollOpen, InotifyCheck, Fill, FailLine,
         EndOfFile
<1>d. /\ DiskOK' /\ Top' = Top /\ Handles' = Handles /\ DOMAIN files' = DOMAIN files
      /\ Top \in Nat /\ Top >= 1
  BY <1>0, DiskKept, TopIs
<1>p. path # None => /\ path \in DOMAIN files /\ Open(path) \in Handles
                     /\ Open(path) # None /\ Open(path).pos = 0
  <2>1. path # None => path \in DOMAIN files
    BY DEF DiskOK
  <2> QED BY <2>1, NewHandle DEF Open
<1>r. /\ mode \in {"none", "poll", "inotify"} /\ pc \in {"wait", "check", "open", "read"}
      /\ handle \in Handles \cup {None}
      /\ handle # None => handle.pos <= Top - 1 /\ handle.pos \in Nat
      /\ size \in Nat /\ size <= Top - 1 /\ buf \in Seq(Piece)
      /\ inode \in DOMAIN files \cup {None}
      /\ event \in BOOLEAN /\ watched \in DOMAIN files \cup {None}
      /\ sent \in Seq(Seq(Piece)) /\ astray \in BOOLEAN
  BY DEF ReaderOK, Handles
<1>l. \A i \in DOMAIN files : Len(files[i]) \in Nat /\ Len(files[i]) <= Top - 1
  BY TopIs DEF DiskOK
<1>poll. ASSUME StartPolling, astray' \in BOOLEAN, UNCHANGED <<sent>> PROVE ReaderOK'
  <2>1. /\ mode' = "poll" /\ pc' = "check" /\ inode' = path /\ size' = 0 /\ buf' = <<>>
        /\ event' = FALSE /\ watched' = None
        /\ handle' = IF path = None THEN None ELSE Open(path)
    BY <1>poll DEF StartPolling
  <2>2. path \in DOMAIN files \cup {None}
    BY DEF DiskOK
  <2>3. handle' \in Handles \cup {None} /\ (handle' # None => handle'.pos <= Top - 1)
    BY <1>d, <1>p, <2>1
  <2>4. buf' \in Seq(Piece)
    BY <2>1, EmptySeq
  <2>5. event' \in BOOLEAN
    BY <2>1
  <2> QED BY <1>d, <1>r, <1>poll, <2>1, <2>2, <2>3, <2>4, <2>5 DEF ReaderOK
<1>1. CASE Start
  <2>1. mode = "none" /\ path # None /\ UNCHANGED <<sent, astray>>
    BY <1>1 DEF Start
  <2>2. CASE StartPolling
    BY <1>r, <2>1, <2>2, <1>poll, <1>d
  <2>3. CASE StartInotify
    <3>1. /\ mode' = "inotify" /\ pc' = "wait" /\ handle' = Open(path) /\ watched' = path
          /\ inode' = path /\ size' = Len(files[path]) /\ buf' = <<>> /\ event' = FALSE
      BY <2>3 DEF StartInotify
    <3>2. buf' \in Seq(Piece)
      BY <3>1, EmptySeq
    <3>4. event' \in BOOLEAN
      BY <3>1
    <3>3. /\ handle' \in Handles /\ handle' # None /\ handle'.pos <= Top - 1
          /\ path \in DOMAIN files /\ size' \in Nat /\ size' <= Top - 1
      BY <1>d, <1>p, <1>l, <2>1, <3>1
    <3> QED BY <1>d, <1>r, <2>1, <3>1, <3>2, <3>3, <3>4 DEF ReaderOK
  <2> QED BY <1>1, <1>d, <2>2, <2>3 DEF Start
<1>2. CASE Wake
  BY <1>d, <1>2 DEF Wake, reader, ReaderOK
<1>3. CASE PollCheck
  <2>1. /\ mode = "poll" /\ pc = "check" /\ pc' = "open"
        /\ UNCHANGED <<mode, event, watched, sent, astray>>
    BY <1>3 DEF PollCheck
  <2>2. CASE UNCHANGED reader
    BY <1>d, <2>1, <2>2 DEF reader, ReaderOK
  <2>3. CASE path # None /\ inode' = path /\ size' = 0 /\ handle' = None /\ buf' = <<>>
    <3>1. buf' \in Seq(Piece) /\ path \in DOMAIN files /\ size' <= Top - 1
      BY <1>d, <1>p, <2>3
    <3> QED BY <1>d, <1>r, <2>1, <2>3, <3>1 DEF ReaderOK
  <2> QED BY <1>3, <2>2, <2>3 DEF PollCheck
<1>4. CASE PollOpen
  <2>1. /\ mode = "poll" /\ pc = "open" /\ pc' = IF handle' = None THEN "wait" ELSE "read"
        /\ UNCHANGED <<mode, event, watched, sent, astray>>
    BY <1>4 DEF PollOpen
  <2>2. CASE UNCHANGED reader
    BY <1>d, <2>1, <2>2 DEF reader, ReaderOK
  <2>3. CASE ~UNCHANGED reader
    <3> DEFINE at == IF Shrunk(path) THEN 0 ELSE size
    <3>1. /\ handle = None /\ path # None /\ handle' = [inode |-> path, pos |-> at]
          /\ inode' = path /\ size' = at /\ UNCHANGED buf
      BY <1>4, <2>3 DEF PollOpen
    <3>2. at = 0
      BY <3>1 DEF ReaderOK
    <3> HIDE DEF at
    <3>3. handle' = Open(path)
      BY <3>1, <3>2 DEF Open
    <3> QED BY <1>d, <1>p, <1>r, <2>1, <3>1, <3>2, <3>3 DEF ReaderOK
  <2> QED BY <2>2, <2>3
<1>5. CASE InotifyCheck
  <2>1. /\ mode = "inotify" /\ pc = "check" /\ pc' = "read" /\ handle # None
        /\ UNCHANGED <<mode, event, watched, sent>>
    BY <1>5 DEF InotifyCheck, ReaderOK
  <2>2. CASE UNCHANGED <<reader, astray>>
    BY <1>d, <2>1, <2>2 DEF reader, ReaderOK
  <2>3. CASE /\ path # None /\ handle' = Open(path) /\ inode' = handle.inode /\ size' = 0
             /\ astray' = (astray \/ path # handle.inode) /\ UNCHANGED buf
    <3>1. handle.inode \in DOMAIN files
      BY <1>r, <2>1 DEF Handles
    <3>2. astray' \in BOOLEAN
      BY <2>3
    <3> QED BY <1>d, <1>p, <1>r, <2>1, <2>3, <3>1, <3>2 DEF ReaderOK
  <2> QED BY <1>5, <2>2, <2>3 DEF InotifyCheck
<1>6. CASE Fill
  <2>1. /\ pc = "read" /\ Unread # <<>> /\ buf' = buf \o Unread
        /\ handle' = [handle EXCEPT !.pos = @ + Len(Unread)]
        /\ UNCHANGED <<mode, pc, inode, size, event, watched, sent, astray>>
    BY <1>6 DEF Fill
  <2>2. handle # None
    BY <2>1 DEF ReaderOK
  <2>3. /\ Unread \in Seq(Piece) /\ handle.inode \in DOMAIN files /\ handle.pos \in Nat
        /\ Len(Unread) = IF handle.pos < Len(files[handle.inode])
                         THEN Len(files[handle.inode]) - handle.pos ELSE 0
    BY <2>2, UnreadIs
  <2>4. Len(Unread) # 0
    BY <2>1, <2>3
  <2>5. handle.pos + Len(Unread) = Len(files[handle.inode])
    BY <1>l, <2>3, <2>4
  <2>6. handle' = [inode |-> handle.inode, pos |-> Len(files[handle.inode])]
    BY <1>r, <2>1, <2>2, <2>5 DEF Handles
  <2>7. /\ handle' \in Handles /\ handle' # None /\ handle'.pos <= Top - 1
    BY <1>l, <2>3, <2>6, NewHandle
  <2>8. buf' \in Seq(Piece)
    BY <1>r, <2>1, <2>3
  <2> QED BY <1>d, <1>r, <2>1, <2>7, <2>8 DEF ReaderOK
<1>7. CASE FailLine
  <2>1. CASE mode = "inotify" /\ StartPolling /\ astray' = TRUE
    BY <1>7, <1>d, <2>1, <1>poll DEF FailLine
  <2>2. CASE mode = "poll" /\ buf' = SubSeq(buf, Len(Line) + 1, Len(buf)) /\ pc' = "wait"
             /\ UNCHANGED <<mode, handle, inode, size, event, watched, astray>>
    <3>1. buf' \in Seq(Piece) /\ handle # None /\ UNCHANGED sent
      BY <1>r, <1>7, <2>2, LineIs DEF Rest, FailLine, Ready, ReaderOK
    <3> QED BY <1>d, <1>r, <2>2, <3>1 DEF ReaderOK
  <2> QED BY <1>7, <2>1, <2>2 DEF FailLine
<1>8. CASE EndOfFile
  <2>1. /\ pc = "read" /\ buf = <<>> /\ size' = handle.pos /\ pc' = "wait"
        /\ UNCHANGED <<mode, handle, buf, inode, event, watched, sent, astray>>
    BY <1>8 DEF EndOfFile
  <2>2. handle # None
    BY <2>1 DEF ReaderOK
  <2> QED BY <1>d, <1>r, <2>1, <2>2 DEF ReaderOK
<1>9. CASE SendLine
  <2>1. /\ pc = "read" /\ buf' = SubSeq(buf, Len(Line) + 1, Len(buf))
        /\ sent' = Append(sent, Line)
        /\ UNCHANGED <<mode, pc, handle, inode, size, event, watched, astray>>
    BY <1>9 DEF SendLine, Ready
  <2>2. buf' \in Seq(Piece) /\ Line \in Seq(Piece)
    BY <1>r, <2>1, LineIs DEF Rest
  <2>3. sent' \in Seq(Seq(Piece))
    BY <1>r, <2>1, <2>2
  <2>4. handle # None /\ mode # "none"
    BY <2>1 DEF ReaderOK
  <2> QED BY <1>d, <1>r, <2>1, <2>2, <2>3, <2>4 DEF ReaderOK
<1> QED BY <1>1, <1>2, <1>3, <1>4, <1>5, <1>6, <1>7, <1>8, <1>9 DEF Follow

(* The steps of the others.                                                *)
LEMMA WriterSteps ==
    ASSUME TailOK, Writer
    PROVE  TailOK' /\ Grows /\ UNCHANGED <<mode, pc, reader, watched, sent, astray>>
<1>1. DiskOK' /\ Grows
  BY WriteGrows, RotationGrows DEF Writer, TailOK
<1>2. UNCHANGED <<mode, pc, reader, watched, sent, astray>> /\ event' \in BOOLEAN
  <2>1. UNCHANGED <<mode, pc, reader, watched, sent, astray>>
    BY DEF Writer, Write, WriteRest, Rename, Create, Reopen, Truncate, Elsewhere
  <2>2. event' \in BOOLEAN
    BY DEF Writer, Write, WriteRest, Rename, Create, Reopen, Truncate, Notify, TailOK,
           ReaderOK
  <2> QED BY <2>1, <2>2
<1>3. ReaderOK'
  BY <1>1, <1>2, ReaderKept DEF TailOK, Grows
<1> QED BY <1>1, <1>2, <1>3 DEF TailOK

-----------------------------------------------------------------------------
(* The jail: its buffer holds the last lines it received, as many as it    *)
(* may, all the lines a match is made of are gone from it, and it is empty *)
(* only right after a match.                                               *)
Match == [line : Nat, date : Nat, at : Nat]
BufferOK ==
    /\ buffer \in Seq(Nat) /\ Len(buffer) <= Cap /\ Len(buffer) <= taken
    /\ \A i \in DOMAIN buffer : buffer[i] = taken - Len(buffer) + i
MatchOK(m, n) ==
    /\ m.line \in 1..m.at /\ m.at \in 1..n
    /\ m.date <= m.line /\ m.at - m.date < Cap
JailOK ==
    /\ taken \in 0..Len(sent) /\ Len(sent) - taken <= Capacity
    /\ BufferOK
    /\ matches \in Seq(Match)
    /\ \A i \in DOMAIN matches : MatchOK(matches[i], taken - Len(buffer))
    /\ \A i \in DOMAIN matches : i > 1 => matches[i].date > matches[i - 1].at
    /\ buffer = <<>> /\ taken > 0 => \E i \in DOMAIN matches : matches[i].at = taken
PipelineInv == TailOK /\ JailOK

LEMMA CapIs == Cap \in Nat /\ Cap >= 1 /\ Capacity \in Nat /\ Capacity >= 1
  BY LinePipelineAssumption DEF Cap

(* The lines the filter runs on when the jail has received one more.       *)
Window(ls) ==
    /\ ls \in Seq(Nat) /\ Len(ls) \in Nat /\ Len(ls) >= 1
    /\ Len(ls) <= Cap /\ Len(ls) <= taken + 1 /\ Len(ls) <= Len(buffer) + 1
    /\ \A i \in DOMAIN ls : ls[i] = taken + 1 - Len(ls) + i

LEMMA PushedIs ==
    ASSUME BufferOK, taken \in Nat
    PROVE  Window(Pushed(taken + 1))
<1>0. /\ buffer \in Seq(Nat) /\ Len(buffer) \in Nat /\ Len(buffer) <= Cap
      /\ Len(buffer) <= taken /\ Cap \in Nat /\ Cap >= 1
      /\ \A i \in 1..Len(buffer) : buffer[i] = taken - Len(buffer) + i
  BY CapIs DEF BufferOK
<1>1. CASE Len(buffer) >= Cap
  <2> DEFINE t == Tail(buffer)
  <2>1. buffer # <<>> /\ Len(buffer) = Cap
    BY <1>0, <1>1
  <2>2. /\ t \in Seq(Nat) /\ Len(t) = Len(buffer) - 1
        /\ \A i \in 1..Len(t) : t[i] = buffer[i + 1]
    BY <1>0, <2>1, HeadTailProperties
  <2>3. Pushed(taken + 1) = Append(t, taken + 1)
    BY <1>1 DEF Pushed
  <2> HIDE DEF t
  <2> DEFINE ls == Append(t, taken + 1)
  <2>4. /\ ls \in Seq(Nat) /\ Len(ls) = Len(t) + 1 /\ DOMAIN ls = 1..(Len(t) + 1)
        /\ \A i \in 1..Len(t) : ls[i] = t[i]
        /\ ls[Len(t) + 1] = taken + 1
    BY <2>2, AppendProperties
  <2> HIDE DEF ls
  <2>5. \A i \in DOMAIN ls : ls[i] = taken + 1 - Len(ls) + i
    <3> SUFFICES ASSUME NEW i \in 1..(Len(t) + 1) PROVE ls[i] = taken + 1 - Len(ls) + i
      BY <2>4
    <3>1. CASE i = Len(t) + 1
      BY <2>4, <3>1, <1>0, <2>2
    <3>2. CASE i \in 1..Len(t)
      <4>1. i + 1 \in 1..Len(buffer) /\ ls[i] = buffer[i + 1]
        BY <1>0, <2>2, <2>4, <3>2
      <4>2. ls[i] = taken - Len(buffer) + (i + 1)
        BY <1>0, <4>1
      <4>3. Len(ls) = Len(buffer) /\ i \in Nat
        BY <1>0, <2>2, <2>4
      <4> QED BY <1>0, <4>2, <4>3
    <3>3. Len(t) \in Nat
      BY <1>0, <2>2, <2>1
    <3> QED BY <3>1, <3>2, <3>3
  <2>6. Len(ls) = Len(buffer) /\ Len(ls) >= 1
    BY <1>0, <2>1, <2>2, <2>4
  <2>7. Window(ls)
    BY <1>0, <2>4, <2>5, <2>6 DEF Window
  <2> QED BY <2>3, <2>7 DEF ls
<1>2. CASE Len(buffer) < Cap
  <2> DEFINE ls == Append(buffer, taken + 1)
  <2>1. Pushed(taken + 1) = ls
    BY <1>0, <1>2 DEF Pushed
  <2>2. /\ ls \in Seq(Nat) /\ Len(ls) = Len(buffer) + 1 /\ DOMAIN ls = 1..(Len(buffer) + 1)
        /\ \A i \in 1..Len(buffer) : ls[i] = buffer[i]
        /\ ls[Len(buffer) + 1] = taken + 1
    BY <1>0, AppendProperties
  <2> HIDE DEF ls
  <2>3. \A i \in DOMAIN ls : ls[i] = taken + 1 - Len(ls) + i
    <3> SUFFICES ASSUME NEW i \in 1..(Len(buffer) + 1)
                 PROVE  ls[i] = taken + 1 - Len(ls) + i
      BY <2>2
    <3>1. CASE i = Len(buffer) + 1
      BY <1>0, <2>2, <3>1
    <3>2. CASE i \in 1..Len(buffer)
      <4>1. ls[i] = taken - Len(buffer) + i
        BY <1>0, <2>2, <3>2
      <4> QED BY <1>0, <2>2, <3>2, <4>1
    <3> QED BY <1>0, <3>1, <3>2
  <2>4. Window(ls)
    BY <1>0, <1>2, <2>2, <2>3 DEF Window
  <2> QED BY <2>1, <2>4
<1> QED BY <1>0, <1>1, <1>2

(* A line that a failregex matches has a date; the date of the match is    *)
(* that of the first line that has one, the matched one or one before it.  *)
LEMMA MatchIsDated ==
    ASSUME NEW ls \in Seq(Nat), Matched(ls) # {}
    PROVE  \E d, i \in 1..Len(ls) :
               d <= i /\ FirstDate(ls) = ls[d] /\ ls[Least(Matched(ls))] = ls[i]
<1> DEFINE M == Matched(ls)
           I == {i \in 1..Len(ls) : Dated(ls[i])}
<1>1. M \in SUBSET Nat /\ M \subseteq 1..Len(ls) /\ M # {}
  BY DEF Matched
<1>2. I \in SUBSET Nat /\ I \subseteq 1..Len(ls)
  OBVIOUS
<1>3. \A i \in M : Dated(ls[i])
  <2> SUFFICES ASSUME NEW i \in M PROVE Dated(ls[i])
    OBVIOUS
  <2>1. PICK n : Whole(ls[i], n)
    BY DEF Matched, FailsAt, HoldsOneOf
  <2>2. sent[ls[i]] = <<First(n), Second(n)>>
    BY <2>1 DEF Whole
  <2>3. 1 \in DOMAIN sent[ls[i]] /\ sent[ls[i]][1] = First(n)
    BY <2>2
  <2>4. First(n) \in Range(sent[ls[i]]) /\ ~First(n).end
    BY <2>3 DEF Range, First
  <2> QED BY <2>4 DEF Dated
<1>4. M \subseteq I
  BY <1>1, <1>3
<1>5. FirstDate(ls) = ls[Min(I)]
  <2>1. \E i \in DOMAIN ls : Dated(ls[i])
    BY <1>1, <1>3
  <2>2. SelectInSeq(ls, Dated) = Min(I)
    BY <1>1, <1>4 DEF SelectInSeq
  <2> QED BY <2>1, <2>2 DEF FirstDate
<1> HIDE DEF M, I
<1>6. Least(M) \in M
  BY <1>1, HasLeast DEF Least
<1>7. Min(I) \in I /\ \A i \in I : Min(I) <= i
  BY <1>1, <1>2, <1>4, HasLeast DEF Min
<1>8. Min(I) \in 1..Len(ls) /\ Least(M) \in 1..Len(ls)
  BY <1>1, <1>2, <1>6, <1>7
<1>9. Min(I) <= Least(M)
  BY <1>4, <1>6, <1>7
<1> QED BY <1>5, <1>8, <1>9 DEF M

LEMMA TakeKeeps ==
    ASSUME PipelineInv, Take
    PROVE  PipelineInv'
<1> DEFINE ls == Pushed(taken + 1)
<1>1. /\ taken < Len(sent) /\ taken' = taken + 1 /\ ProcessBuffered(ls)
      /\ UNCHANGED vars
  BY DEF Take
<1>2. TailOK' /\ sent' = sent
  BY <1>1 DEF PipelineInv, TailOK, DiskOK, ReaderOK, vars, disk, reader, Top, Handles
<1>3. /\ taken \in 0..Len(sent) /\ Len(sent) - taken <= Capacity
      /\ BufferOK /\ matches \in Seq(Match)
      /\ \A i \in DOMAIN matches : MatchOK(matches[i], taken - Len(buffer))
      /\ \A i \in DOMAIN matches : i > 1 => matches[i].date > matches[i - 1].at
  BY DEF PipelineInv, JailOK
<1>4. Len(sent) \in Nat /\ taken \in Nat /\ Len(buffer) \in Nat /\ Len(buffer) <= taken
      /\ Cap \in Nat /\ Cap >= 1 /\ Capacity \in Nat
  BY <1>3, CapIs DEF PipelineInv, TailOK, ReaderOK, BufferOK
<1>5. /\ ls \in Seq(Nat) /\ Len(ls) \in Nat /\ Len(ls) >= 1
      /\ Len(ls) <= Cap /\ Len(ls) <= taken + 1 /\ Len(ls) <= Len(buffer) + 1
      /\ \A i \in DOMAIN ls : ls[i] = taken + 1 - Len(ls) + i
  BY <1>3, <1>4, PushedIs DEF Window
<1>6. taken' \in 0..Len(sent) /\ Len(sent) - taken' <= Capacity
  BY <1>1, <1>3, <1>4
<1>7. \A m \in Match, n, k \in Nat : MatchOK(m, n) /\ n <= k => MatchOK(m, k)
  BY DEF MatchOK, Match
<1>o. \A i \in DOMAIN matches : matches[i] \in Match /\ i - 1 \in Int
  BY <1>3
<1> HIDE DEF ls
<1>e. /\ BufferOK' /\ taken' - Len(buffer') \in Nat
      /\ taken - Len(buffer) <= taken' - Len(buffer')
  <2>1. CASE buffer' = ls
    <3>1. BufferOK'
      BY <1>1, <1>4, <1>5, <2>1 DEF BufferOK, Cap
    <3> QED BY <1>1, <1>4, <1>5, <2>1, <3>1
  <2>2. CASE buffer' = <<>>
    <3>1. buffer' \in Seq(Nat)
      BY <2>2, EmptySeq
    <3>2. Len(buffer') = 0 /\ DOMAIN buffer' = {}
      BY <2>2
    <3>3. taken' >= 0 /\ Cap' >= 0
      BY <1>1, <1>4 DEF Cap
    <3>4. BufferOK'
      BY <3>1, <3>2, <3>3 DEF BufferOK
    <3> QED BY <1>1, <1>4, <3>2, <3>4
  <2> QED BY <1>1, <2>1, <2>2 DEF ProcessBuffered
<1>k. \A i \in DOMAIN matches : MatchOK(matches[i], taken' - Len(buffer'))
  <2>1. taken - Len(buffer) \in Nat
    BY <1>4
  <2> QED BY <1>3, <1>e, <1>7, <1>o, <2>1
<1>8. CASE Matched(ls) = {}
  <2>1. matches' = matches
    BY <1>1, <1>8 DEF ProcessBuffered
  <2>e. buffer' # <<>>
    <3>1. buffer' = ls
      BY <1>1, <1>8 DEF ProcessBuffered
    <3>2. Len(<<>>) = 0
      OBVIOUS
    <3> QED BY <1>5, <3>1, <3>2
  <2>2. JailOK'
    BY <1>2, <1>3, <1>6, <1>e, <1>k, <2>1, <2>e DEF JailOK, MatchOK, Cap
  <2> QED BY <1>2, <2>2 DEF PipelineInv
<1>9. CASE Matched(ls) # {}
  <2> DEFINE m == [line |-> ls[Least(Matched(ls))], date |-> FirstDate(ls), at |-> taken']
  <2>1. buffer' = <<>> /\ matches' = Append(matches, m)
    BY <1>1, <1>9 DEF ProcessBuffered
  <2>2. PICK d, i \in 1..Len(ls) :
            d <= i /\ FirstDate(ls) = ls[d] /\ ls[Least(Matched(ls))] = ls[i]
    BY <1>5, <1>9, MatchIsDated
  <2>3. ls[d] = taken + 1 - Len(ls) + d /\ ls[i] = taken + 1 - Len(ls) + i
    BY <1>5
  <2>4. m = [line |-> ls[i], date |-> ls[d], at |-> taken + 1]
    BY <1>1, <2>2
  <2>5. /\ ls[i] \in Nat /\ ls[d] \in Nat /\ ls[i] >= 1 /\ ls[i] <= taken + 1
        /\ ls[d] <= ls[i] /\ taken + 1 - ls[d] < Cap /\ ls[d] > taken - Len(buffer)
    <3>1. d \in Nat /\ i \in Nat /\ 1 <= d /\ d <= i /\ i <= Len(ls)
      BY <1>5, <2>2
    <3>2. \A t, l, c, b, a, e \in Nat :
             (/\ 1 <= a /\ a <= e /\ e <= l /\ l <= c /\ l <= t + 1 /\ l <= b + 1)
             => /\ t + 1 - l + e \in Nat /\ t + 1 - l + a \in Nat
                /\ t + 1 - l + e >= 1 /\ t + 1 - l + e <= t + 1
                /\ t + 1 - l + a <= t + 1 - l + e
                /\ t + 1 - (t + 1 - l + a) < c /\ t + 1 - l + a > t - b
      OBVIOUS
    <3> QED BY <1>4, <1>5, <2>3, <3>1, <3>2, SMTT(20)
  <2> HIDE DEF m
  <2>l. Len(buffer') = 0 /\ taken' = taken + 1
    BY <1>1, <2>1
  <2>6. m \in Match /\ MatchOK(m, taken' - Len(buffer')) /\ m.date = ls[d]
    <3>1. m \in Match /\ m.date = ls[d] /\ m.line = ls[i] /\ m.at = taken + 1
      BY <1>4, <2>4, <2>5 DEF Match
    <3>2. MatchOK(m, taken + 1)
      BY <1>4, <2>5, <3>1 DEF MatchOK
    <3>3. taken' - Len(buffer') = taken + 1
      BY <1>4, <2>l
    <3> QED BY <3>1, <3>2, <3>3
  <2>7. /\ matches' \in Seq(Match) /\ Len(matches') = Len(matches) + 1
        /\ Len(matches) \in Nat /\ DOMAIN matches = 1..Len(matches)
        /\ DOMAIN matches' = 1..(Len(matches) + 1)
        /\ \A k \in DOMAIN matches : matches'[k] = matches[k]
        /\ matches'[Len(matches) + 1] = m
    BY <1>3, <2>1, <2>6
  <2>9. \A k \in DOMAIN matches' : MatchOK(matches'[k], taken' - Len(buffer'))
    BY <1>k, <2>6, <2>7
  <2>10. \A k \in DOMAIN matches' : k > 1 => matches'[k].date > matches'[k - 1].at
    <3> SUFFICES ASSUME NEW k \in DOMAIN matches', k > 1
                 PROVE  matches'[k].date > matches'[k - 1].at
      OBVIOUS
    <3>1. k - 1 \in DOMAIN matches /\ matches'[k - 1] = matches[k - 1]
      BY <2>7
    <3>2. CASE k \in DOMAIN matches
      BY <1>3, <2>7, <3>1, <3>2
    <3>3. CASE k = Len(matches) + 1
      <4>1. matches'[k].date = ls[d] /\ ls[d] \in Nat /\ ls[d] > taken - Len(buffer)
        BY <2>5, <2>6, <2>7, <3>3
      <4>2. matches[k - 1].at \in Nat /\ matches[k - 1].at <= taken - Len(buffer)
        BY <1>3, <1>o, <1>4, <3>1 DEF Match, MatchOK
      <4> QED BY <1>4, <3>1, <4>1, <4>2
    <3> QED BY <2>7, <3>2, <3>3
  <2>e. \E k \in DOMAIN matches' : matches'[k].at = taken'
    <3>1. m.at = taken' /\ Len(matches) + 1 \in DOMAIN matches'
      BY <2>4, <2>7, <2>l
    <3> QED BY <2>7, <3>1
  <2>11. JailOK'
    BY <1>2, <1>6, <1>e, <2>7, <2>9, <2>10, <2>e DEF JailOK, MatchOK, Cap
  <2> QED BY <1>2, <2>11 DEF PipelineInv
<1> QED BY <1>8, <1>9

LEMMA PipelineInvHolds == PipelineSpec => []PipelineInv
<1>1. PipelineInit => PipelineInv
  <2> SUFFICES ASSUME PipelineInit PROVE PipelineInv
    OBVIOUS
  <2>1. TailOK
    BY InitTailOK DEF PipelineInit
  <2>2. sent = <<>> /\ taken = 0 /\ buffer = <<>> /\ matches = <<>>
    BY DEF PipelineInit, Init
  <2>3. Len(sent) = 0 /\ Len(buffer) = 0 /\ DOMAIN buffer = {} /\ DOMAIN matches = {}
        /\ buffer \in Seq(Nat) /\ matches \in Seq(Match)
    BY <2>2, EmptySeq
  <2>4. JailOK
    BY <2>2, <2>3, CapIs DEF JailOK, BufferOK
  <2> QED BY <2>1, <2>4 DEF PipelineInv
<1>2. PipelineInv /\ [PipelineNext]_allVars => PipelineInv'
  <2> SUFFICES ASSUME PipelineInv, [PipelineNext]_allVars PROVE PipelineInv'
    OBVIOUS
  <2>0. TailOK /\ JailOK
    BY DEF PipelineInv
  <2>1. ASSUME UNCHANGED jail, sent' = sent PROVE JailOK'
    BY <2>0, <2>1 DEF jail, JailOK, BufferOK, MatchOK, Cap
  <2>2. CASE (Start \/ Follow) /\ UNCHANGED jail
    <3>1. TailOK'
      BY <2>0, <2>2, ReaderSteps
    <3>2. sent' = sent
      BY <2>2 DEF Start, Follow, Wake, PollCheck, PollOpen, InotifyCheck, Fill, FailLine,
                  EndOfFile
    <3> QED BY <2>1, <2>2, <3>1, <3>2 DEF PipelineInv
  <2>3. CASE Writer /\ UNCHANGED jail
    <3>1. TailOK' /\ sent' = sent
      BY <2>0, <2>3, WriterSteps
    <3> QED BY <2>1, <2>3, <3>1 DEF PipelineInv
  <2>4. CASE Send
    <3>1. SendLine /\ Len(sent) - taken < Capacity /\ UNCHANGED jail
      BY <2>4 DEF Send
    <3>2. TailOK'
      BY <2>0, <3>1, ReaderSteps
    <3>3. sent' = Append(sent, Line) /\ sent \in Seq(Seq(Piece))
      BY <2>0, <3>1 DEF SendLine, TailOK, ReaderOK
    <3>4. Len(sent') = Len(sent) + 1 /\ Len(sent) \in Nat
      BY <3>3
    <3>5. /\ taken' = taken /\ taken \in 0..Len(sent') /\ Len(sent') - taken <= Capacity
          /\ buffer' = buffer /\ matches' = matches
      <4>1. UNCHANGED <<taken, buffer, matches>> /\ taken \in 0..Len(sent)
        BY <2>0, <3>1 DEF jail, JailOK
      <4> QED BY <3>1, <3>4, <4>1, CapIs
    <3>6. JailOK'
      BY <2>0, <3>5 DEF JailOK, BufferOK, MatchOK, Cap
    <3> QED BY <3>2, <3>6 DEF PipelineInv
  <2>5. CASE Take
    BY <2>5, TakeKeeps
  <2>6. CASE UNCHANGED allVars
    <3>1. TailOK'
      BY <2>0, <2>6 DEF TailOK, DiskOK, ReaderOK, allVars, vars, disk, reader, Top, Handles
    <3>2. UNCHANGED jail /\ sent' = sent
      BY <2>6 DEF allVars, vars
    <3> QED BY <2>1, <3>1, <3>2 DEF PipelineInv
  <2> QED BY <2>2, <2>3, <2>4, <2>5, <2>6 DEF PipelineNext
<1> QED BY <1>1, <1>2, PTL DEF PipelineSpec

LEMMA TailIsTyped == TailOK => TypeOK
<1> SUFFICES ASSUME TailOK PROVE TypeOK
  OBVIOUS
<1>0. DiskOK /\ ReaderOK
  BY DEF TailOK
<1>1. /\ Top \in Nat /\ Top - 1 <= 2 * MaxLines
      /\ \A i \in DOMAIN files : files[i] \in Seq(Piece)
  BY <1>0, TopIs
<1>m. MaxLines \in Nat
  BY LogTailAssumption
<1>2. \A n \in Nat : n <= Top - 1 => n \in Offset
  BY <1>1, <1>m DEF Offset
<1>3. handle \in [inode : DOMAIN files, pos : Offset] \cup {None}
  <2>1. CASE handle = None
    BY <2>1
  <2>2. CASE handle # None
    <3>1. handle \in Handles /\ handle.pos \in Nat /\ handle.pos <= Top - 1
      BY <1>0, <2>2 DEF ReaderOK, Handles
    <3>2. handle.pos \in Offset
      BY <1>2, <3>1
    <3> QED BY <3>1, <3>2 DEF Handles
  <2> QED BY <2>1, <2>2
<1>4. size \in Offset
  BY <1>0, <1>2 DEF ReaderOK
<1>5. \A k \in DOMAIN sent : sent[k] \in Seq(Piece)
  <2>1. sent \in Seq(Seq(Piece))
    BY <1>0 DEF ReaderOK
  <2> QED BY <2>1
<1> QED BY <1>0, <1>1, <1>3, <1>4, <1>5 DEF TypeOK, DiskOK, ReaderOK

(* The types, and what the jail's buffer is: it holds the last lines that  *)
(* were received, at most maxlines of them and none of them matched before,*)
(* and no more than the capacity of the channel are on their way.          *)
THEOREM PipelineTypeCorrect == PipelineSpec => []PipelineTypeOK
<1>1. PipelineInv => PipelineTypeOK
  <2> SUFFICES ASSUME PipelineInv PROVE PipelineTypeOK
    OBVIOUS
  <2>1. TypeOK
    BY TailIsTyped DEF PipelineInv
  <2>2. /\ taken \in 0..Len(sent) /\ Len(sent) - taken <= Capacity
        /\ BufferOK /\ matches \in Seq(Match) /\ Len(sent) \in Nat
        /\ \A i \in DOMAIN matches : MatchOK(matches[i], taken - Len(buffer))
    BY DEF PipelineInv, JailOK, TailOK, ReaderOK
  <2>3. \A m \in Range(matches) : m.line \in 1..m.at /\ m.at \in 1..taken
    <3> SUFFICES ASSUME NEW i \in DOMAIN matches
                 PROVE  matches[i].line \in 1..matches[i].at /\ matches[i].at \in 1..taken
      BY DEF Range
    <3>1. /\ matches[i].line \in 1..matches[i].at
          /\ matches[i].at \in 1..(taken - Len(buffer))
      BY <2>2 DEF MatchOK
    <3>2. taken \in Nat /\ Len(buffer) \in Nat
      BY <2>2 DEF BufferOK
    <3> QED BY <3>1, <3>2
  <2> QED BY <2>1, <2>2, <2>3 DEF PipelineTypeOK, BufferOK
<1> QED BY <1>1, PipelineInvHolds, PTL

(* A match is made of lines after the last match, so that a failure counts *)
(* once, and its date is there and is that of a line close to it.          *)
THEOREM MatchesAreDatedClose == PipelineSpec => []DatesAreClose
<1>1. PipelineInv => DatesAreClose
  <2> SUFFICES ASSUME PipelineInv, NEW i \in DOMAIN matches
               PROVE  /\ matches[i].date # None
                      /\ matches[i].date <= matches[i].line
                      /\ matches[i].at - matches[i].date < Cap
                      /\ i > 1 => matches[i].date > matches[i - 1].at
    BY DEF DatesAreClose
  <2>1. /\ matches \in Seq(Match) /\ MatchOK(matches[i], taken - Len(buffer))
        /\ i > 1 => matches[i].date > matches[i - 1].at
    BY DEF PipelineInv, JailOK
  <2>2. matches[i] \in Match
    BY <2>1
  <2>3. matches[i].date \in Nat
    BY <2>2 DEF Match
  <2> QED BY <2>1, <2>3, LogTailAssumption DEF MatchOK
<1> QED BY <1>1, PipelineInvHolds, PTL

-----------------------------------------------------------------------------
(* The order of the lines.  The disk holds the pieces in the order they    *)
(* were written, through all files, and nothing behind the file the writer *)
(* has open.                                                               *)
InOrder(ss) ==
    \A k, l \in DOMAIN ss : \A i \in DOMAIN ss[k], j \in DOMAIN ss[l] :
        k < l \/ (k = l /\ i < j) => Rank(ss[k][i]) < Rank(ss[l][j])
DiskOrder ==
    /\ InOrder(files)
    /\ \A j \in DOMAIN files : \A k \in DOMAIN files[j] :
          Rank(files[j][k]) <= Top /\ j <= out

(* What was read was written before n: it was sent or it is in the buffer. *)
Below(b, ss, n) ==
    /\ \A i \in DOMAIN b : Rank(b[i]) < n
    /\ \A k \in DOMAIN ss : \A i \in DOMAIN ss[k] : Rank(ss[k][i]) < n

(* What the backend may come to read: the files after the one it is in,    *)
(* and that one behind its position, or all of it once it has shrunk or    *)
(* is to be opened again.                                                  *)
ToRead(j, k) ==
    \/ j > inode
    \/ j = inode /\ (handle = None \/ k > handle.pos \/ Len(files[j]) < handle.pos)

(* Nothing it may come to read was read.  It is in the file whose inode it *)
(* stored, and it has read the file at least up to the size it stored;     *)
(* inotify, which stores the size of the file before it reads it, only     *)
(* once it has read anything.                                              *)
OrderInv ==
    ~astray =>
        /\ InOrder(sent)
        /\ \A i, j \in DOMAIN buf : i < j => Rank(buf[i]) < Rank(buf[j])
        /\ \A k \in DOMAIN sent : \A i \in DOMAIN sent[k], j \in DOMAIN buf :
              Rank(sent[k][i]) < Rank(buf[j])
        /\ Below(buf, sent, Top + 1)
        /\ mode # "none" => inode # None
        /\ handle # None => handle.inode = inode
        /\ mode = "poll" /\ handle # None => size <= handle.pos
        /\ mode = "inotify" /\ pc # "read" =>
              size <= handle.pos \/ (sent = <<>> /\ buf = <<>>)
        /\ mode # "none" =>
              \A j \in DOMAIN files : \A k \in DOMAIN files[j] :
                  ToRead(j, k) => Below(buf, sent, Rank(files[j][k]))

LEMMA RankIs == \A p \in Piece : Rank(p) \in Nat
<1>1. MaxLines \in Nat
  BY LogTailAssumption
<1> SUFFICES ASSUME NEW p \in Piece PROVE Rank(p) \in Nat
  OBVIOUS
<1>2. p.line \in Nat /\ (IF p.end THEN 1 ELSE 0) \in {0, 1}
  BY <1>1 DEF Piece
<1> QED BY <1>2 DEF Rank

(* Writing and rotating keep the order on the disk, and what they add is   *)
(* newer than all there is.                                                *)
LEMMA DiskOrderGrows ==
    ASSUME DiskOK, DiskOK', DiskOrder, Grows
    PROVE  DiskOrder'
<1>1. /\ Top \in Nat /\ Top' \in Nat /\ Top <= Top'
      /\ out \in Nat /\ out' \in Nat /\ out <= out' /\ DOMAIN files \subseteq Nat
  <2>1. Top \in Nat /\ DOMAIN files \subseteq Nat /\ out \in DOMAIN files
    <3>1. Top \in Nat /\ DOMAIN files = 1..Len(files) /\ Len(files) \in Nat
      BY TopIs
    <3>2. DOMAIN files \subseteq Nat
      BY <3>1
    <3>3. out \in DOMAIN files
      BY DEF DiskOK
    <3> QED BY <3>1, <3>2, <3>3
  <2>2. files' \in Seq(Seq(Piece)) /\ out' \in DOMAIN files'
    BY DEF DiskOK
  <2>3. out' \in Nat
    BY <2>2
  <2>4. Top' \in Nat
    <3>1. lines' \in Nat /\ half' \in BOOLEAN
      BY LogTailAssumption DEF DiskOK
    <3>2. \A n \in Nat, b \in BOOLEAN : 2 * n + (IF b THEN 0 ELSE 1) \in Nat
      OBVIOUS
    <3>3. Top' = 2 * lines' + (IF half' THEN 0 ELSE 1)
      BY DEF Top
    <3> QED BY <3>1, <3>2, <3>3
  <2> QED BY <2>1, <2>3, <2>4 DEF Grows
<1>2. \A j \in DOMAIN files' : \A k \in DOMAIN files'[j] : Rank(files'[j][k]) \in Nat
  <2> SUFFICES ASSUME NEW j \in DOMAIN files', NEW k \in DOMAIN files'[j]
               PROVE  Rank(files'[j][k]) \in Nat
    OBVIOUS
  <2>1. files' \in Seq(Seq(Piece))
    BY DEF DiskOK
  <2>2. files'[j] \in Seq(Piece)
    BY <2>1
  <2>3. files'[j][k] \in Piece
    BY <2>2
  <2> QED BY <2>3, RankIs
<1> DEFINE Old(j, k) == /\ j \in DOMAIN files /\ k \in DOMAIN files[j]
                        /\ files'[j][k] = files[j][k]
           New(j, k) == j = out /\ Fresh(files'[j], k, Top, Top')
<1>3. \A j \in DOMAIN files' : \A k \in DOMAIN files'[j] : Old(j, k) \/ New(j, k)
  BY DEF Grows
<1>4. \A j, k : Old(j, k) => Rank(files'[j][k]) <= Top /\ j <= out /\ j \in Nat
  BY <1>1 DEF DiskOrder
<1>5. \A j, k : New(j, k) => Rank(files'[j][k]) > Top /\ Rank(files'[j][k]) <= Top' /\ j = out
  BY DEF Fresh
<1>6. \A j \in DOMAIN files' : \A k \in DOMAIN files'[j] :
          Rank(files'[j][k]) <= Top' /\ j <= out'
  BY <1>1, <1>2, <1>3, <1>4, <1>5
<1>7. ASSUME NEW k \in DOMAIN files', NEW l \in DOMAIN files',
             NEW i \in DOMAIN files'[k], NEW j \in DOMAIN files'[l],
             k < l \/ (k = l /\ i < j)
      PROVE  Rank(files'[k][i]) < Rank(files'[l][j])
  <2>1. CASE Old(k, i) /\ Old(l, j)
    BY <1>7, <2>1 DEF DiskOrder, InOrder
  <2>2. CASE Old(k, i) /\ New(l, j)
    BY <1>1, <1>2, <1>4, <1>5, <2>2
  <2>3. CASE New(k, i)
    <3>1. k = out /\ Rank(files'[k][i]) > Top
      BY <1>5, <2>3
    <3>2. CASE k = l /\ i < j
      BY <2>3, <3>2 DEF Fresh
    <3>3. CASE k < l
      BY <1>1, <1>3, <1>4, <1>5, <3>1, <3>3
    <3> QED BY <1>7, <3>2, <3>3
  <2> HIDE DEF Old, New
  <2> QED BY <1>3, <2>1, <2>2, <2>3
<1>8. InOrder(files')
  BY <1>7 DEF InOrder
<1> QED BY <1>6, <1>8 DEF DiskOrder, InOrder

LEMMA OrderGrows ==
    ASSUME TailOK, TailOK', DiskOrder, OrderInv, Grows,
           UNCHANGED <<mode, pc, reader, watched, sent, astray>>
    PROVE  OrderInv'
<1> SUFFICES ASSUME ~astray PROVE OrderInv'
  BY DEF OrderInv
<1>1. UNCHANGED <<mode, pc, handle, buf, inode, size, sent, astray>>
  BY DEF reader
<1>2. Top \in Nat /\ Top' \in Nat /\ Top <= Top'
  <2>1. Top \in Nat
    BY TopIs DEF TailOK
  <2>2. lines' \in Nat /\ half' \in BOOLEAN
    BY LogTailAssumption DEF DiskOK, TailOK
  <2>3. \A n \in Nat, b \in BOOLEAN : 2 * n + (IF b THEN 0 ELSE 1) \in Nat
    OBVIOUS
  <2>4. Top' = 2 * lines' + (IF half' THEN 0 ELSE 1)
    BY DEF Top
  <2> QED BY <2>1, <2>2, <2>3, <2>4 DEF Grows
<1>3. /\ \A i \in DOMAIN buf : Rank(buf[i]) \in Nat
      /\ \A k \in DOMAIN sent : \A i \in DOMAIN sent[k] : Rank(sent[k][i]) \in Nat
  <2>1. buf \in Seq(Piece) /\ sent \in Seq(Seq(Piece))
    BY DEF TailOK, ReaderOK
  <2>2. \A k \in DOMAIN sent : sent[k] \in Seq(Piece)
    BY <2>1
  <2>3. \A k \in DOMAIN sent : \A i \in DOMAIN sent[k] : sent[k][i] \in Piece
    BY <2>2
  <2>4. \A i \in DOMAIN buf : buf[i] \in Piece
    BY <2>1
  <2> QED BY <2>3, <2>4, RankIs
<1>4. Below(buf, sent, Top + 1)
  BY DEF OrderInv
<1>5. \A n \in Nat : n > Top => Below(buf, sent, n)
  BY <1>2, <1>3, <1>4 DEF Below
<1>6. \A n : Below(buf', sent', n) <=> Below(buf, sent, n)
  BY <1>1 DEF Below
<1>7. Below(buf, sent, Top' + 1)
  BY <1>2, <1>5
<1>8. ASSUME mode # "none", NEW j \in DOMAIN files', NEW k \in DOMAIN files'[j], ToRead(j, k)'
      PROVE  Below(buf, sent, Rank(files'[j][k]))
  <2>1. Rank(files'[j][k]) \in Nat
    <3>1. files' \in Seq(Seq(Piece))
      BY DEF DiskOK, TailOK
    <3>2. files'[j] \in Seq(Piece)
      BY <3>1
    <3>3. files'[j][k] \in Piece
      BY <3>2
    <3> QED BY <3>3, RankIs
  <2>2. CASE Rank(files'[j][k]) > Top
    BY <1>5, <2>1, <2>2
  <2>3. CASE /\ j \in DOMAIN files /\ k \in DOMAIN files[j]
             /\ files'[j][k] = files[j][k] /\ Len(files[j]) <= Len(files'[j])
    <3>1. Len(files'[j]) \in Nat /\ Len(files[j]) \in Nat
      <4>1. files' \in Seq(Seq(Piece)) /\ files \in Seq(Seq(Piece))
        BY DEF DiskOK, TailOK
      <4>2. files'[j] \in Seq(Piece) /\ files[j] \in Seq(Piece)
        BY <2>3, <4>1
      <4> QED BY <4>2
    <3>2. handle # None => handle.pos \in Nat
      BY DEF TailOK, ReaderOK, Handles
    <3>3. handle # None /\ Len(files'[j]) < handle.pos => Len(files[j]) < handle.pos
      BY <2>3, <3>1, <3>2
    <3>4. ToRead(j, k)
      BY <1>1, <1>8, <3>3 DEF ToRead
    <3> QED BY <1>8, <2>3, <3>4 DEF OrderInv
  <2> QED BY <2>2, <2>3 DEF Grows, Fresh
<1> QED BY <1>1, <1>6, <1>7, <1>8 DEF OrderInv

(* A step of the backend that reads nothing leaves it in order if all that *)
(* it may come to read then it could come to read before.                  *)
LEMMA OrderKept ==
    ASSUME TailOK, OrderInv, UNCHANGED <<disk, sent, astray>>, mode # "none", mode' # "none",
           buf' = buf \/ buf' = <<>>,
           inode' # None,
           handle' # None => handle'.inode = inode',
           mode' = "poll" /\ handle' # None => size' <= handle'.pos,
           (mode' = "inotify" /\ pc' # "read")
           => size' <= handle'.pos \/ (sent = <<>> /\ buf' = <<>>),
           ~astray => \A j \in DOMAIN files : \A k \in DOMAIN files[j] :
                         ToRead(j, k)' => ToRead(j, k)
    PROVE  OrderInv'
<1> SUFFICES ASSUME ~astray PROVE OrderInv'
  BY DEF OrderInv
<1>1. DOMAIN <<>> = {}
  OBVIOUS
<1>2. \A n : Below(buf, sent, n) => Below(buf', sent', n)
  BY <1>1 DEF Below
<1>3. Top' = Top /\ files' = files
  BY DEF Top, disk
<1>4. Below(buf, sent, Top + 1) /\ InOrder(sent)
      /\ (\A i, j \in DOMAIN buf : i < j => Rank(buf[i]) < Rank(buf[j]))
      /\ (\A k \in DOMAIN sent : \A i \in DOMAIN sent[k], j \in DOMAIN buf :
              Rank(sent[k][i]) < Rank(buf[j]))
      /\ (\A j \in DOMAIN files : \A k \in DOMAIN files[j] :
              ToRead(j, k) => Below(buf, sent, Rank(files[j][k])))
  BY DEF OrderInv
<1>5. /\ \A i, j \in DOMAIN buf' : i < j => Rank(buf'[i]) < Rank(buf'[j])
      /\ \A k \in DOMAIN sent : \A i \in DOMAIN sent[k], j \in DOMAIN buf' :
              Rank(sent[k][i]) < Rank(buf'[j])
  BY <1>1, <1>4
<1>6. \A j \in DOMAIN files : \A k \in DOMAIN files[j] :
          ToRead(j, k)' => Below(buf', sent', Rank(files[j][k]))
  BY <1>2, <1>4
<1>7. Below(buf', sent', Top' + 1)
  BY <1>2, <1>3, <1>4 DEF Below
<1>8. \A j \in DOMAIN files' : \A k \in DOMAIN files'[j] :
          ToRead(j, k)' => Below(buf', sent', Rank(files'[j][k]))
  BY <1>3, <1>6
<1>9. sent' = sent /\ astray' = astray
  OBVIOUS
<1> QED BY <1>4, <1>5, <1>7, <1>8, <1>9 DEF OrderInv, InOrder

(* The line returned leaves the buffer, sent or not.                       *)
LEMMA OrderOfLines ==
    ASSUME TailOK, OrderInv, ~astray,
           UNCHANGED <<disk, handle, inode, size, mode, astray>>,
           buf' = Rest, sent' = sent \/ sent' = Append(sent, Line),
           pc' = pc \/ mode = "poll", pc = "read", mode # "none"
    PROVE  OrderInv'
<1>1. /\ buf \in Seq(Piece) /\ sent \in Seq(Seq(Piece)) /\ Len(sent) \in Nat
      /\ DOMAIN sent = 1..Len(sent)
  BY DEF TailOK, ReaderOK
<1>2. /\ Line \in Seq(Piece) /\ Rest \in Seq(Piece) /\ Len(Line) \in Nat
      /\ DOMAIN Line = 1..Len(Line)
      /\ \A i \in DOMAIN Line : i \in DOMAIN buf /\ Line[i] = buf[i]
      /\ \A i \in DOMAIN Rest : Len(Line) + i \in DOMAIN buf /\ Rest[i] = buf[Len(Line) + i]
      /\ DOMAIN Rest \subseteq Nat
      /\ \A i \in DOMAIN Rest : i >= 1
  <2>1. Rest \in Seq(Piece)
    BY <1>1, LineIs
  <2>2. \A i \in DOMAIN Rest : i \in Nat /\ i >= 1
    BY <2>1
  <2> QED BY <1>1, <2>2, LineIs
<1>3. /\ InOrder(sent) /\ Below(buf, sent, Top + 1)
      /\ \A i, j \in DOMAIN buf : i < j => Rank(buf[i]) < Rank(buf[j])
      /\ \A k \in DOMAIN sent : \A i \in DOMAIN sent[k], j \in DOMAIN buf :
            Rank(sent[k][i]) < Rank(buf[j])
      /\ \A j \in DOMAIN files : \A k \in DOMAIN files[j] :
            ToRead(j, k) => Below(buf, sent, Rank(files[j][k]))
  BY DEF OrderInv
<1>4. Top' = Top /\ files' = files /\ \A j, k : ToRead(j, k)' <=> ToRead(j, k)
  BY DEF Top, disk, ToRead
<1>5. \A i, j \in DOMAIN Rest : i < j => Rank(Rest[i]) < Rank(Rest[j])
  <2> SUFFICES ASSUME NEW i \in DOMAIN Rest, NEW j \in DOMAIN Rest, i < j
               PROVE  Rank(Rest[i]) < Rank(Rest[j])
    OBVIOUS
  <2>1. Len(Line) + i < Len(Line) + j
    BY <1>2
  <2> QED BY <1>2, <1>3, <2>1
<1>6. \A i \in DOMAIN Line, j \in DOMAIN Rest : Rank(Line[i]) < Rank(Rest[j])
  <2> SUFFICES ASSUME NEW i \in DOMAIN Line, NEW j \in DOMAIN Rest
               PROVE  Rank(Line[i]) < Rank(Rest[j])
    OBVIOUS
  <2>1. i < Len(Line) + j
    BY <1>2
  <2> QED BY <1>2, <1>3, <2>1
<1>7. \A i, j \in DOMAIN Line : i < j => Rank(Line[i]) < Rank(Line[j])
  BY <1>2, <1>3
<1>8. \A k \in DOMAIN sent' : \/ k \in DOMAIN sent /\ sent'[k] = sent[k]
                              \/ k = Len(sent) + 1 /\ sent'[k] = Line
  BY <1>1, <1>2
<1>9. InOrder(sent')
  <2> SUFFICES ASSUME NEW k \in DOMAIN sent', NEW l \in DOMAIN sent',
                      NEW i \in DOMAIN sent'[k], NEW j \in DOMAIN sent'[l],
                      k < l \/ (k = l /\ i < j)
               PROVE  Rank(sent'[k][i]) < Rank(sent'[l][j])
    BY DEF InOrder
  <2>1. CASE k \in DOMAIN sent /\ l \in DOMAIN sent
    <3>1. sent'[k] = sent[k] /\ sent'[l] = sent[l]
      BY <1>1, <1>8, <2>1
    <3> QED BY <1>3, <2>1, <3>1 DEF InOrder
  <2>2. CASE k \in DOMAIN sent /\ l = Len(sent) + 1
    <3>1. sent'[k] = sent[k] /\ sent'[l] = Line
      BY <1>1, <1>8, <2>2
    <3> QED BY <1>2, <1>3, <2>2, <3>1
  <2>3. CASE k = Len(sent) + 1
    <3>1. l = Len(sent) + 1
      BY <1>1, <1>8, <2>3
    <3>2. sent'[k] = Line /\ sent'[l] = Line /\ i < j
      BY <1>1, <1>8, <2>3, <3>1
    <3> QED BY <1>7, <3>2
  <2> QED BY <1>8, <2>1, <2>2, <2>3
<1>10. \A k \in DOMAIN sent' : \A i \in DOMAIN sent'[k], j \in DOMAIN Rest :
           Rank(sent'[k][i]) < Rank(Rest[j])
  <2> SUFFICES ASSUME NEW k \in DOMAIN sent', NEW i \in DOMAIN sent'[k], NEW j \in DOMAIN Rest
               PROVE  Rank(sent'[k][i]) < Rank(Rest[j])
    OBVIOUS
  <2>1. CASE k \in DOMAIN sent /\ sent'[k] = sent[k]
    <3>1. Len(Line) + j \in DOMAIN buf /\ Rest[j] = buf[Len(Line) + j]
      BY <1>2
    <3> QED BY <1>3, <2>1, <3>1
  <2>2. CASE sent'[k] = Line
    BY <1>6, <2>2
  <2> QED BY <1>8, <2>1, <2>2
<1>11. \A n : Below(buf, sent, n) => Below(buf', sent', n)
  BY <1>2, <1>8 DEF Below
<1>12. Below(buf', sent', Top' + 1)
  BY <1>3, <1>4, <1>11 DEF Below
<1>13. \A j \in DOMAIN files' : \A k \in DOMAIN files'[j] :
           ToRead(j, k)' => Below(buf', sent', Rank(files'[j][k]))
  BY <1>3, <1>4, <1>11
<1>14. /\ inode' # None /\ (handle' # None => handle'.inode = inode')
       /\ (mode' = "poll" /\ handle' # None) => size' <= handle'.pos
       /\ ~(mode' = "inotify" /\ pc' # "read")
  BY DEF OrderInv
<1> QED BY <1>5, <1>9, <1>10, <1>12, <1>13, <1>14 DEF OrderInv, InOrder

(* What is read from the file follows what was read before.                *)
LEMMA OrderOfFill ==
    ASSUME TailOK, DiskOrder, OrderInv, ~astray, Fill
    PROVE  OrderInv'
<1>1. /\ pc = "read" /\ Unread # <<>> /\ buf' = buf \o Unread
      /\ handle' = [handle EXCEPT !.pos = @ + Len(Unread)]
      /\ UNCHANGED <<disk, mode, pc, inode, size, sent, astray>>
  BY DEF Fill
<1>2. handle # None /\ handle \in Handles /\ buf \in Seq(Piece)
  BY <1>1 DEF TailOK, ReaderOK
<1> DEFINE h == handle.inode
           n == Len(files[handle.inode])
<1>3. /\ Unread \in Seq(Piece) /\ h \in DOMAIN files /\ handle.pos \in Nat
      /\ n \in Nat /\ DOMAIN files[h] = 1..n
      /\ Len(Unread) = IF handle.pos < n THEN n - handle.pos ELSE 0
      /\ \A i \in DOMAIN Unread : /\ handle.pos + i \in DOMAIN files[h]
                                  /\ Unread[i] = files[h][handle.pos + i]
  BY <1>2, UnreadIs
<1>4. Len(Unread) # 0
  BY <1>1, <1>3
<1>5. handle.pos + Len(Unread) = n /\ handle.pos < n
  BY <1>3, <1>4
<1>6. handle' = [inode |-> h, pos |-> n]
  BY <1>1, <1>2, <1>5 DEF Handles
<1>7. /\ InOrder(sent) /\ Below(buf, sent, Top + 1)
      /\ \A i, j \in DOMAIN buf : i < j => Rank(buf[i]) < Rank(buf[j])
      /\ \A k \in DOMAIN sent : \A i \in DOMAIN sent[k], j \in DOMAIN buf :
            Rank(sent[k][i]) < Rank(buf[j])
      /\ \A j \in DOMAIN files : \A k \in DOMAIN files[j] :
            mode # "none" /\ ToRead(j, k) => Below(buf, sent, Rank(files[j][k]))
      /\ mode # "none" => inode # None
      /\ h = inode
      /\ mode = "poll" => size <= handle.pos
  BY <1>2 DEF OrderInv
<1>m. mode # "none" /\ DOMAIN files \subseteq Nat
  BY <1>2, TopIs DEF TailOK, ReaderOK
<1>8. \A i \in DOMAIN Unread : i \in Nat /\ i >= 1 /\ i <= Len(Unread)
  BY <1>3
<1>9. \A i \in DOMAIN Unread : Below(buf, sent, Rank(Unread[i]))
  <2> SUFFICES ASSUME NEW i \in DOMAIN Unread PROVE Below(buf, sent, Rank(Unread[i]))
    OBVIOUS
  <2>1. handle.pos + i > handle.pos
    BY <1>3, <1>8
  <2>2. ToRead(h, handle.pos + i)
    BY <1>2, <1>7, <2>1 DEF ToRead
  <2> QED BY <1>3, <1>7, <1>m, <2>2
<1>10. \A i, j \in DOMAIN Unread : i < j => Rank(Unread[i]) < Rank(Unread[j])
  <2> SUFFICES ASSUME NEW i \in DOMAIN Unread, NEW j \in DOMAIN Unread, i < j
               PROVE  Rank(Unread[i]) < Rank(Unread[j])
    OBVIOUS
  <2>1. handle.pos + i < handle.pos + j
    BY <1>3, <1>8
  <2> QED BY <1>3, <2>1 DEF DiskOrder, InOrder
<1>11. \A i \in DOMAIN Unread : Rank(Unread[i]) < Top + 1
  <2> SUFFICES ASSUME NEW i \in DOMAIN Unread PROVE Rank(Unread[i]) < Top + 1
    OBVIOUS
  <2>1. Rank(Unread[i]) <= Top
    BY <1>3 DEF DiskOrder
  <2>2. Rank(Unread[i]) \in Nat /\ Top \in Nat
    <3>1. Unread[i] \in Piece
      BY <1>3
    <3> QED BY <3>1, RankIs, TopIs DEF TailOK
  <2> QED BY <2>1, <2>2
<1> HIDE DEF h, n
<1>12. \A i \in DOMAIN buf' :
          \/ i \in DOMAIN buf /\ buf'[i] = buf[i]
          \/ /\ i - Len(buf) \in DOMAIN Unread /\ buf'[i] = Unread[i - Len(buf)]
             /\ i > Len(buf)
  <2> DEFINE u == Unread
  <2>0. u \in Seq(Piece)
    BY <1>3
  <2> HIDE DEF u
  <2>1. /\ Len(buf \o u) = Len(buf) + Len(u) /\ Len(buf) \in Nat /\ Len(u) \in Nat
        /\ DOMAIN (buf \o u) = 1..(Len(buf) + Len(u))
        /\ \A i \in 1..(Len(buf) + Len(u)) :
              (buf \o u)[i] = IF i <= Len(buf) THEN buf[i] ELSE u[i - Len(buf)]
        /\ DOMAIN buf = 1..Len(buf) /\ DOMAIN u = 1..Len(u)
    BY <1>2, <2>0, ConcatProperties, LenProperties
  <2>2. buf' = buf \o u
    BY <1>1 DEF u
  <2>3. \A i \in DOMAIN buf' :
          \/ i \in DOMAIN buf /\ buf'[i] = buf[i]
          \/ i - Len(buf) \in DOMAIN u /\ buf'[i] = u[i - Len(buf)] /\ i > Len(buf)
    BY <2>1, <2>2
  <2> QED BY <2>3 DEF u
<1>13. DOMAIN buf' \subseteq Nat /\ DOMAIN buf = 1..Len(buf) /\ Len(buf) \in Nat
  <2>1. buf \o Unread \in Seq(Piece)
    BY <1>2, <1>3
  <2> QED BY <1>1, <1>2, <2>1
<1>14. \A i, j \in DOMAIN buf' : i < j => Rank(buf'[i]) < Rank(buf'[j])
  <2> SUFFICES ASSUME NEW i \in DOMAIN buf', NEW j \in DOMAIN buf', i < j
               PROVE  Rank(buf'[i]) < Rank(buf'[j])
    OBVIOUS
  <2>1. CASE i \in DOMAIN buf /\ buf'[i] = buf[i] /\ j \in DOMAIN buf /\ buf'[j] = buf[j]
    BY <1>7, <2>1
  <2>2. CASE /\ i \in DOMAIN buf /\ buf'[i] = buf[i]
             /\ j - Len(buf) \in DOMAIN Unread /\ buf'[j] = Unread[j - Len(buf)]
    BY <1>9, <2>2 DEF Below
  <2>3. CASE /\ i - Len(buf) \in DOMAIN Unread /\ buf'[i] = Unread[i - Len(buf)]
             /\ i > Len(buf)
    <3>1. j > Len(buf) /\ i - Len(buf) < j - Len(buf) /\ j \notin DOMAIN buf
      BY <1>13, <2>3
    <3>2. j - Len(buf) \in DOMAIN Unread /\ buf'[j] = Unread[j - Len(buf)]
      BY <1>12, <3>1
    <3> QED BY <1>10, <2>3, <3>1, <3>2
  <2> QED BY <1>12, <2>1, <2>2, <2>3
<1>15. \A k \in DOMAIN sent : \A i \in DOMAIN sent[k], j \in DOMAIN buf' :
           Rank(sent[k][i]) < Rank(buf'[j])
  BY <1>7, <1>9, <1>12 DEF Below
<1>16. Below(buf', sent, Top + 1)
  BY <1>7, <1>11, <1>12 DEF Below
<1>17. ASSUME NEW j \in DOMAIN files, NEW k \in DOMAIN files[j], ToRead(j, k)'
       PROVE  Below(buf', sent, Rank(files[j][k]))
  <2>0. inode' = inode /\ files' = files /\ handle' # None /\ handle'.pos = n
    <3>1. handle' # None
      BY <1>3, <1>6, NewHandle DEF TailOK
    <3> QED BY <1>1, <1>6, <3>1 DEF disk
  <2>1. j > h
    <3>1. ~(j = h /\ (k > n \/ Len(files[j]) < n))
      BY <1>3 DEF n, h
    <3> QED BY <1>7, <1>17, <2>0, <3>1 DEF ToRead
  <2>2. Below(buf, sent, Rank(files[j][k]))
    BY <1>7, <1>m, <2>1 DEF ToRead
  <2>3. \A i \in DOMAIN Unread : Rank(Unread[i]) < Rank(files[j][k])
    BY <1>3, <1>m, <2>1 DEF DiskOrder, InOrder
  <2> QED BY <1>12, <2>2, <2>3 DEF Below
<1>18. Top' = Top /\ files' = files /\ inode' = inode /\ sent' = sent /\ mode' = mode
       /\ pc' = "read" /\ size' = size
  BY <1>1 DEF Top, disk
<1>19. handle'.inode = inode' /\ (mode' = "poll" => size' <= handle'.pos)
  <2>1. size \in Nat
    BY DEF TailOK, ReaderOK
  <2>2. mode = "poll" => size <= n
    BY <1>3, <1>5, <1>7, <2>1
  <2> QED BY <1>6, <1>7, <1>18, <2>2
<1>20. Below(buf', sent', Top' + 1)
  BY <1>16, <1>18
<1>21. \A j \in DOMAIN files' : \A k \in DOMAIN files'[j] :
           ToRead(j, k)' => Below(buf', sent', Rank(files'[j][k]))
  BY <1>17, <1>18
<1> QED BY <1>7, <1>14, <1>15, <1>18, <1>19, <1>20, <1>21 DEF OrderInv, InOrder

LEMMA OrderSteps ==
    ASSUME TailOK, DiskOrder, OrderInv, Start \/ Follow \/ SendLine
    PROVE  OrderInv'
<1>1. UNCHANGED disk /\ astray' \in BOOLEAN /\ (astray => astray')
  BY DEF Start, Follow, SendLine, Wake, PollCheck, PollOpen, InotifyCheck, Fill, FailLine,
         EndOfFile, TailOK, ReaderOK
<1> SUFFICES ASSUME ~astray, ~astray' PROVE OrderInv'
  BY <1>1 DEF OrderInv
<1>2. UNCHANGED astray
  BY <1>1 DEF TailOK, ReaderOK
<1>r. /\ mode \in {"none", "poll", "inotify"} /\ pc \in {"wait", "check", "open", "read"}
      /\ (pc = "read" \/ mode = "inotify") => handle # None
      /\ mode = "none" => sent = <<>> /\ handle = None
      /\ handle = None => size = 0 /\ buf = <<>>
      /\ (mode = "inotify" /\ pc # "read") => buf = <<>>
      /\ inode \in DOMAIN files \cup {None} /\ size \in Nat
      /\ handle # None => handle.inode \in DOMAIN files /\ handle.pos \in Nat
  BY DEF TailOK, ReaderOK, Handles
<1>o. /\ mode # "none" => inode # None
      /\ handle # None => handle.inode = inode
      /\ (mode = "poll" /\ handle # None) => size <= handle.pos
      /\ (mode = "inotify" /\ pc # "read") => size <= handle.pos \/ (sent = <<>> /\ buf = <<>>)
  BY DEF OrderInv
<1>p. /\ path # None => path \in DOMAIN files /\ path = Len(files)
      /\ DOMAIN files = 1..Len(files) /\ Len(files) \in Nat /\ None \notin DOMAIN files
      /\ \A i \in DOMAIN files : Len(files[i]) \in Nat
  BY TopIs DEF TailOK, DiskOK
<1>q. path # None /\ inode # None => inode <= path /\ inode \in Nat
  BY <1>r, <1>p
<1>h. path # None => /\ Open(path) # None /\ Open(path).pos = 0 /\ Open(path).inode = path
  BY <1>p, NewHandle DEF Open, TailOK
<1>f. files' = files
  BY <1>1 DEF disk
(* The file was opened anew, or is to be.                                  *)
<1>k. ASSUME mode # "none", path # None, inode' = path, handle' = None \/ handle' = Open(path),
             path = inode => handle = None \/ Len(files[path]) < handle.pos
      PROVE  \A j \in DOMAIN files : \A k \in DOMAIN files[j] : ToRead(j, k)' => ToRead(j, k)
  <2> SUFFICES ASSUME NEW j \in DOMAIN files, NEW k \in DOMAIN files[j], ToRead(j, k)'
               PROVE  ToRead(j, k)
    OBVIOUS
  <2>1. j = path \/ j > path
    BY <1>k DEF ToRead
  <2>2. j \in Nat /\ inode \in Nat /\ inode <= path /\ path \in Nat
    BY <1>k, <1>o, <1>p, <1>q
  <2>3. j > inode \/ (j = inode /\ j = path)
    BY <2>1, <2>2
  <2> QED BY <1>k, <2>3 DEF ToRead
<1>3. CASE Start
  <2>1. mode = "none" /\ path # None /\ UNCHANGED sent /\ sent = <<>>
    BY <1>3, <1>r DEF Start
  <2>2. buf' = <<>> /\ sent' = <<>> /\ inode' = path /\ inode' # None
    BY <1>3, <2>1 DEF Start, StartPolling, StartInotify
  <2>3. handle' = Open(path) /\ (mode' = "poll" => size' = 0)
    BY <1>3, <2>1 DEF Start, StartPolling, StartInotify
  <2>4. DOMAIN <<>> = {}
    OBVIOUS
  <2>5. InOrder(sent') /\ \A n : Below(buf', sent', n)
    BY <2>2, <2>4 DEF InOrder, Below
  <2> QED BY <1>h, <2>1, <2>2, <2>3, <2>4, <2>5 DEF OrderInv, InOrder
<1>4. CASE Wake
  <2>1. /\ pc = "wait" /\ mode # "none"
        /\ UNCHANGED <<disk, mode, handle, buf, inode, size, sent, astray>>
    BY <1>4 DEF Wake, reader
  <2>2. \A j \in DOMAIN files : \A k \in DOMAIN files[j] : ToRead(j, k)' => ToRead(j, k)
    BY <1>f, <2>1 DEF ToRead
  <2> QED BY <1>o, <1>r, <2>1, <2>2, OrderKept
<1>5. CASE PollCheck
  <2>1. mode = "poll" /\ UNCHANGED <<mode, sent, astray>>
    BY <1>5 DEF PollCheck
  <2>2. CASE UNCHANGED reader
    <3>1. \A j \in DOMAIN files : \A k \in DOMAIN files[j] : ToRead(j, k)' => ToRead(j, k)
      BY <1>f, <2>2 DEF ToRead, reader
    <3>2. UNCHANGED <<handle, buf, inode, size>>
      BY <2>2 DEF reader
    <3> QED BY <1>1, <1>o, <2>1, <3>1, <3>2, OrderKept
  <2>3. CASE ~UNCHANGED reader
    <3>1. /\ path # None /\ (path # inode \/ Len(files[path]) < size)
          /\ inode' = path /\ size' = 0 /\ handle' = None /\ buf' = <<>>
      BY <1>5, <2>3 DEF PollCheck, Shrunk
    <3>2. path = inode => handle = None \/ Len(files[path]) < handle.pos
      <4>1. ASSUME path = inode, handle # None PROVE Len(files[path]) < handle.pos
        <5>1. Len(files[path]) < size /\ size <= handle.pos
          BY <1>o, <2>1, <3>1, <4>1
        <5>2. Len(files[path]) \in Nat /\ size \in Nat /\ handle.pos \in Nat
          BY <1>p, <1>r, <3>1, <4>1
        <5> QED BY <5>1, <5>2
      <4> QED BY <4>1
    <3>3. \A j \in DOMAIN files : \A k \in DOMAIN files[j] : ToRead(j, k)' => ToRead(j, k)
      BY <1>k, <2>1, <3>1, <3>2
    <3> QED BY <1>1, <2>1, <3>1, <3>3, OrderKept
  <2> QED BY <2>2, <2>3
<1>6. CASE PollOpen
  <2>1. mode = "poll" /\ UNCHANGED <<mode, sent, astray>>
    BY <1>6 DEF PollOpen
  <2>2. CASE UNCHANGED reader
    <3>1. \A j \in DOMAIN files : \A k \in DOMAIN files[j] : ToRead(j, k)' => ToRead(j, k)
      BY <1>f, <2>2 DEF ToRead, reader
    <3>2. UNCHANGED <<handle, buf, inode, size>>
      BY <2>2 DEF reader
    <3> QED BY <1>1, <1>o, <2>1, <3>1, <3>2, OrderKept
  <2>3. CASE ~UNCHANGED reader
    <3> DEFINE at == IF Shrunk(path) THEN 0 ELSE size
    <3>1. /\ handle = None /\ path # None /\ handle' = [inode |-> path, pos |-> at]
          /\ inode' = path /\ size' = at /\ UNCHANGED buf
      BY <1>6, <2>3 DEF PollOpen
    <3>2. at = 0
      BY <1>r, <3>1
    <3> HIDE DEF at
    <3>3. handle' = Open(path) /\ size' <= handle'.pos /\ handle'.inode = inode'
      BY <1>h, <3>1, <3>2 DEF Open
    <3>4. \A j \in DOMAIN files : \A k \in DOMAIN files[j] : ToRead(j, k)' => ToRead(j, k)
      BY <1>k, <2>1, <3>1, <3>3
    <3> QED BY <1>1, <2>1, <3>1, <3>3, <3>4, OrderKept
  <2> QED BY <2>2, <2>3
<1>7. CASE InotifyCheck
  <2>1. mode = "inotify" /\ pc = "check" /\ pc' = "read" /\ UNCHANGED <<mode, sent>>
    BY <1>7 DEF InotifyCheck
  <2>2. CASE UNCHANGED reader
    <3>1. \A j \in DOMAIN files : \A k \in DOMAIN files[j] : ToRead(j, k)' => ToRead(j, k)
      BY <1>f, <2>2 DEF ToRead, reader
    <3>2. UNCHANGED <<handle, buf, inode, size>>
      BY <2>2 DEF reader
    <3> QED BY <1>1, <1>2, <1>o, <2>1, <3>1, <3>2, OrderKept
  <2>3. CASE ~UNCHANGED reader
    <3>0. handle # None
      BY <1>r, <2>1
    <3>1. /\ path # None /\ (handle.inode # inode \/ Len(files[handle.inode]) < size)
          /\ handle' = Open(path) /\ inode' = handle.inode /\ UNCHANGED buf
          /\ astray' = (astray \/ path # handle.inode)
      BY <1>7, <2>3 DEF InotifyCheck, Shrunk
    <3>2. path = handle.inode /\ handle.inode = inode /\ Len(files[path]) < size
      BY <1>o, <3>0, <3>1
    <3>3. CASE size <= handle.pos
      <4>1. Len(files[path]) < handle.pos
        <5>1. Len(files[path]) \in Nat /\ size \in Nat /\ handle.pos \in Nat
          BY <1>p, <1>r, <3>0, <3>1
        <5> QED BY <3>2, <3>3, <5>1
      <4>2. \A j \in DOMAIN files : \A k \in DOMAIN files[j] : ToRead(j, k)' => ToRead(j, k)
        BY <1>k, <2>1, <3>1, <3>2, <4>1
      <4> QED BY <1>1, <1>2, <1>h, <1>o, <2>1, <3>1, <3>2, <4>2, OrderKept
    <3>4. CASE sent = <<>> /\ buf = <<>>
      <4>1. DOMAIN <<>> = {} /\ sent' = <<>> /\ buf' = <<>>
        BY <2>1, <3>1, <3>4
      <4>2. InOrder(sent') /\ \A n : Below(buf', sent', n)
        BY <4>1 DEF InOrder, Below
      <4>3. inode' # None /\ handle'.inode = inode' /\ mode' = "inotify" /\ pc' = "read"
        BY <1>h, <2>1, <3>1, <3>2
      <4> QED BY <4>1, <4>2, <4>3 DEF OrderInv, InOrder
    <3> QED BY <1>o, <2>1, <3>3, <3>4
  <2> QED BY <2>2, <2>3
<1>8. CASE Fill
  BY <1>8, OrderOfFill
<1>9. CASE FailLine
  <2>1. /\ mode = "poll" /\ buf' = Rest /\ pc = "read" /\ mode # "none"
        /\ UNCHANGED <<disk, handle, inode, size, mode, astray>> /\ sent' = sent
    BY <1>9 DEF FailLine, Ready, Rest
  <2> QED BY <2>1, OrderOfLines
<1>10. CASE EndOfFile
  <2>1. /\ pc = "read" /\ size' = handle.pos
        /\ UNCHANGED <<disk, mode, handle, buf, inode, sent, astray>>
    BY <1>10 DEF EndOfFile
  <2>2. handle # None /\ mode # "none"
    BY <1>r, <2>1
  <2>3. \A j \in DOMAIN files : \A k \in DOMAIN files[j] : ToRead(j, k)' => ToRead(j, k)
    BY <1>f, <2>1 DEF ToRead
  <2>4. size' <= handle'.pos
    BY <1>r, <2>1, <2>2
  <2> QED BY <1>o, <2>1, <2>2, <2>3, <2>4, OrderKept
<1>11. CASE SendLine
  <2>1. /\ pc = "read" /\ buf' = Rest /\ sent' = Append(sent, Line) /\ UNCHANGED pc
        /\ UNCHANGED <<disk, handle, inode, size, mode, astray>>
    BY <1>11 DEF SendLine, Ready, Rest
  <2>2. mode # "none"
    BY <1>r, <2>1
  <2> QED BY <2>1, <2>2, OrderOfLines
<1> QED BY <1>3, <1>4, <1>5, <1>6, <1>7, <1>8, <1>9, <1>10, <1>11 DEF Follow

(* Nothing is sent twice or out of order, however often the log is rotated *)
(* and whatever line is read half written, unless inotify failed or stored *)
(* the inode of a file it left.                                            *)
THEOREM LinesAreSentOnceInOrder == PipelineSpec => []OnceInOrder
<1> DEFINE Inv == TailOK /\ DiskOrder /\ OrderInv
<1>1. PipelineInit => Inv
  <2> SUFFICES ASSUME Init PROVE Inv
    BY DEF PipelineInit
  <2>1. /\ DOMAIN files = {1} /\ DOMAIN files[1] = {} /\ sent = <<>> /\ buf = <<>>
        /\ DOMAIN sent = {} /\ DOMAIN buf = {} /\ mode = "none" /\ handle = None
    BY DEF Init
  <2>2. DiskOrder
    BY <2>1 DEF DiskOrder, InOrder
  <2>3. InOrder(sent) /\ \A n : Below(buf, sent, n)
    BY <2>1 DEF InOrder, Below
  <2>4. OrderInv
    BY <2>1, <2>3 DEF OrderInv
  <2> QED BY <2>2, <2>4, InitTailOK
<1>2. Inv /\ [PipelineNext]_allVars => Inv'
  <2> SUFFICES ASSUME Inv, [PipelineNext]_allVars PROVE Inv'
    OBVIOUS
  <2>1. (Start \/ Follow \/ SendLine) \/ Writer \/ UNCHANGED vars
    BY DEF PipelineNext, Send, Take, allVars
  <2>2. CASE Start \/ Follow \/ SendLine
    <3>1. UNCHANGED disk
      BY <2>2 DEF Start, Follow, SendLine, Wake, PollCheck, PollOpen, InotifyCheck, Fill,
                  FailLine, EndOfFile
    <3>2. DiskOrder'
      BY <3>1 DEF disk, DiskOrder, InOrder, Top
    <3> QED BY <2>2, <3>2, ReaderSteps, OrderSteps
  <2>3. CASE Writer
    <3>1. TailOK' /\ Grows /\ UNCHANGED <<mode, pc, reader, watched, sent, astray>>
      BY <2>3, WriterSteps
    <3>2. DiskOrder' /\ OrderInv'
      BY <3>1, DiskOrderGrows, OrderGrows DEF TailOK
    <3> QED BY <3>1, <3>2
  <2>4. CASE UNCHANGED vars
    <3>1. TailOK'
      BY <2>4 DEF TailOK, DiskOK, ReaderOK, vars, disk, reader, Top, Handles
    <3>2. DiskOrder'
      BY <2>4 DEF DiskOrder, InOrder, vars, disk, Top
    <3>3. OrderInv'
      BY <2>4 DEF OrderInv, InOrder, Below, ToRead, vars, disk, reader, Top
    <3> QED BY <3>1, <3>2, <3>3
  <2> QED BY <2>1, <2>2, <2>3, <2>4
<1>3. Inv => OnceInOrder
  BY DEF OrderInv, InOrder, OnceInOrder
<1> QED BY <1>1, <1>2, <1>3, PTL DEF PipelineSpec

(* A line that completes a failure is a match when the jail receives it,   *)
(* unless a line the filter may remember is to be ignored or the first of  *)
(* the pair completed a match: the buffer then holds all the filter needs. *)
THEOREM FailuresAreCounted == PipelineSpec => FailureCounted
<1> DEFINE Counted == (/\ taken' = taken + 1
                       /\ Failure(taken')
                       /\ \A k \in Remembered(taken') : ~HoldsOneOf(Ignorable, k))
                      => Len(matches') = Len(matches) + 1
<1>1. PipelineInv /\ [PipelineNext]_allVars => [Counted]_allVars
  <2> SUFFICES ASSUME PipelineInv, PipelineNext, taken' = taken + 1, Failure(taken + 1),
                      \A k \in Remembered(taken + 1) : ~HoldsOneOf(Ignorable, k)
               PROVE  Len(matches') = Len(matches) + 1
    OBVIOUS
  <2>1. /\ taken \in Nat /\ BufferOK /\ matches \in Seq(Match)
        /\ buffer = <<>> /\ taken > 0 => \E i \in DOMAIN matches : matches[i].at = taken
    BY DEF PipelineInv, JailOK, TailOK, ReaderOK
  <2>2. Take
    BY <2>1 DEF PipelineNext, jail, Send
  <2> DEFINE ls == Pushed(taken + 1)
             last == taken + 1
             n == Len(ls)
  <2>3. /\ ls \in Seq(Nat) /\ Len(ls) \in Nat /\ Len(ls) >= 1
        /\ Len(ls) <= Cap /\ Len(ls) <= taken + 1
        /\ \A i \in DOMAIN ls : ls[i] = taken + 1 - Len(ls) + i
        /\ Cap \in Nat /\ DOMAIN ls = 1..Len(ls)
    BY <2>1, PushedIs, CapIs DEF Window
  <2>4. ~Ignored(ls)
    <3> SUFFICES ASSUME NEW i \in DOMAIN ls PROVE ~HoldsOneOf(Ignorable, ls[i])
      BY DEF Ignored
    <3>1. ls[i] = taken + 1 - Len(ls) + i /\ i \in 1..Len(ls)
      BY <2>3
    <3> HIDE DEF ls
    <3>a. \A t, l, c, j \in Nat : 1 <= j /\ j <= l /\ l <= c /\ l <= t + 1
             => t + 1 - l + j \in 1..(t + 1) /\ t + 1 - (t + 1 - l + j) < c
      OBVIOUS
    <3>b. i \in Nat /\ 1 <= i /\ i <= Len(ls)
      BY <2>3, <3>1
    <3>c. /\ taken + 1 - Len(ls) + i \in 1..(taken + 1)
          /\ taken + 1 - (taken + 1 - Len(ls) + i) < Cap
      <4>1. Len(ls) \in Nat /\ Len(ls) <= Cap /\ Len(ls) <= taken + 1 /\ Cap \in Nat
            /\ taken \in Nat
        BY <2>1, <2>3
      <4> QED BY <3>a, <3>b, <4>1
    <3>2. ls[i] \in 1..(taken + 1) /\ taken + 1 - ls[i] < Cap
      BY <3>1, <3>c
    <3>d. taken \in Nat /\ Cap \in Nat
      BY <2>1, <2>3
    <3>3. ls[i] \in Remembered(taken + 1)
      BY <3>2, <3>d DEF Remembered
    <3> QED BY <3>3
  <2>5. n \in DOMAIN ls /\ ls[n] = last
    <3> HIDE DEF ls
    <3> QED BY <2>1, <2>3
  <2>6. Matched(ls) # {}
    <3>1. CASE HoldsOneOf(Failing, last)
      BY <2>4, <2>5, <3>1 DEF Matched, FailsAt
    <3>2. CASE ~HoldsOneOf(Failing, last)
      <4>1. /\ last > 1 /\ Cap > 1 /\ \A m \in Range(matches) : m.at # last - 1
            /\ \E p \in Pairs : Whole(last - 1, p) /\ Whole(last, p + 1)
        BY <3>2 DEF Failure
      <4>2. last - 1 = taken /\ taken > 0
        BY <2>1, <4>1
      <4>3. buffer # <<>>
        BY <2>1, <4>1, <4>2 DEF Range
      <4>4. n >= 2
        <5>1. buffer \in Seq(Nat) /\ Len(buffer) \in Nat /\ Len(buffer) <= Cap
          BY <2>1 DEF BufferOK
        <5>2. Len(buffer) >= 1
          BY <4>3, <5>1
        <5>3. CASE Len(buffer) >= Cap
          <6>1. Tail(buffer) \in Seq(Nat) /\ Len(Tail(buffer)) = Len(buffer) - 1
            BY <4>3, <5>1, HeadTailProperties
          <6>2. ls = Append(Tail(buffer), last)
            BY <5>3 DEF Pushed
          <6>3. Len(ls) = Len(buffer)
            BY <2>1, <5>1, <6>1, <6>2, AppendProperties
          <6> QED BY <2>3, <4>1, <5>1, <5>3, <6>3
        <5>4. CASE Len(buffer) < Cap
          <6>1. ls = Append(buffer, last)
            BY <2>3, <5>1, <5>4 DEF Pushed
          <6>2. Len(ls) = Len(buffer) + 1
            BY <2>1, <5>1, <6>1, AppendProperties
          <6> QED BY <5>1, <5>2, <6>2
        <5> QED BY <2>3, <5>1, <5>3, <5>4
      <4> HIDE DEF ls
      <4>5. n - 1 \in DOMAIN ls /\ n - 1 < Len(ls) /\ ls[n - 1] = last - 1 /\ n - 1 + 1 = n
        <5>1. n - 1 \in DOMAIN ls /\ n \in Nat /\ n - 1 < n /\ n - 1 + 1 = n
          BY <2>3, <4>4
        <5>2. ls[n - 1] = taken + 1 - n + (n - 1)
          BY <2>3, <5>1
        <5>3. taken + 1 - n + (n - 1) = taken
          BY <2>1, <5>1
        <5> QED BY <2>1, <5>1, <5>2, <5>3
      <4>6. \E p \in Pairs : Whole(ls[n - 1], p) /\ Whole(ls[n - 1 + 1], p + 1)
        BY <2>5, <4>1, <4>5
      <4>7. FailsAt(ls, n - 1)
        BY <4>5, <4>6 DEF FailsAt
      <4> QED BY <2>4, <4>5, <4>7 DEF Matched
    <3> QED BY <3>1, <3>2
  <2>7. \E m : matches' = Append(matches, m)
    BY <2>2, <2>6 DEF Take, ProcessBuffered
  <2>8. PICK m : matches' = Append(matches, m)
    BY <2>7
  <2> QED BY <2>1, <2>8
<1> QED BY <1>1, PipelineInvHolds, PTL DEF PipelineSpec, FailureCounted
=============================================================================
