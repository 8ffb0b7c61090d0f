--------------------------- MODULE CacheFileProofs ---------------------------
(***************************************************************************)
(* Proofs about the cache file of caching_parse: for any number of         *)
(* processes, any sources, chunks and blocks, kills and edits.             *)
(***************************************************************************)
EXTENDS CacheFile, SequenceTheorems, TLAPS

Trees == {NoTree} \cup {Read(bytes).v : bytes \in Seq(Int)}
PCs == Ended \cup {"reparse", "parsing", "copy", "magic", "read"}
ProcType == [pc : PCs, out : Seq(Int), buf : Seq(Int), pos : Nat, got : Seq(Int), tree : Trees,
             alone : BOOLEAN, intact : BOOLEAN]

TypeOK ==
  /\ source \in Sources
  /\ cache \in Seq(Int) /\ exists \in BOOLEAN /\ newer \in BOOLEAN
  /\ kills \in Nat /\ edits \in Nat
  /\ proc \in [Procs -> ProcType]

\* What the cache is to hold for the source there is now.
Goal == Complete(source)

\* What a process has still to write is the end of that.
WriterOK(p) ==
  /\ proc[p].pc = "parsing" => proc[p].pos = 0 /\ proc[p].buf = MAGIC_STRING
  /\ proc[p].pc = "copy" =>
       /\ source # SyntaxError
       /\ proc[p].pos + Len(proc[p].buf) + Len(proc[p].out) = Len(Goal)
       /\ \A i \in 1..Len(proc[p].buf) : proc[p].buf[i] = Goal[proc[p].pos + i]
       /\ \A i \in 1..Len(proc[p].out) :
            proc[p].out[i] = Goal[proc[p].pos + Len(proc[p].buf) + i]

\* What a process has read.
ReaderOK(p) ==
  proc[p].pc = "read" =>
    /\ source # SyntaxError
    /\ proc[p].pos = Len(proc[p].got) + 4
    /\ proc[p].pos <= Len(Goal)
    /\ \A i \in 1..Len(proc[p].got) : proc[p].got[i] \in {Goal[i + 4], 0}

\* A cache that is newer than the source has its bytes, with holes.
BytesOK ==
  newer => /\ source = SyntaxError => cache = <<>>
           /\ source # SyntaxError =>
                /\ Len(cache) <= Len(Goal)
                /\ \A i \in 1..Len(cache) : cache[i] \in {Goal[i], 0}

\* Only a process that is about to truncate the cache works with an old one.
NewerOK == \A p \in Procs : proc[p].pc \in PCs \ (Ended \cup {"reparse"}) => newer

\* A process that will write the byte at i.
WillWrite(p, i) == proc[p].pc = "parsing" \/ (proc[p].pc = "copy" /\ proc[p].pos < i)
Written(i) == i <= Len(cache) /\ cache[i] = Goal[i]

\* Every byte is there or will be written, as long as no process was killed.
Covered ==
  newer /\ kills = 0 /\ source # SyntaxError =>
    \A i \in 1..Len(Goal) : Written(i) \/ \E p \in Procs : WillWrite(p, i)

FileInv ==
  /\ TypeOK /\ BytesOK /\ NewerOK /\ Covered
  /\ \A p \in Procs : WriterOK(p) /\ ReaderOK(p)

------------------------------------------------------------------------------
(***************************************************************************)
(* Sequences.                                                              *)
(***************************************************************************)

\* What is written for a source begins with the magic string.
LEMMA GoalType ==
  ASSUME TypeOK, source # SyntaxError
  PROVE  /\ Goal \in Seq(Int) /\ Len(Goal) = 4 + Len(Bytes(source))
         /\ Bytes(source) \in Seq(Int)
         /\ \A i \in 1..4 : Goal[i] = MAGIC_STRING[i]
         /\ \A i \in 1..Len(Bytes(source)) : Goal[4 + i] = Bytes(source)[i]
  <1>1. Bytes(source) \in Seq(Int)
    BY CacheFileAssumption DEF TypeOK
  <1>2. MAGIC_STRING \in Seq(Int) /\ Len(MAGIC_STRING) = 4
    BY DEF MAGIC_STRING
  <1> HIDE DEF MAGIC_STRING
  <1>3. PICK a, b : a = MAGIC_STRING /\ b = Bytes(source)
    OBVIOUS
  <1>4. /\ a \o b \in Seq(Int) /\ Len(a \o b) = Len(a) + Len(b)
        /\ \A i \in 1..Len(a) + Len(b) : (a \o b)[i] = IF i <= Len(a) THEN a[i] ELSE b[i - Len(a)]
    BY <1>1, <1>2, <1>3, ConcatProperties
  <1>5. Goal = a \o b
    BY <1>3 DEF Goal, Complete
  <1>l. Len(a) = 4 /\ Len(b) \in Nat
    BY <1>1, <1>2, <1>3
  <1>6. \A i \in 1..Len(b) : (a \o b)[4 + i] = b[i]
    <2> SUFFICES ASSUME NEW i \in 1..Len(b) PROVE (a \o b)[4 + i] = b[i]
      OBVIOUS
    <2>1. 4 + i \in 1..Len(a) + Len(b) /\ ~ 4 + i <= Len(a) /\ (4 + i) - Len(a) = i
      BY <1>l
    <2> QED BY <1>4, <2>1
  <1>7. \A i \in 1..4 : (a \o b)[i] = a[i]
    <2> SUFFICES ASSUME NEW i \in 1..4 PROVE (a \o b)[i] = a[i]
      OBVIOUS
    <2>1. i \in 1..Len(a) + Len(b) /\ i <= Len(a)
      BY <1>l
    <2> QED BY <1>4, <2>1
  <1> QED BY <1>1, <1>3, <1>4, <1>5, <1>6, <1>7, <1>l

\* What lies between two places of a sequence.
LEMMA Part ==
  ASSUME NEW s \in Seq(Int), NEW a \in Nat, NEW b \in Nat, a <= b, b <= Len(s)
  PROVE  /\ SubSeq(s, a + 1, b) \in Seq(Int) /\ Len(SubSeq(s, a + 1, b)) = b - a
         /\ \A i \in 1..(b - a) : SubSeq(s, a + 1, b)[i] = s[a + i]
  <1>1. \A i \in (a + 1)..b : s[i] \in Int
    OBVIOUS
  <1>2. a + 1 \in Int /\ b \in Int
    OBVIOUS
  <1> QED BY <1>1, <1>2, SubSeqProperties

\* What is written at a place, and what stays.
LEMMA WriteAtProps ==
  ASSUME cache \in Seq(Int), NEW pos \in Nat, NEW bytes \in Seq(Int)
  PROVE  /\ WriteAt(pos, bytes) \in Seq(Int)
         /\ Len(WriteAt(pos, bytes)) >= Len(cache)
         /\ Len(WriteAt(pos, bytes)) >= pos + Len(bytes)
         /\ Len(WriteAt(pos, bytes)) = Len(cache) \/ Len(WriteAt(pos, bytes)) = pos + Len(bytes)
         /\ \A i \in 1..Len(WriteAt(pos, bytes)) :
              WriteAt(pos, bytes)[i] = IF i > pos /\ i <= pos + Len(bytes) THEN bytes[i - pos]
                                       ELSE IF i <= Len(cache) THEN cache[i] ELSE 0
  <1>1. PICK n : n = IF Len(cache) > pos + Len(bytes) THEN Len(cache) ELSE pos + Len(bytes)
    OBVIOUS
  <1>2. n \in Nat /\ n >= Len(cache) /\ n >= pos + Len(bytes) /\ (n = Len(cache) \/ n = pos + Len(bytes))
    BY <1>1
  <1>3. PICK w : w = [i \in 1..n |-> IF i > pos /\ i <= pos + Len(bytes) THEN bytes[i - pos]
                                     ELSE IF i <= Len(cache) THEN cache[i] ELSE 0]
    OBVIOUS
  <1>4. WriteAt(pos, bytes) = w
    BY <1>1, <1>3 DEF WriteAt
  <1>5. \A i \in 1..n : w[i] \in Int
    BY <1>2, <1>3
  <1>6. w \in Seq(Int) /\ Len(w) = n
    BY <1>2, <1>3, <1>5
  <1> QED BY <1>2, <1>3, <1>4, <1>6

\* The next block of the file.
LEMMA BlockProps ==
  ASSUME cache \in Seq(Int), NEW pos \in Nat
  PROVE  /\ Block(pos) \in Seq(Int)
         /\ pos + Len(Block(pos)) <= Len(cache) \/ Block(pos) = <<>>
         /\ \A i \in 1..Len(Block(pos)) : Block(pos)[i] = cache[pos + i]
         /\ pos < Len(cache) => Len(Block(pos)) = IF Len(cache) < pos + BLOCK THEN Len(cache) - pos ELSE BLOCK
         /\ pos >= Len(cache) => Block(pos) = <<>>
  <1>1. PICK b : b = IF Len(cache) < pos + BLOCK THEN Len(cache) ELSE pos + BLOCK
    OBVIOUS
  <1>2. b \in Nat /\ b <= Len(cache)
    BY <1>1, CacheFileAssumption
  <1>3. PICK blk : blk = Block(pos) /\ blk = SubSeq(cache, pos + 1, b)
    BY <1>1 DEF Block
  <1>4. CASE pos < Len(cache)
    <2>1. pos <= b
      BY <1>1, <1>4, CacheFileAssumption
    <2>2. /\ SubSeq(cache, pos + 1, b) \in Seq(Int) /\ Len(SubSeq(cache, pos + 1, b)) = b - pos
          /\ \A i \in 1..(b - pos) : SubSeq(cache, pos + 1, b)[i] = cache[pos + i]
      BY <1>2, <2>1, Part
    <2>3. b - pos = (IF Len(cache) < pos + BLOCK THEN Len(cache) - pos ELSE BLOCK)
      BY <1>1, CacheFileAssumption
    <2>4. /\ blk \in Seq(Int) /\ pos + Len(blk) <= Len(cache)
          /\ \A i \in 1..Len(blk) : blk[i] = cache[pos + i]
          /\ Len(blk) = IF Len(cache) < pos + BLOCK THEN Len(cache) - pos ELSE BLOCK
      BY <1>2, <1>3, <2>1, <2>2, <2>3
    <2> QED BY <1>3, <1>4, <2>4
  <1>5. CASE pos >= Len(cache)
    <2>1. b < pos + 1
      BY <1>2, <1>5
    <2>2. SubSeq(cache, pos + 1, b) = <<>>
      BY <1>2, <2>1
    <2>e. <<>> \in Seq(Int) /\ Len(<<>>) = 0
      OBVIOUS
    <2>3. blk = <<>> /\ blk \in Seq(Int) /\ Len(blk) = 0
      BY <1>3, <2>2, <2>e, Zenon
    <2>4. \A i \in 1..Len(blk) : FALSE
      BY <2>3
    <2> QED BY <1>3, <1>5, <2>3, <2>4
  <1> QED BY <1>4, <1>5


------------------------------------------------------------------------------
(***************************************************************************)
(* Steps that leave the file alone.                                        *)
(***************************************************************************)
SameWork(p) ==
  /\ proc'[p].pc = proc[p].pc /\ proc'[p].out = proc[p].out /\ proc'[p].buf = proc[p].buf
  /\ proc'[p].pos = proc[p].pos /\ proc'[p].got = proc[p].got

\* A process that does nothing is where it was.
LEMMA OthersOK ==
  ASSUME FileInv, UNCHANGED source, NEW p \in Procs, SameWork(p)
  PROVE  /\ WriterOK(p)' /\ ReaderOK(p)'
         /\ \A i : WillWrite(p, i) => WillWrite(p, i)'
         /\ proc'[p].pc \in PCs \ (Ended \cup {"reparse"}) => newer
  <1>1. Goal' = Goal
    BY DEF Goal, Complete
  <1>2. WriterOK(p) /\ ReaderOK(p) /\ NewerOK
    BY DEF FileInv
  <1>3. WriterOK(p)'
    BY <1>1, <1>2 DEF WriterOK, SameWork
  <1>4. ReaderOK(p)'
    BY <1>1, <1>2 DEF ReaderOK, SameWork
  <1> QED BY <1>2, <1>3, <1>4 DEF NewerOK, WillWrite, SameWork

\* A step of one process that leaves the file alone.
LEMMA QuietStep ==
  ASSUME FileInv, UNCHANGED <<source, cache, exists, newer, kills, edits>>, NEW p \in Procs,
         NEW r \in ProcType, Becomes(p, r),
         WriterOK(p)', ReaderOK(p)', r.pc \in PCs \ (Ended \cup {"reparse"}) => newer,
         \A i \in 1..Len(Goal) : WillWrite(p, i) => source = SyntaxError \/ WillWrite(p, i)'
  PROVE  FileInv'
  <1>1. TypeOK'
    BY DEF FileInv, TypeOK, Becomes
  <1>2. Goal' = Goal
    BY DEF Goal, Complete
  <1>3. proc'[p] = r /\ \A q \in Procs : q # p => proc'[q] = proc[q]
    BY DEF FileInv, TypeOK, Becomes
  <1>4. \A q \in Procs : q # p => SameWork(q)
    BY <1>3 DEF SameWork
  <1>5. \A q \in Procs : WriterOK(q)' /\ ReaderOK(q)'
    BY <1>4, OthersOK
  <1>6. NewerOK'
    <2> SUFFICES ASSUME NEW q \in Procs, proc'[q].pc \in PCs \ (Ended \cup {"reparse"}) PROVE newer'
      BY DEF NewerOK
    <2>1. CASE q = p
      BY <1>3, <2>1
    <2>2. CASE q # p
      BY <1>4, <2>2, OthersOK
    <2> QED BY <2>1, <2>2
  <1>7. BytesOK'
    BY <1>2 DEF FileInv, BytesOK
  <1>8. Covered'
    <2> SUFFICES ASSUME newer, kills = 0, source # SyntaxError, NEW i \in 1..Len(Goal)
                 PROVE  Written(i) \/ \E q \in Procs : WillWrite(q, i)'
      BY <1>2 DEF Covered, Written
    <2>1. Written(i) \/ \E q \in Procs : WillWrite(q, i)
      BY DEF FileInv, Covered
    <2>2. ASSUME NEW q \in Procs, WillWrite(q, i) PROVE WillWrite(q, i)'
      <3>1. CASE q = p
        BY <2>2, <3>1
      <3>2. CASE q # p
        BY <1>4, <2>2, <3>2, OthersOK
      <3> QED BY <3>1, <3>2
    <2> QED BY <2>1, <2>2
  <1> QED BY <1>1, <1>5, <1>6, <1>7, <1>8 DEF FileInv

\* The cache files that are there first.
LEMMA InitFile ==
  ASSUME Init
  PROVE  FileInv
  <1>1. Idle \in ProcType
    BY DEF Idle, ProcType, PCs, Ended, Trees
  <1>2. \A p \in Procs : proc[p] = Idle /\ proc[p].pc = "idle"
    BY DEF Init, Idle
  <1>3. TypeOK
    BY <1>1, EmptySeq DEF TypeOK, Init, Sources
  <1>4. \A p \in Procs : WriterOK(p) /\ ReaderOK(p)
    BY <1>2 DEF WriterOK, ReaderOK
  <1>5. NewerOK
    BY <1>2 DEF NewerOK, Ended
  <1> QED BY <1>3, <1>4, <1>5 DEF FileInv, BytesOK, Covered, Init

\* stat of both files: a cache older than the source will be replaced.
LEMMA CachingParseFile ==
  ASSUME FileInv, NEW p \in Procs, CachingParse(p)
  PROVE  FileInv'
  <1>1. UNCHANGED <<source, cache, exists, newer, kills, edits>> /\ proc[p].pc = "idle"
    BY DEF CachingParse
  <1>2. PICK a, b, c : /\ a = (IF Stale THEN "reparse" ELSE "magic") /\ b = (Active = {})
                       /\ c = (Stale \/ ~HasMagic(cache) \/ (source # SyntaxError /\ cache = Complete(source)))
    OBVIOUS
  <1>3. PICK r : r = [Idle EXCEPT !.pc = a, !.alone = b, !.intact = c]
    OBVIOUS
  <1>4. proc' = [q \in Procs |-> IF q = p THEN r ELSE [proc[q] EXCEPT !.alone = @ /\ q \notin Active]]
    BY <1>2, <1>3 DEF CachingParse
  <1>5. b \in BOOLEAN /\ c \in BOOLEAN /\ a \in {"reparse", "magic"}
    BY <1>2
  <1>6. r \in ProcType /\ r.pc = a
    <2>1. Idle \in ProcType
      BY EmptySeq DEF Idle, ProcType, PCs, Ended, Trees
    <2> QED BY <1>3, <1>5, <2>1 DEF ProcType, PCs
  <1>7. \A q \in Procs : q # p => SameWork(q) /\ proc'[q] \in ProcType
    <2> SUFFICES ASSUME NEW q \in Procs, q # p PROVE SameWork(q) /\ proc'[q] \in ProcType
      OBVIOUS
    <2>1. proc[q] \in ProcType
      BY DEF FileInv, TypeOK
    <2>2. PICK d : d = (proc[q].alone /\ q \notin Active) /\ d \in BOOLEAN
      OBVIOUS
    <2>3. proc'[q] = [proc[q] EXCEPT !.alone = d]
      BY <1>4, <2>2
    <2> QED BY <2>1, <2>2, <2>3 DEF SameWork, ProcType
  <1>8. proc'[p] = r
    BY <1>4
  <1>9. TypeOK'
    BY <1>1, <1>4, <1>6, <1>7 DEF FileInv, TypeOK
  <1>10. WriterOK(p)' /\ ReaderOK(p)'
    BY <1>5, <1>6, <1>8 DEF WriterOK, ReaderOK
  <1>11. \A q \in Procs : WriterOK(q)' /\ ReaderOK(q)'
    BY <1>1, <1>7, <1>10, OthersOK
  <1>12. NewerOK'
    <2> SUFFICES ASSUME NEW q \in Procs, proc'[q].pc \in PCs \ (Ended \cup {"reparse"}) PROVE newer
      BY <1>1 DEF NewerOK
    <2>1. CASE q = p
      BY <1>2, <1>6, <1>8, <2>1 DEF Stale
    <2>2. CASE q # p
      BY <1>1, <1>7, <2>2, OthersOK
    <2> QED BY <2>1, <2>2
  <1>13. Goal' = Goal
    BY <1>1 DEF Goal, Complete
  <1>14. BytesOK'
    BY <1>1, <1>13 DEF FileInv, BytesOK
  <1>15. Covered'
    <2> SUFFICES ASSUME newer, kills = 0, source # SyntaxError, NEW i \in 1..Len(Goal)
                 PROVE  Written(i) \/ \E q \in Procs : WillWrite(q, i)'
      BY <1>1, <1>13 DEF Covered, Written
    <2>1. Written(i) \/ \E q \in Procs : WillWrite(q, i)
      BY DEF FileInv, Covered
    <2>2. \A q \in Procs : WillWrite(q, i) => WillWrite(q, i)'
      BY <1>1, <1>7, OthersOK DEF WillWrite
    <2> QED BY <2>1, <2>2
  <1> QED BY <1>9, <1>11, <1>12, <1>14, <1>15 DEF FileInv


\* The exit code of parse_ast.py, or its output.
LEMMA RunParserFile ==
  ASSUME FileInv, NEW p \in Procs, RunParser(p)
  PROVE  FileInv'
  <1>1. UNCHANGED <<source, cache, exists, newer, kills, edits>> /\ proc[p].pc = "parsing"
    BY DEF RunParser
  <1>2. proc[p] \in ProcType /\ WriterOK(p) /\ NewerOK /\ TypeOK
    BY DEF FileInv, TypeOK
  <1>g. Goal' = Goal
    BY <1>1 DEF Goal, Complete
  <1>3. CASE source = SyntaxError
    <2>1. PICK r : r = [proc[p] EXCEPT !.pc = "aborted"] /\ Becomes(p, r)
      BY <1>3 DEF RunParser, Abort
    <2>2. r \in ProcType /\ r.pc = "aborted"
      BY <1>2, <2>1 DEF ProcType, PCs, Ended
    <2>3. proc'[p] = r
      BY <1>2, <2>1 DEF Becomes, TypeOK
    <2>4. WriterOK(p)' /\ ReaderOK(p)'
      BY <2>2, <2>3 DEF WriterOK, ReaderOK
    <2> QED BY <1>1, <1>3, <2>1, <2>2, <2>4, QuietStep DEF Ended
  <1>4. CASE source # SyntaxError
    <2>1. PICK r : r = [proc[p] EXCEPT !.pc = "copy", !.out = Bytes(source)] /\ Becomes(p, r)
      BY <1>4 DEF RunParser
    <2>2. /\ Goal \in Seq(Int) /\ Len(Goal) = 4 + Len(Bytes(source)) /\ Bytes(source) \in Seq(Int)
          /\ \A i \in 1..4 : Goal[i] = MAGIC_STRING[i]
          /\ \A i \in 1..Len(Bytes(source)) : Goal[4 + i] = Bytes(source)[i]
      BY <1>2, <1>4, GoalType
    <2>3. /\ r \in ProcType /\ r.pc = "copy" /\ r.out = Bytes(source)
          /\ r.buf = MAGIC_STRING /\ r.pos = 0
      BY <1>1, <1>2, <2>1, <2>2 DEF ProcType, PCs, WriterOK
    <2>4. proc'[p] = r
      BY <1>2, <2>1 DEF Becomes, TypeOK
    <2>5. Len(MAGIC_STRING) = 4
      BY DEF MAGIC_STRING
    <2>6. WriterOK(p)' /\ ReaderOK(p)'
      <3>a. r.pos + Len(r.buf) + Len(r.out) = Len(Goal)
        BY <2>2, <2>3, <2>5
      <3>b. \A i \in 1..Len(r.buf) : r.buf[i] = Goal[r.pos + i]
        <4>1. \A i \in 1..4 : r.pos + i = i
          BY <2>3
        <4>2. Len(r.buf) = 4
          BY <2>3, <2>5
        <4> QED BY <2>2, <2>3, <4>1, <4>2
      <3>c. \A i \in 1..Len(r.out) : r.out[i] = Goal[r.pos + Len(r.buf) + i]
        <4>1. r.pos + Len(r.buf) = 4
          BY <2>3, <2>5
        <4> QED BY <2>2, <2>3, <4>1
      <3>1. /\ r.pos + Len(r.buf) + Len(r.out) = Len(Goal)
            /\ \A i \in 1..Len(r.buf) : r.buf[i] = Goal[r.pos + i]
            /\ \A i \in 1..Len(r.out) : r.out[i] = Goal[r.pos + Len(r.buf) + i]
        BY <3>a, <3>b, <3>c
      <3> QED BY <1>1, <1>4, <1>g, <2>3, <2>4, <3>1 DEF WriterOK, ReaderOK
    <2>7. \A i \in 1..Len(Goal) : WillWrite(p, i)'
      BY <2>2, <2>3, <2>4 DEF WillWrite
    <2>8. newer
      BY <1>1, <1>2 DEF NewerOK, PCs, Ended
    <2> QED BY <1>1, <2>1, <2>3, <2>6, <2>7, <2>8, QuietStep
  <1> QED BY <1>3, <1>4

\* The first bytes of a cache file are the magic string, or there is none.
LEMMA ReadMagicFile ==
  ASSUME FileInv, NEW p \in Procs, ReadMagic(p)
  PROVE  FileInv'
  <1>1. UNCHANGED <<source, cache, exists, newer, kills, edits>> /\ proc[p].pc = "magic"
    BY DEF ReadMagic
  <1>2. proc[p] \in ProcType /\ NewerOK /\ TypeOK /\ BytesOK
    BY DEF FileInv, TypeOK
  <1>g. Goal' = Goal
    BY <1>1 DEF Goal, Complete
  <1>n. newer
    BY <1>1, <1>2 DEF NewerOK, PCs, Ended
  <1>3. PICK block : block = Block(0)
    OBVIOUS
  <1>4. /\ block \in Seq(Int) /\ Len(block) \in Nat
        /\ Len(block) <= Len(cache)
        /\ \A i \in 1..Len(block) : block[i] = cache[i]
    <2>1. /\ block \in Seq(Int)
          /\ 0 + Len(block) <= Len(cache) \/ block = <<>>
          /\ \A i \in 1..Len(block) : block[i] = cache[0 + i]
      BY <1>2, <1>3, BlockProps DEF TypeOK
    <2>2. \A i \in 1..Len(block) : 0 + i = i
      BY <2>1
    <2>3. Len(cache) \in Nat /\ Len(<<>>) = 0
      BY <1>2 DEF TypeOK
    <2>4. Len(block) \in Nat
      BY <2>1
    <2>5. Len(block) <= Len(cache)
      BY <2>1, <2>3, <2>4
    <2> QED BY <2>1, <2>2, <2>4, <2>5
  <1>5. CASE HasMagic(block)
    <2>1. PICK r : /\ r = [proc[p] EXCEPT !.pc = "read", !.pos = Len(block), !.got = SubSeq(block, 5, Len(block))]
                   /\ Becomes(p, r)
      BY <1>3, <1>5 DEF ReadMagic
    <2>2. Len(block) >= 4
      BY <1>5 DEF HasMagic
    <2>3. source # SyntaxError
      <3>1. cache # <<>>
        BY <1>2, <1>4, <2>2 DEF TypeOK
      <3> QED BY <1>2, <1>n, <3>1 DEF BytesOK
    <2>4. PICK got : got = SubSeq(block, 5, Len(block))
      OBVIOUS
    <2>5. got \in Seq(Int) /\ Len(got) = Len(block) - 4 /\ \A i \in 1..(Len(block) - 4) : got[i] = block[4 + i]
      <3>1. 4 \in Nat /\ Len(block) <= Len(block) /\ 4 + 1 = 5
        BY <1>4
      <3>2. /\ SubSeq(block, 4 + 1, Len(block)) \in Seq(Int)
            /\ Len(SubSeq(block, 4 + 1, Len(block))) = Len(block) - 4
            /\ \A i \in 1..(Len(block) - 4) : SubSeq(block, 4 + 1, Len(block))[i] = block[4 + i]
        BY <1>4, <2>2, <3>1, Part
      <3> QED BY <2>4, <3>1, <3>2
    <2>6. r \in ProcType /\ r.pc = "read" /\ r.pos = Len(block) /\ r.got = got
      BY <1>2, <1>4, <2>1, <2>4, <2>5 DEF ProcType, PCs
    <2>7. proc'[p] = r
      BY <1>2, <2>1 DEF Becomes, TypeOK
    <2>8. Len(block) <= Len(Goal) /\ \A i \in 1..Len(block) : block[i] \in {Goal[i], 0}
      <3>1. /\ Goal \in Seq(Int) /\ Len(cache) <= Len(Goal)
            /\ \A i \in 1..Len(cache) : cache[i] \in {Goal[i], 0}
        BY <1>2, <1>n, <2>3, GoalType DEF BytesOK
      <3>2. Len(cache) \in Nat /\ Len(block) \in Nat /\ Len(Goal) \in Nat
        BY <1>2, <1>4, <3>1, LenProperties DEF TypeOK
      <3>3. Len(block) <= Len(cache)
        BY <1>4, <3>2
      <3>4. \A i \in 1..Len(block) : i \in 1..Len(cache) /\ block[i] = cache[i]
        BY <1>4, <3>2, <3>3
      <3> QED BY <3>1, <3>2, <3>3, <3>4
    <2>9. ReaderOK(p)'
      <3>1. r.pos = Len(r.got) + 4
        BY <1>4, <2>5, <2>6
      <3>2. \A i \in 1..Len(r.got) : r.got[i] \in {Goal[i + 4], 0}
        <4> SUFFICES ASSUME NEW i \in 1..Len(r.got) PROVE r.got[i] \in {Goal[i + 4], 0}
          OBVIOUS
        <4>1. i \in 1..(Len(block) - 4) /\ 4 + i = i + 4 /\ i + 4 \in 1..Len(block)
          BY <1>4, <2>2, <2>5, <2>6
        <4>2. r.got[i] = block[i + 4]
          BY <2>5, <2>6, <4>1
        <4> QED BY <2>8, <4>1, <4>2
      <3> QED BY <1>1, <1>g, <2>3, <2>6, <2>7, <2>8, <3>1, <3>2 DEF ReaderOK
    <2>10. WriterOK(p)' /\ \A i : ~ WillWrite(p, i)
      BY <1>1, <2>6, <2>7 DEF WriterOK, WillWrite
    <2> QED BY <1>1, <1>n, <2>1, <2>6, <2>9, <2>10, QuietStep
  <1>6. CASE ~ HasMagic(block)
    <2>1. PICK r : r = [proc[p] EXCEPT !.pc = "reparse"] /\ Becomes(p, r)
      BY <1>3, <1>6 DEF ReadMagic
    <2>2. r \in ProcType /\ r.pc = "reparse"
      BY <1>2, <2>1 DEF ProcType, PCs
    <2>3. proc'[p] = r
      BY <1>2, <2>1 DEF Becomes, TypeOK
    <2>4. WriterOK(p)' /\ ReaderOK(p)' /\ \A i : ~ WillWrite(p, i)
      BY <1>1, <2>2, <2>3 DEF WriterOK, ReaderOK, WillWrite
    <2> QED BY <1>1, <2>1, <2>2, <2>4, QuietStep
  <1> QED BY <1>5, <1>6

\* An assertion fails.
LEMMA AbortFile ==
  ASSUME FileInv, NEW p \in Procs, Abort(p), proc[p].pc = "read",
         UNCHANGED <<source, cache, exists, newer, kills, edits>>
  PROVE  FileInv'
  <1>2. proc[p] \in ProcType /\ TypeOK
    BY DEF FileInv, TypeOK
  <1>3. PICK r : r = [proc[p] EXCEPT !.pc = "aborted"] /\ Becomes(p, r)
    BY DEF Abort
  <1>4. r \in ProcType /\ r.pc = "aborted"
    BY <1>2, <1>3 DEF ProcType, PCs, Ended
  <1>5. proc'[p] = r
    BY <1>2, <1>3 DEF Becomes, TypeOK
  <1>6. WriterOK(p)' /\ ReaderOK(p)' /\ \A i : ~ WillWrite(p, i)
    BY <1>4, <1>5 DEF WriterOK, ReaderOK, WillWrite
  <1> QED BY <1>3, <1>4, <1>6, QuietStep DEF Ended

\* The next block is read.
LEMMA FillFile ==
  ASSUME FileInv, NEW p \in Procs, Fill(p)
  PROVE  FileInv'
  <1>1. UNCHANGED <<source, cache, exists, newer, kills, edits>> /\ proc[p].pc = "read"
    BY DEF Fill
  <1>2. proc[p] \in ProcType /\ NewerOK /\ TypeOK /\ BytesOK /\ ReaderOK(p)
    BY DEF FileInv, TypeOK
  <1>g. Goal' = Goal
    BY <1>1 DEF Goal, Complete
  <1>n. newer
    BY <1>1, <1>2 DEF NewerOK, PCs, Ended
  <1>3. CASE Block(proc[p].pos) = <<>>
    BY <1>1, <1>3, AbortFile DEF Fill
  <1>4. CASE Block(proc[p].pos) # <<>>
    <2>1. PICK block, pos, old : block = Block(pos) /\ pos = proc[p].pos /\ old = proc[p].got
      OBVIOUS
    <2>2. PICK r : r = [proc[p] EXCEPT !.got = old \o block, !.pos = pos + Len(block)] /\ Becomes(p, r)
      BY <1>4, <2>1 DEF Fill
    <2>3. pos \in Nat /\ old \in Seq(Int)
      BY <1>2, <2>1 DEF ProcType
    <2>4. /\ block \in Seq(Int) /\ Len(block) \in Nat /\ pos + Len(block) <= Len(cache)
          /\ \A i \in 1..Len(block) : block[i] = cache[pos + i]
      <3>1. /\ block \in Seq(Int)
            /\ pos + Len(block) <= Len(cache) \/ block = <<>>
            /\ \A i \in 1..Len(block) : block[i] = cache[pos + i]
        BY <1>2, <2>1, <2>3, BlockProps DEF TypeOK
      <3>2. block # <<>>
        BY <1>4, <2>1
      <3>3. Len(block) \in Nat
        BY <3>1
      <3> QED BY <3>1, <3>2, <3>3
    <2>5. /\ old \o block \in Seq(Int) /\ Len(old \o block) = Len(old) + Len(block)
          /\ \A i \in 1..Len(old) + Len(block) :
               (old \o block)[i] = IF i <= Len(old) THEN old[i] ELSE block[i - Len(old)]
      BY <2>3, <2>4, ConcatProperties
    <2>6. r \in ProcType /\ r.pc = "read" /\ r.pos = pos + Len(block) /\ r.got = old \o block
      <3>1. pos + Len(block) \in Nat
        BY <2>3, <2>4
      <3>2. PICK n, g : n = pos + Len(block) /\ g = old \o block
        OBVIOUS
      <3>3. n \in Nat /\ g \in Seq(Int) /\ r = [proc[p] EXCEPT !.got = g, !.pos = n]
        BY <2>2, <2>5, <3>1, <3>2
      <3>4. r \in ProcType /\ r.pc = "read" /\ r.pos = n /\ r.got = g
        BY <1>1, <1>2, <3>3 DEF ProcType
      <3> QED BY <3>2, <3>4
    <2>7. proc'[p] = r
      BY <1>2, <2>2 DEF Becomes, TypeOK
    <2>8. /\ source # SyntaxError /\ pos = Len(old) + 4
          /\ \A i \in 1..Len(old) : old[i] \in {Goal[i + 4], 0}
      BY <1>1, <1>2, <2>1 DEF ReaderOK
    <2>9. /\ Goal \in Seq(Int) /\ cache \in Seq(Int) /\ Len(cache) <= Len(Goal)
          /\ \A i \in 1..Len(cache) : cache[i] \in {Goal[i], 0}
      BY <1>2, <1>n, <2>8, GoalType DEF BytesOK, TypeOK
    <2>10. \A i \in 1..Len(old) + Len(block) : (old \o block)[i] \in {Goal[i + 4], 0}
      <3> SUFFICES ASSUME NEW i \in 1..Len(old) + Len(block) PROVE (old \o block)[i] \in {Goal[i + 4], 0}
        OBVIOUS
      <3>1. CASE i <= Len(old)
        BY <2>3, <2>5, <2>8, <3>1
      <3>2. CASE i > Len(old)
        <4>1. PICK j : j = i - Len(old) /\ j \in 1..Len(block) /\ pos + j = i + 4 /\ pos + j \in 1..Len(cache)
          <5>1. Len(old) \in Nat /\ Len(cache) \in Nat
            BY <2>3, <2>9
          <5> QED BY <2>3, <2>4, <2>8, <3>2, <5>1
        <4>2. (old \o block)[i] = block[j]
          BY <2>3, <2>4, <2>5, <3>2, <4>1
        <4>3. block[j] = cache[pos + j] /\ cache[pos + j] \in {Goal[pos + j], 0}
          BY <2>4, <2>9, <4>1
        <4> QED BY <4>1, <4>2, <4>3
      <3> QED BY <2>3, <3>1, <3>2
    <2>11. ReaderOK(p)'
      <3>1. r.pos = Len(r.got) + 4 /\ r.pos <= Len(Goal)
        BY <2>3, <2>4, <2>5, <2>6, <2>8, <2>9
      <3> QED BY <1>1, <1>g, <2>5, <2>6, <2>7, <2>8, <2>10, <3>1 DEF ReaderOK
    <2>12. WriterOK(p)' /\ \A i : ~ WillWrite(p, i)
      BY <1>1, <2>6, <2>7 DEF WriterOK, WillWrite
    <2> QED BY <1>1, <1>n, <2>2, <2>6, <2>11, <2>12, QuietStep
  <1> QED BY <1>3, <1>4

\* caching_parse returns.
LEMMA FinishFile ==
  ASSUME FileInv, NEW p \in Procs, Finish(p)
  PROVE  FileInv'
  <1>1. UNCHANGED <<source, cache, exists, newer, kills, edits>> /\ proc[p].pc = "read"
    BY DEF Finish
  <1>2. proc[p] \in ProcType /\ TypeOK
    BY DEF FileInv, TypeOK
  <1>3. CASE Abort(p)
    BY <1>1, <1>3, AbortFile
  <1>4. CASE Becomes(p, [proc[p] EXCEPT !.pc = "done", !.tree = Read(proc[p].got).v, !.got = <<>>])
    <2>1. PICK r : r = [proc[p] EXCEPT !.pc = "done", !.tree = Read(proc[p].got).v, !.got = <<>>] /\ Becomes(p, r)
      BY <1>4
    <2>2. Read(proc[p].got).v \in Trees /\ <<>> \in Seq(Int)
      BY <1>2 DEF ProcType, Trees
    <2>3. r \in ProcType /\ r.pc = "done"
      BY <1>2, <2>1, <2>2 DEF ProcType, PCs, Ended
    <2>4. proc'[p] = r
      BY <1>2, <2>1 DEF Becomes, TypeOK
    <2>5. WriterOK(p)' /\ ReaderOK(p)' /\ \A i : ~ WillWrite(p, i)
      BY <1>1, <2>3, <2>4 DEF WriterOK, ReaderOK, WillWrite
    <2> QED BY <1>1, <2>1, <2>3, <2>5, QuietStep DEF Ended
  <1> QED BY <1>3, <1>4 DEF Finish


------------------------------------------------------------------------------
(***************************************************************************)
(* Steps that write the file.                                              *)
(***************************************************************************)

\* A step of one process that writes the file, and loses nothing that was there.
LEMMA WriteStep ==
  ASSUME FileInv, UNCHANGED <<source, exists, kills, edits>>, cache' \in Seq(Int), newer' = TRUE,
         NEW p \in Procs, NEW r \in ProcType, Becomes(p, r),
         WriterOK(p)', ReaderOK(p)', BytesOK',
         \A i \in 1..Len(Goal) : Written(i) => Written(i)',
         \A i \in 1..Len(Goal) : WillWrite(p, i) => Written(i)' \/ WillWrite(p, i)',
         newer
  PROVE  FileInv'
  <1>1. TypeOK'
    BY DEF FileInv, TypeOK, Becomes
  <1>2. Goal' = Goal
    BY DEF Goal, Complete
  <1>3. proc'[p] = r /\ \A q \in Procs : q # p => proc'[q] = proc[q]
    BY DEF FileInv, TypeOK, Becomes
  <1>4. \A q \in Procs : q # p => SameWork(q)
    BY <1>3 DEF SameWork
  <1>5. \A q \in Procs : WriterOK(q)' /\ ReaderOK(q)'
    BY <1>4, OthersOK
  <1>6. NewerOK'
    BY DEF NewerOK
  <1>8. Covered'
    <2> SUFFICES ASSUME kills = 0, source # SyntaxError, NEW i \in 1..Len(Goal)
                 PROVE  Written(i)' \/ \E q \in Procs : WillWrite(q, i)'
      BY <1>2 DEF Covered
    <2>1. Written(i) \/ \E q \in Procs : WillWrite(q, i)
      BY DEF FileInv, Covered
    <2>2. ASSUME NEW q \in Procs, WillWrite(q, i) PROVE Written(i)' \/ WillWrite(q, i)'
      <3>1. CASE q = p
        BY <2>2, <3>1
      <3>2. CASE q # p
        BY <1>4, <2>2, <3>2, OthersOK
      <3> QED BY <3>1, <3>2
    <2> QED BY <2>1, <2>2
  <1> QED BY <1>1, <1>5, <1>6, <1>8 DEF FileInv

\* Right bytes written at their place.
LEMMA RightBytes ==
  ASSUME FileInv, newer, newer', source # SyntaxError, UNCHANGED source,
         NEW pos \in Nat, NEW bytes \in Seq(Int), pos + Len(bytes) <= Len(Goal),
         \A i \in 1..Len(bytes) : bytes[i] = Goal[pos + i],
         cache' = WriteAt(pos, bytes)
  PROVE  /\ cache' \in Seq(Int) /\ BytesOK'
         /\ \A i \in 1..Len(Goal) : Written(i) => Written(i)'
         /\ \A i \in 1..Len(Goal) : pos < i /\ i <= pos + Len(bytes) => Written(i)'
  <1>1. cache \in Seq(Int) /\ Goal \in Seq(Int) /\ Goal' = Goal
    BY GoalType DEF FileInv, TypeOK, Goal, Complete
  <1>2. Len(cache) <= Len(Goal) /\ \A i \in 1..Len(cache) : cache[i] \in {Goal[i], 0}
    BY DEF FileInv, BytesOK
  <1>3. PICK n, c, g, b : n = Len(cache') /\ c = Len(cache) /\ g = Len(Goal) /\ b = Len(bytes)
    OBVIOUS
  <1>4. /\ cache' \in Seq(Int) /\ n >= c /\ n >= pos + b /\ (n = c \/ n = pos + b)
        /\ \A i \in 1..n : cache'[i] = IF i > pos /\ i <= pos + b THEN bytes[i - pos]
                                       ELSE IF i <= c THEN cache[i] ELSE 0
    BY <1>1, <1>3, WriteAtProps
  <1>5. n \in Nat /\ c \in Nat /\ g \in Nat /\ b \in Nat /\ c <= g /\ pos + b <= g /\ n <= g
    BY <1>1, <1>2, <1>3, <1>4
  <1>6. \A i \in 1..n : i > pos /\ i <= pos + b => cache'[i] = Goal[i]
    <2> SUFFICES ASSUME NEW i \in 1..n, i > pos, i <= pos + b PROVE cache'[i] = Goal[i]
      OBVIOUS
    <2>1. PICK j : j = i - pos /\ j \in 1..b /\ pos + j = i
      BY <1>5
    <2>2. bytes[j] = Goal[i]
      BY <1>3, <2>1
    <2> QED BY <1>4, <2>1, <2>2
  <1>7. \A i \in 1..n : ~(i > pos /\ i <= pos + b) => cache'[i] = IF i <= c THEN cache[i] ELSE 0
    BY <1>4
  <1>8. \A i \in 1..n : cache'[i] \in {Goal[i], 0}
    BY <1>2, <1>3, <1>5, <1>6, <1>7
  <1>9. BytesOK'
    BY <1>1, <1>3, <1>5, <1>8 DEF BytesOK
  <1>10. ASSUME NEW i \in 1..g, Written(i) PROVE Written(i)'
    <2>1. i \in 1..c /\ i \in 1..n /\ cache[i] = Goal[i]
      BY <1>3, <1>4, <1>5, <1>10 DEF Written
    <2>2. cache'[i] = Goal[i]
      BY <1>6, <1>7, <2>1
    <2> QED BY <1>1, <1>3, <2>1, <2>2 DEF Written
  <1>11. ASSUME NEW i \in 1..g, pos < i, i <= pos + b PROVE Written(i)'
    <2>1. i \in 1..n
      BY <1>4, <1>5, <1>11
    <2> QED BY <1>1, <1>3, <1>6, <1>11, <2>1 DEF Written
  <1> QED BY <1>3, <1>4, <1>9, <1>10, <1>11

\* The cache is truncated: what was there will be written again.
LEMMA ReparseFile ==
  ASSUME FileInv, NEW p \in Procs, Reparse(p)
  PROVE  FileInv'
  <1>1. /\ UNCHANGED <<source, kills, edits>> /\ proc[p].pc = "reparse"
        /\ cache' = <<>> /\ exists' = TRUE /\ newer' = TRUE
    BY DEF Reparse
  <1>2. proc[p] \in ProcType /\ TypeOK
    BY DEF FileInv, TypeOK
  <1>3. PICK r : r = [proc[p] EXCEPT !.pc = "parsing", !.buf = MAGIC_STRING, !.pos = 0] /\ Becomes(p, r)
    BY DEF Reparse
  <1>4. MAGIC_STRING \in Seq(Int)
    BY DEF MAGIC_STRING
  <1>5. r \in ProcType /\ r.pc = "parsing" /\ r.buf = MAGIC_STRING /\ r.pos = 0
    BY <1>2, <1>3, <1>4 DEF ProcType, PCs
  <1>6. proc'[p] = r /\ \A q \in Procs : q # p => proc'[q] = proc[q]
    BY <1>2, <1>3 DEF TypeOK, Becomes
  <1>7. \A q \in Procs : q # p => SameWork(q)
    BY <1>6 DEF SameWork
  <1>8. WriterOK(p)' /\ ReaderOK(p)'
    BY <1>5, <1>6 DEF WriterOK, ReaderOK
  <1>9. \A q \in Procs : WriterOK(q)' /\ ReaderOK(q)'
    BY <1>1, <1>7, <1>8, OthersOK
  <1>10. TypeOK'
    BY <1>1, <1>2, <1>3, <1>5, EmptySeq DEF TypeOK, Becomes
  <1>11. NewerOK'
    BY <1>1 DEF NewerOK
  <1>12. BytesOK'
    <2>1. Goal' = Goal /\ Len(<<>>) = 0
      BY <1>1 DEF Goal, Complete
    <2>2. CASE source # SyntaxError
      <3>1. Len(Goal) \in Nat
        BY <1>2, <2>2, GoalType
      <3> QED BY <1>1, <2>1, <2>2, <3>1 DEF BytesOK
    <2>3. CASE source = SyntaxError
      BY <1>1, <2>3 DEF BytesOK
    <2> QED BY <2>2, <2>3
  <1>13. Covered'
    BY <1>5, <1>6 DEF Covered, WillWrite
  <1> QED BY <1>9, <1>10, <1>11, <1>12, <1>13 DEF FileInv

\* The file holds what the process has written, and nothing else.
Prefix(p) == Len(cache) = proc[p].pos /\ \A i \in 1..Len(cache) : cache[i] = Goal[i]

\* The last bytes are written: a file that no other process touched is complete.
LEMMA CloseCacheFile ==
  ASSUME FileInv, NEW p \in Procs, CloseCache(p)
  PROVE  FileInv' /\ (Prefix(p) => cache' = Goal)
  <1>1. /\ UNCHANGED <<source, exists, kills, edits>> /\ proc[p].pc = "copy"
        /\ proc[p].out = <<>> /\ newer' = TRUE
    BY DEF CloseCache
  <1>2. proc[p] \in ProcType /\ TypeOK /\ NewerOK /\ WriterOK(p)
    BY DEF FileInv, TypeOK
  <1>n. newer
    BY <1>1, <1>2 DEF NewerOK, PCs, Ended
  <1>3. PICK pos, bytes : pos = proc[p].pos /\ bytes = proc[p].buf
    OBVIOUS
  <1>4. /\ source # SyntaxError /\ pos \in Nat /\ bytes \in Seq(Int)
        /\ pos + Len(bytes) = Len(Goal)
        /\ \A i \in 1..Len(bytes) : bytes[i] = Goal[pos + i]
    <2>1. /\ source # SyntaxError /\ pos \in Nat /\ bytes \in Seq(Int)
          /\ pos + Len(bytes) + Len(<<>>) = Len(Goal)
          /\ \A i \in 1..Len(bytes) : bytes[i] = Goal[pos + i]
      BY <1>1, <1>2, <1>3 DEF WriterOK, ProcType
    <2>2. Len(<<>>) = 0
      OBVIOUS
    <2> QED BY <2>1, <2>2
  <1>5. PICK r : r = [proc[p] EXCEPT !.pc = "magic", !.buf = <<>>] /\ Becomes(p, r)
    BY DEF CloseCache
  <1>6. r \in ProcType /\ r.pc = "magic"
    BY <1>2, <1>5, EmptySeq DEF ProcType, PCs
  <1>7. proc'[p] = r
    BY <1>2, <1>5 DEF TypeOK, Becomes
  <1>8. WriterOK(p)' /\ ReaderOK(p)'
    BY <1>6, <1>7 DEF WriterOK, ReaderOK
  <1>9. /\ cache' \in Seq(Int) /\ BytesOK'
        /\ \A i \in 1..Len(Goal) : Written(i) => Written(i)'
        /\ \A i \in 1..Len(Goal) : pos < i /\ i <= pos + Len(bytes) => Written(i)'
    <2>1. CASE bytes = <<>>
      <3>1. cache' = cache /\ Goal' = Goal
        BY <1>1, <1>3, <2>1 DEF CloseCache, Goal, Complete
      <3>2. Len(<<>>) = 0 /\ Len(Goal) = pos
        BY <1>4, <2>1
      <3>3. BytesOK'
        BY <1>1, <1>n, <3>1 DEF BytesOK, FileInv
      <3>4. \A i \in 1..Len(Goal) : ~(pos < i)
        BY <1>4, <3>2
      <3> QED BY <1>2, <3>1, <3>3, <3>4 DEF TypeOK, Written
    <2>2. CASE bytes # <<>>
      <3>1. cache' = WriteAt(pos, bytes)
        BY <1>3, <2>2 DEF CloseCache
      <3>2. pos + Len(bytes) <= Len(Goal)
        BY <1>4
      <3> QED BY <1>1, <1>4, <1>n, <3>1, <3>2, RightBytes
    <2> QED BY <2>1, <2>2
  <1>10. \A i \in 1..Len(Goal) : WillWrite(p, i) => Written(i)'
    <2>1. \A i \in 1..Len(Goal) : WillWrite(p, i) => pos < i
      BY <1>1, <1>3 DEF WillWrite
    <2>2. \A i \in 1..Len(Goal) : i <= pos + Len(bytes)
      BY <1>4
    <2> QED BY <1>9, <2>1, <2>2
  <1>11. ASSUME Prefix(p) PROVE cache' = Goal
    <2>1. PICK c, g : c = Len(cache) /\ g = Len(Goal)
      OBVIOUS
    <2>2. /\ cache \in Seq(Int) /\ Goal \in Seq(Int) /\ Goal' = Goal /\ c \in Nat /\ g \in Nat /\ c = pos
          /\ pos + Len(bytes) = g
      BY <1>1, <1>2, <1>3, <1>4, <1>11, <2>1, GoalType DEF TypeOK, Prefix, Goal, Complete
    <2>3. \A i \in 1..g : Written(i)'
      <3> SUFFICES ASSUME NEW i \in 1..g PROVE Written(i)'
        OBVIOUS
      <3>1. CASE i <= pos
        <4>1. i \in 1..c
          BY <2>2, <3>1
        <4>2. Written(i)
          BY <1>11, <2>1, <2>2, <4>1 DEF Prefix, Written
        <4> QED BY <1>9, <2>1, <4>2
      <3>2. CASE ~(i <= pos)
        <4>1. pos < i /\ i <= pos + Len(bytes)
          BY <1>4, <2>2, <3>2
        <4> QED BY <1>9, <2>1, <4>1
      <3> QED BY <3>1, <3>2
    <2>4. Len(cache') <= g
      BY <1>1, <1>4, <1>9, <2>1, <2>2 DEF BytesOK
    <2>5. Len(cache') = g
      <3>1. CASE g = 0
        BY <1>9, <2>2, <2>4, <3>1
      <3>2. CASE g # 0
        <4>1. g \in 1..g
          BY <2>2, <3>2
        <4>2. g <= Len(cache')
          BY <2>3, <4>1 DEF Written
        <4> QED BY <1>9, <2>2, <2>4, <4>2
      <3> QED BY <3>1, <3>2
    <2>6. \A i \in 1..g : cache'[i] = Goal[i]
      BY <2>2, <2>3 DEF Written
    <2> QED BY <1>9, <2>1, <2>2, <2>5, <2>6, SeqEqual
  <1> QED BY <1>1, <1>5, <1>6, <1>8, <1>9, <1>10, <1>11, <1>n, WriteStep


\* What is still to be written, from pos on: the buffer, then the parser's output.
Ahead(goal, pos, buf, out) ==
  /\ pos + Len(buf) + Len(out) = Len(goal)
  /\ \A i \in 1..Len(buf) : buf[i] = goal[pos + i]
  /\ \A i \in 1..Len(out) : out[i] = goal[pos + Len(buf) + i]

\* The first bytes of a sequence.
LEMMA Beginning ==
  ASSUME NEW s \in Seq(Int), NEW n \in Nat, n <= Len(s)
  PROVE  /\ SubSeq(s, 1, n) \in Seq(Int) /\ Len(SubSeq(s, 1, n)) = n
         /\ \A i \in 1..n : SubSeq(s, 1, n)[i] = s[i]
  <1>1. \A i \in 1..n : s[i] \in Int
    OBVIOUS
  <1>2. 1 \in Int /\ n \in Int
    OBVIOUS
  <1>3. PICK t : t = SubSeq(s, 1, n)
    OBVIOUS
  <1>4. /\ t \in Seq(Int) /\ Len(t) = IF 1 <= n THEN n - 1 + 1 ELSE 0
        /\ \A i \in 1..n - 1 + 1 : t[i] = s[1 + i - 1]
    BY <1>1, <1>2, <1>3, SubSeqProperties
  <1>5. Len(t) = n /\ \A i \in 1..n : i \in 1..n - 1 + 1 /\ 1 + i - 1 = i
    BY <1>4
  <1> QED BY <1>3, <1>4, <1>5

\* Some bytes go from the parser's output to the buffer.
LEMMA ToBuffer ==
  ASSUME NEW goal \in Seq(Int), NEW pos \in Nat, NEW old \in Seq(Int), NEW out \in Seq(Int),
         Ahead(goal, pos, old, out), NEW n \in Nat, n <= Len(out)
  PROVE  /\ old \o SubSeq(out, 1, n) \in Seq(Int) /\ SubSeq(out, n + 1, Len(out)) \in Seq(Int)
         /\ Ahead(goal, pos, old \o SubSeq(out, 1, n), SubSeq(out, n + 1, Len(out)))
  <1>1. PICK chunk, left, a, b : /\ chunk = SubSeq(out, 1, n) /\ left = SubSeq(out, n + 1, Len(out))
                                 /\ a = Len(old) /\ b = Len(out)
    OBVIOUS
  <1>2. a \in Nat /\ b \in Nat /\ n <= b
    BY <1>1
  <1>3. chunk \in Seq(Int) /\ Len(chunk) = n /\ \A i \in 1..n : chunk[i] = out[i]
    BY <1>1, Beginning
  <1>4. left \in Seq(Int) /\ Len(left) = b - n /\ \A i \in 1..(b - n) : left[i] = out[n + i]
    <2>1. left = SubSeq(out, n + 1, b) /\ b <= Len(out)
      BY <1>1, <1>2
    <2>2. /\ SubSeq(out, n + 1, b) \in Seq(Int) /\ Len(SubSeq(out, n + 1, b)) = b - n
          /\ \A i \in 1..(b - n) : SubSeq(out, n + 1, b)[i] = out[n + i]
      BY <1>2, <2>1, Part
    <2> QED BY <2>1, <2>2
  <1>5. PICK buf : buf = old \o chunk
    OBVIOUS
  <1>6. /\ buf \in Seq(Int) /\ Len(buf) = a + n
        /\ \A i \in 1..a + n : buf[i] = IF i <= a THEN old[i] ELSE chunk[i - a]
    BY <1>1, <1>3, <1>5, ConcatProperties
  <1>7. /\ pos + a + b = Len(goal)
        /\ \A i \in 1..a : old[i] = goal[pos + i]
        /\ \A i \in 1..b : out[i] = goal[pos + a + i]
    BY <1>1 DEF Ahead
  <1>8. \A i \in 1..a + n : buf[i] = goal[pos + i]
    <2> SUFFICES ASSUME NEW i \in 1..a + n PROVE buf[i] = goal[pos + i]
      OBVIOUS
    <2>1. CASE i <= a
      <3>1. i \in 1..a
        BY <1>2, <2>1
      <3> QED BY <1>6, <1>7, <2>1, <3>1
    <2>2. CASE ~(i <= a)
      <3>1. PICK j : j = i - a /\ j \in 1..n /\ j \in 1..b /\ pos + a + j = pos + i
        BY <1>2, <2>2
      <3>2. buf[i] = chunk[j]
        BY <1>6, <2>2, <3>1
      <3>3. chunk[j] = out[j] /\ out[j] = goal[pos + a + j]
        BY <1>3, <1>7, <3>1
      <3> QED BY <3>1, <3>2, <3>3
    <2> QED BY <2>1, <2>2
  <1>9. \A i \in 1..(b - n) : left[i] = goal[pos + (a + n) + i]
    <2> SUFFICES ASSUME NEW i \in 1..(b - n) PROVE left[i] = goal[pos + (a + n) + i]
      OBVIOUS
    <2>1. PICK j : j = n + i /\ j \in 1..b /\ pos + a + j = pos + (a + n) + i
      BY <1>2
    <2> QED BY <1>4, <1>7, <2>1
  <1>10. pos + (a + n) + (b - n) = Len(goal)
    <2>1. pos + (a + n) + (b - n) = pos + a + b
      BY <1>2
    <2> QED BY <1>7, <2>1
  <1>11. Ahead(goal, pos, buf, left)
    BY <1>4, <1>6, <1>8, <1>9, <1>10 DEF Ahead
  <1> QED BY <1>1, <1>4, <1>5, <1>6, <1>11

\* Some bytes go from the buffer to the file.
LEMMA ToFile ==
  ASSUME NEW goal \in Seq(Int), NEW pos \in Nat, NEW buf \in Seq(Int), NEW out \in Seq(Int),
         Ahead(goal, pos, buf, out), NEW full \in Nat, full <= Len(buf)
  PROVE  /\ SubSeq(buf, 1, full) \in Seq(Int) /\ SubSeq(buf, full + 1, Len(buf)) \in Seq(Int)
         /\ Len(SubSeq(buf, 1, full)) = full /\ pos + full <= Len(goal)
         /\ \A i \in 1..full : SubSeq(buf, 1, full)[i] = goal[pos + i]
         /\ Ahead(goal, pos + full, SubSeq(buf, full + 1, Len(buf)), out)
  <1>1. PICK bytes, rest, a, b : /\ bytes = SubSeq(buf, 1, full) /\ rest = SubSeq(buf, full + 1, Len(buf))
                                 /\ a = Len(buf) /\ b = Len(out)
    OBVIOUS
  <1>2. a \in Nat /\ b \in Nat /\ full <= a
    BY <1>1
  <1>3. bytes \in Seq(Int) /\ Len(bytes) = full /\ \A i \in 1..full : bytes[i] = buf[i]
    BY <1>1, Beginning
  <1>4. rest \in Seq(Int) /\ Len(rest) = a - full /\ \A i \in 1..(a - full) : rest[i] = buf[full + i]
    BY <1>1, <1>2, Part
  <1>5. /\ pos + a + b = Len(goal)
        /\ \A i \in 1..a : buf[i] = goal[pos + i]
        /\ \A i \in 1..b : out[i] = goal[pos + a + i]
    BY <1>1 DEF Ahead
  <1>6. \A i \in 1..full : bytes[i] = goal[pos + i]
    <2>1. \A i \in 1..full : i \in 1..a
      BY <1>2
    <2> QED BY <1>3, <1>5, <2>1
  <1>7. \A i \in 1..(a - full) : rest[i] = goal[(pos + full) + i]
    <2> SUFFICES ASSUME NEW i \in 1..(a - full) PROVE rest[i] = goal[(pos + full) + i]
      OBVIOUS
    <2>1. PICK j : j = full + i /\ j \in 1..a /\ pos + j = (pos + full) + i
      BY <1>2
    <2> QED BY <1>4, <1>5, <2>1
  <1>8. \A i \in 1..b : out[i] = goal[(pos + full) + (a - full) + i]
    <2>1. \A i \in 1..b : pos + a + i = (pos + full) + (a - full) + i
      BY <1>2
    <2> QED BY <1>5, <2>1
  <1>9. (pos + full) + (a - full) + b = Len(goal) /\ pos + full <= Len(goal)
    <2>1. (pos + full) + (a - full) + b = pos + a + b /\ pos + full <= pos + a + b
      BY <1>2
    <2> QED BY <1>5, <2>1
  <1>10. Ahead(goal, pos + full, rest, out)
    BY <1>1, <1>4, <1>7, <1>8, <1>9 DEF Ahead
  <1> QED BY <1>1, <1>3, <1>4, <1>6, <1>9, <1>10

\* A chunk goes to the buffer, and full blocks to the file.
LEMMA CopyChunkFile ==
  ASSUME FileInv, NEW p \in Procs, CopyChunk(p)
  PROVE  FileInv' /\ (Prefix(p) => Prefix(p)')
  <1>1. UNCHANGED <<source, exists, kills, edits>> /\ proc[p].pc = "copy"
    BY DEF CopyChunk
  <1>2. proc[p] \in ProcType /\ TypeOK /\ NewerOK /\ WriterOK(p)
    BY DEF FileInv, TypeOK
  <1>n. newer
    BY <1>1, <1>2 DEF NewerOK, PCs, Ended
  <1>3. PICK pos, old, out : pos = proc[p].pos /\ old = proc[p].buf /\ out = proc[p].out
    OBVIOUS
  <1>4. /\ source # SyntaxError /\ pos \in Nat /\ old \in Seq(Int) /\ out \in Seq(Int)
        /\ pos + Len(old) + Len(out) = Len(Goal)
        /\ \A i \in 1..Len(old) : old[i] = Goal[pos + i]
        /\ \A i \in 1..Len(out) : out[i] = Goal[pos + Len(old) + i]
    BY <1>1, <1>2, <1>3 DEF WriterOK, ProcType
  <1>5. PICK n : n = IF Len(out) < CHUNK THEN Len(out) ELSE CHUNK
    OBVIOUS
  <1>6. PICK buf : buf = old \o SubSeq(out, 1, n)
    OBVIOUS
  <1>7. PICK full : full = IF Len(buf) < BLOCK THEN 0 ELSE Len(buf) - (Len(buf) % BLOCK)
    OBVIOUS
  <1>8. PICK rest, left, bytes : /\ rest = SubSeq(buf, full + 1, Len(buf))
                                 /\ left = SubSeq(out, n + 1, Len(out))
                                 /\ bytes = SubSeq(buf, 1, full)
    OBVIOUS
  <1>9. PICK r : r = [proc[p] EXCEPT !.out = left, !.buf = rest, !.pos = pos + full] /\ Becomes(p, r)
    BY <1>3, <1>5, <1>6, <1>7, <1>8 DEF CopyChunk
  <1>10. /\ cache' = IF full = 0 THEN cache ELSE WriteAt(pos, bytes)
         /\ newer' = (newer \/ full # 0)
    BY <1>3, <1>5, <1>6, <1>7, <1>8 DEF CopyChunk
  <1>11. n \in Nat /\ n <= Len(out)
    BY <1>4, <1>5, CacheFileAssumption
  <1>12. buf \in Seq(Int)
    <2>1. 0 + 1 = 1 /\ 0 <= n
      BY <1>11
    <2>2. SubSeq(out, 0 + 1, n) \in Seq(Int)
      BY <1>4, <1>11, <2>1, Part
    <2> QED BY <1>4, <1>6, <2>1, <2>2, ConcatProperties
  <1>13. full \in Nat /\ full <= Len(buf)
    <2>1. Len(buf) \in Nat /\ BLOCK \in Nat \ {0}
      BY <1>12, CacheFileAssumption
    <2>2. Len(buf) % BLOCK \in 0..(BLOCK - 1)
      BY <2>1
    <2> QED BY <1>7, <2>1, <2>2
  <1>14. Goal \in Seq(Int) /\ Goal' = Goal
    BY <1>1, <1>2, <1>4, GoalType DEF Goal, Complete
  <1>15. /\ rest \in Seq(Int) /\ left \in Seq(Int) /\ bytes \in Seq(Int)
         /\ Len(bytes) = full /\ pos + full <= Len(Goal)
         /\ \A i \in 1..Len(bytes) : bytes[i] = Goal[pos + i]
         /\ (pos + full) + Len(rest) + Len(left) = Len(Goal)
         /\ \A i \in 1..Len(rest) : rest[i] = Goal[(pos + full) + i]
         /\ \A i \in 1..Len(left) : left[i] = Goal[(pos + full) + Len(rest) + i]
    <2>1. Ahead(Goal, pos, old, out)
      BY <1>4 DEF Ahead
    <2>2. left \in Seq(Int) /\ Ahead(Goal, pos, buf, left)
      BY <1>4, <1>6, <1>8, <1>11, <1>14, <2>1, ToBuffer
    <2>3. /\ bytes \in Seq(Int) /\ rest \in Seq(Int) /\ Len(bytes) = full /\ pos + full <= Len(Goal)
          /\ \A i \in 1..full : bytes[i] = Goal[pos + i]
          /\ Ahead(Goal, pos + full, rest, left)
      <3>1. /\ SubSeq(buf, 1, full) \in Seq(Int) /\ SubSeq(buf, full + 1, Len(buf)) \in Seq(Int)
            /\ Len(SubSeq(buf, 1, full)) = full /\ pos + full <= Len(Goal)
            /\ \A i \in 1..full : SubSeq(buf, 1, full)[i] = Goal[pos + i]
            /\ Ahead(Goal, pos + full, SubSeq(buf, full + 1, Len(buf)), left)
        BY <1>4, <1>12, <1>13, <1>14, <2>2, ToFile
      <3> QED BY <1>8, <3>1
    <2> QED BY <2>2, <2>3 DEF Ahead
  <1>16. /\ r \in ProcType /\ r.pc = "copy" /\ r.out = left /\ r.buf = rest /\ r.pos = pos + full
    <2>1. PICK m : m = pos + full /\ m \in Nat
      BY <1>4, <1>13
    <2>2. r = [proc[p] EXCEPT !.out = left, !.buf = rest, !.pos = m]
      BY <1>9, <2>1
    <2>3. r \in ProcType /\ r.pc = "copy" /\ r.out = left /\ r.buf = rest /\ r.pos = m
      BY <1>1, <1>2, <1>15, <2>1, <2>2 DEF ProcType
    <2> QED BY <2>1, <2>3
  <1>17. proc'[p] = r
    BY <1>2, <1>9 DEF TypeOK, Becomes
  <1>18. WriterOK(p)' /\ ReaderOK(p)'
    BY <1>1, <1>4, <1>14, <1>15, <1>16, <1>17 DEF WriterOK, ReaderOK
  <1>19. newer' = TRUE
    BY <1>2, <1>10, <1>n
  <1>20. /\ cache' \in Seq(Int) /\ BytesOK'
         /\ \A i \in 1..Len(Goal) : Written(i) => Written(i)'
         /\ \A i \in 1..Len(Goal) : pos < i /\ i <= pos + full => Written(i)'
    <2>1. CASE full = 0
      <3>1. cache' = cache
        BY <1>10, <2>1
      <3>2. BytesOK'
        BY <1>1, <1>14, <1>n, <3>1 DEF BytesOK, FileInv
      <3>3. \A i \in 1..Len(Goal) : ~(pos < i /\ i <= pos + full)
        BY <1>4, <2>1
      <3> QED BY <1>2, <1>14, <3>1, <3>2, <3>3 DEF TypeOK, Written
    <2>2. CASE full # 0
      <3>1. cache' = WriteAt(pos, bytes) /\ pos + Len(bytes) <= Len(Goal)
        BY <1>10, <1>15, <2>2
      <3>2. /\ cache' \in Seq(Int) /\ BytesOK'
            /\ \A i \in 1..Len(Goal) : Written(i) => Written(i)'
            /\ \A i \in 1..Len(Goal) : pos < i /\ i <= pos + Len(bytes) => Written(i)'
        BY <1>1, <1>4, <1>15, <1>19, <1>n, <3>1, RightBytes
      <3> QED BY <1>15, <3>2
    <2> QED BY <2>1, <2>2
  <1>21. \A i \in 1..Len(Goal) : WillWrite(p, i) => Written(i)' \/ WillWrite(p, i)'
    <2> SUFFICES ASSUME NEW i \in 1..Len(Goal), WillWrite(p, i) PROVE Written(i)' \/ WillWrite(p, i)'
      OBVIOUS
    <2>1. pos < i
      BY <1>1, <1>3 DEF WillWrite
    <2>2. CASE i <= pos + full
      BY <1>20, <2>1, <2>2
    <2>3. CASE ~(i <= pos + full)
      <3>1. pos + full < i
        BY <1>4, <1>13, <1>14, <2>3
      <3> QED BY <1>16, <1>17, <3>1 DEF WillWrite
    <2> QED BY <2>2, <2>3
  <1>22. ASSUME Prefix(p) PROVE Prefix(p)'
    <2>1. CASE full = 0
      <3>1. cache' = cache /\ r.pos = pos
        BY <1>4, <1>10, <1>16, <2>1
      <3> QED BY <1>3, <1>14, <1>17, <1>22, <3>1 DEF Prefix
    <2>2. CASE full # 0
      <3>1. PICK c, d, g : c = Len(cache) /\ d = Len(cache') /\ g = Len(Goal)
        OBVIOUS
      <3>2. cache \in Seq(Int) /\ c \in Nat /\ g \in Nat /\ c = pos
        BY <1>2, <1>3, <1>14, <1>22, <3>1 DEF TypeOK, Prefix
      <3>3. cache' = WriteAt(pos, bytes)
        BY <1>10, <2>2
      <3>4. d \in Nat /\ d >= pos + full /\ (d = c \/ d = pos + full)
        <4>1. PICK w : w = WriteAt(pos, bytes)
          OBVIOUS
        <4>2. w \in Seq(Int) /\ Len(w) >= pos + Len(bytes) /\ (Len(w) = Len(cache) \/ Len(w) = pos + Len(bytes))
          BY <1>4, <1>15, <3>2, <4>1, WriteAtProps
        <4>3. w = cache'
          BY <3>3, <4>1
        <4>4. d = Len(w) /\ Len(w) \in Nat
          BY <3>1, <4>2, <4>3
        <4> QED BY <1>15, <3>1, <4>2, <4>4
      <3>5. d = pos + full /\ d <= g
        BY <1>4, <1>13, <1>15, <3>1, <3>2, <3>4
      <3>6. ASSUME NEW i \in 1..d PROVE Written(i)'
        <4>1. i \in 1..g
          BY <3>2, <3>5, <3>4
        <4>2. CASE i <= pos
          <5>1. i \in 1..c
            BY <3>2, <4>2
          <5>2. Written(i)
            BY <1>22, <3>1, <3>2, <5>1 DEF Prefix, Written
          <5> QED BY <1>20, <3>1, <4>1, <5>2
        <4>3. CASE ~(i <= pos)
          <5>1. pos < i /\ i <= pos + full
            BY <1>4, <3>4, <3>5, <4>3
          <5> QED BY <1>20, <3>1, <4>1, <5>1
        <4> QED BY <4>2, <4>3
      <3> QED BY <1>14, <1>16, <1>17, <3>1, <3>5, <3>6 DEF Prefix, Written
    <2> QED BY <2>1, <2>2
  <1> QED BY <1>1, <1>9, <1>16, <1>18, <1>19, <1>20, <1>21, <1>22, <1>n, WriteStep


------------------------------------------------------------------------------
(***************************************************************************)
(* Kills and edits, and the invariant of the file.                         *)
(***************************************************************************)

\* A killed process leaves what it has flushed.
LEMMA KillFile ==
  ASSUME FileInv, NEW p \in Procs, Kill(p)
  PROVE  FileInv'
  <1>1. UNCHANGED <<source, cache, exists, newer, edits>> /\ kills' = kills + 1
    BY DEF Kill
  <1>2. proc[p] \in ProcType /\ TypeOK
    BY DEF FileInv, TypeOK
  <1>3. PICK r : /\ r = [proc[p] EXCEPT !.pc = "killed", !.buf = <<>>, !.out = <<>>, !.got = <<>>]
                 /\ Becomes(p, r)
    BY DEF Kill
  <1>4. r \in ProcType /\ r.pc = "killed"
    BY <1>2, <1>3, EmptySeq DEF ProcType, PCs, Ended
  <1>5. proc'[p] = r /\ \A q \in Procs : q # p => proc'[q] = proc[q]
    BY <1>2, <1>3 DEF TypeOK, Becomes
  <1>6. \A q \in Procs : q # p => SameWork(q)
    BY <1>5 DEF SameWork
  <1>7. WriterOK(p)' /\ ReaderOK(p)'
    BY <1>4, <1>5 DEF WriterOK, ReaderOK
  <1>8. \A q \in Procs : WriterOK(q)' /\ ReaderOK(q)'
    BY <1>1, <1>6, <1>7, OthersOK
  <1>9. TypeOK'
    BY <1>1, <1>2, <1>3, <1>4 DEF TypeOK, Becomes
  <1>10. NewerOK'
    <2> SUFFICES ASSUME NEW q \in Procs, proc'[q].pc \in PCs \ (Ended \cup {"reparse"}) PROVE newer
      BY <1>1 DEF NewerOK
    <2>1. q # p
      BY <1>4, <1>5 DEF Ended
    <2> QED BY <1>1, <1>6, <2>1, OthersOK
  <1>11. BytesOK'
    BY <1>1 DEF FileInv, BytesOK, Goal, Complete
  <1>12. Covered'
    BY <1>1, <1>2 DEF Covered, TypeOK
  <1> QED BY <1>8, <1>9, <1>10, <1>11, <1>12 DEF FileInv

\* The cache is old now.
LEMMA EditFile ==
  ASSUME FileInv, Edit
  PROVE  /\ FileInv' /\ \A p \in Procs : proc'[p].pc = "idle"
  <1>1. /\ UNCHANGED <<cache, exists, kills>> /\ edits' = edits + 1 /\ newer' = FALSE /\ source' \in Raced
        /\ proc' = [p \in Procs |-> [proc[p] EXCEPT !.pc = "idle", !.tree = NoTree, !.got = <<>>]]
    BY DEF Edit
  <1>2. TypeOK
    BY DEF FileInv
  <1>3. ASSUME NEW p \in Procs PROVE proc'[p] \in ProcType /\ proc'[p].pc = "idle"
    <2>1. proc[p] \in ProcType /\ NoTree \in Trees
      BY <1>2 DEF TypeOK, Trees
    <2>2. proc'[p] = [proc[p] EXCEPT !.pc = "idle", !.tree = NoTree, !.got = <<>>]
      BY <1>1
    <2>e. <<>> \in Seq(Int)
      OBVIOUS
    <2>3. PICK e : e = <<>> /\ e \in Seq(Int)
      BY <2>e, Zenon
    <2>4. proc'[p] = [proc[p] EXCEPT !.pc = "idle", !.tree = NoTree, !.got = e]
      BY <2>2, <2>3
    <2>5. PICK t : t = NoTree /\ t \in Trees
      BY <2>1
    <2>6. proc'[p] = [proc[p] EXCEPT !.pc = "idle", !.tree = t, !.got = e]
      BY <2>4, <2>5
    <2> QED BY <2>1, <2>3, <2>5, <2>6 DEF ProcType, PCs, Ended
  <1>4. TypeOK'
    <2>a. edits + 1 \in Nat
      BY <1>2 DEF TypeOK
    <2>1. edits' \in Nat /\ source' \in Sources
      BY <1>1, <2>a DEF Sources
    <2>2. PICK f : f = proc'
      OBVIOUS
    <2>3. f = [p \in Procs |-> f[p]]
      BY <1>1, <2>2
    <2>4. f \in [Procs -> ProcType]
      BY <1>3, <2>2, <2>3
    <2> QED BY <1>1, <1>2, <2>1, <2>2, <2>4 DEF TypeOK
  <1>5. \A p \in Procs : WriterOK(p)' /\ ReaderOK(p)'
    BY <1>3 DEF WriterOK, ReaderOK
  <1>6. NewerOK'
    BY <1>3 DEF NewerOK, Ended
  <1> QED BY <1>1, <1>3, <1>4, <1>5, <1>6 DEF FileInv, BytesOK, Covered

\* Every step keeps the invariant of the file.
LEMMA NextFile ==
  ASSUME FileInv, [Next]_vars
  PROVE  FileInv'
  <1>1. CASE UNCHANGED vars
    BY <1>1 DEF vars, FileInv, TypeOK, BytesOK, NewerOK, Covered, WriterOK, ReaderOK, WillWrite, Written, Goal, Complete
  <1>2. CASE Edit
    BY <1>2, EditFile
  <1>3. ASSUME NEW p \in Procs, CachingParse(p) \/ Step(p) \/ Kill(p) PROVE FileInv'
    BY <1>3, CachingParseFile, ReparseFile, RunParserFile, CopyChunkFile, CloseCacheFile,
       ReadMagicFile, FillFile, FinishFile, KillFile DEF Step
  <1> QED BY <1>1, <1>2, <1>3 DEF Next

\* In every state the cache has the bytes of the source, with holes that are covered.
LEMMA FileAlways == Spec => []FileInv
  <1>1. Init => FileInv
    BY InitFile
  <1>2. FileInv /\ [Next]_vars => FileInv'
    BY NextFile
  <1> QED BY <1>1, <1>2, PTL DEF Spec

(***************************************************************************)
(* Processes that parse at the same time repair what they do to each       *)
(* other's cache: when none was killed and all have ended it is complete,  *)
(* for any number of processes, any source, chunk and block.               *)
(***************************************************************************)
THEOREM CacheIsCompleteAgain == Spec => []CacheSettles
  <1>1. FileInv => CacheSettles
    <2> SUFFICES ASSUME FileInv, Active = {}, kills = 0, newer, source # SyntaxError
                 PROVE  cache = Goal
      BY DEF CacheSettles, Goal
    <2>1. \A p \in Procs, i \in 1..Len(Goal) : ~ WillWrite(p, i)
      BY DEF Active, Ended, WillWrite
    <2>2. cache \in Seq(Int) /\ Goal \in Seq(Int)
      BY GoalType DEF FileInv, TypeOK
    <2>3. \A i \in 1..Len(Goal) : i <= Len(cache) /\ cache[i] = Goal[i]
      BY <2>1 DEF FileInv, Covered, Written
    <2>4. Len(cache) <= Len(Goal)
      BY DEF FileInv, BytesOK
    <2>c. PICK c, g : c = Len(cache) /\ g = Len(Goal)
      OBVIOUS
    <2>5. c = Len(cache) /\ g = Len(Goal) /\ c \in Nat /\ g \in Nat
      BY <2>2, <2>c
    <2>6. c = g
      <3>1. CASE g = 0
        BY <2>4, <2>5, <3>1
      <3>2. CASE g # 0
        <4>1. g \in 1..g
          BY <2>5, <3>2
        <4>2. g <= c
          BY <2>3, <2>5, <4>1
        <4> QED BY <2>4, <2>5, <4>2
      <3> QED BY <3>1, <3>2
    <2> QED BY <2>2, <2>3, <2>5, <2>6, SeqEqual
  <1> QED BY <1>1, FileAlways, PTL

(***************************************************************************)
(* What is read from the cache is never of an earlier source, nor out of   *)
(* place: each byte is the source's, or a zero not yet written.            *)
(***************************************************************************)
THEOREM NoForeignBytes == Spec => []ReadsSourceOrHoles
  <1>1. FileInv => ReadsSourceOrHoles
    <2> SUFFICES ASSUME FileInv, NEW p \in Procs, proc[p].pc = "read"
                 PROVE  /\ source # SyntaxError
                        /\ \A i \in 1..Len(proc[p].got) :
                             i <= Len(Bytes(source)) /\ proc[p].got[i] \in {Bytes(source)[i], 0}
      BY DEF ReadsSourceOrHoles
    <2>1. PICK got, n, b : got = proc[p].got /\ n = Len(got) /\ b = Len(Bytes(source))
      OBVIOUS
    <2>2. /\ source # SyntaxError /\ n + 4 <= Len(Goal)
          /\ \A i \in 1..n : got[i] \in {Goal[i + 4], 0}
      BY <2>1 DEF FileInv, ReaderOK
    <2>3. /\ Len(Goal) = 4 + b /\ b \in Nat
          /\ \A i \in 1..b : Goal[4 + i] = Bytes(source)[i]
      BY <2>1, <2>2, GoalType DEF FileInv
    <2>4. n \in Nat
      BY <2>1 DEF FileInv, TypeOK, ProcType
    <2>5. \A i \in 1..n : i \in 1..b /\ 4 + i = i + 4
      BY <2>2, <2>3, <2>4
    <2> QED BY <2>1, <2>2, <2>3, <2>4, <2>5
  <1> QED BY <1>1, FileAlways, PTL

------------------------------------------------------------------------------
(***************************************************************************)
(* A process that runs alone.                                              *)
(***************************************************************************)

\* What it has read is the beginning of a complete file.
ReadOwn(p) ==
  /\ cache = Goal
  /\ \A i \in 1..Len(proc[p].got) : proc[p].got[i] = Goal[i + 4]

\* Where such a process can be, if the cache was complete or is replaced.
SoloOK(p) ==
  proc[p].alone /\ proc[p].intact /\ source # SyntaxError =>
    /\ proc[p].pc = "parsing" => cache = <<>>
    /\ proc[p].pc = "copy" => Prefix(p)
    /\ proc[p].pc = "magic" => cache = Goal \/ ~HasMagic(cache)
    /\ proc[p].pc = "read" => ReadOwn(p)
    /\ proc[p].pc # "aborted"
    /\ proc[p].pc = "done" => proc[p].tree = Meaning(source)

\* A process is alone until another one starts.
AloneOK(p) == proc[p].alone /\ p \in Active => Active = {p}
DoneOK(p) == proc[p].pc = "done" => source # SyntaxError
AloneInv == FileInv /\ \A p \in Procs : SoloOK(p) /\ AloneOK(p) /\ DoneOK(p)

\* A process that did nothing, while another one took a step.
LEMMA OtherSolo ==
  ASSUME AloneInv, NEW p \in Procs, UNCHANGED source, SameWork(p),
         proc'[p].tree = proc[p].tree, proc'[p].intact = proc[p].intact,
         proc'[p].alone => proc[p].alone /\ proc[p].pc \in Ended
  PROVE  SoloOK(p)' /\ DoneOK(p)'
  <1>1. SoloOK(p) /\ DoneOK(p)
    BY DEF AloneInv
  <1>2. DoneOK(p)'
    BY <1>1 DEF DoneOK, SameWork
  <1>3. SoloOK(p)'
    <2> SUFFICES ASSUME proc'[p].alone, proc'[p].intact, source # SyntaxError
                 PROVE  /\ proc[p].pc \in Ended /\ proc[p].pc # "aborted"
                        /\ proc[p].pc = "done" => proc[p].tree = Meaning(source)
      BY DEF SoloOK, SameWork, Ended
    <2> QED BY <1>1 DEF SoloOK
  <1> QED BY <1>2, <1>3

\* A step of a process that was running.
LEMMA OwnSolo ==
  ASSUME AloneInv, FileInv', NEW p \in Procs, UNCHANGED source, p \in Active,
         NEW r, Becomes(p, r), r.alone = proc[p].alone, SoloOK(p)', DoneOK(p)'
  PROVE  AloneInv'
  <1>1. proc'[p] = r /\ \A q \in Procs : q # p => proc'[q] = proc[q]
    BY DEF AloneInv, FileInv, TypeOK, Becomes
  <1>2. ASSUME NEW q \in Procs, q # p PROVE SoloOK(q)' /\ DoneOK(q)' /\ AloneOK(q)'
    <2>1. proc'[q] = proc[q] /\ SameWork(q)
      BY <1>1, <1>2 DEF SameWork
    <2>2. proc[q].alone => q \notin Active
      <3>1. AloneOK(q)
        BY DEF AloneInv
      <3> QED BY <1>2, <3>1 DEF AloneOK
    <2>3. proc[q].alone => proc[q].pc \in Ended
      BY <2>2 DEF Active
    <2>4. AloneOK(q)'
      BY <2>1, <2>3 DEF AloneOK, Active
    <2> QED BY <2>1, <2>3, <2>4, OtherSolo
  <1>3. AloneOK(p)'
    <2>1. AloneOK(p)
      BY DEF AloneInv
    <2>2. \A q \in Procs : q # p /\ q \in Active' => q \in Active
      BY <1>1 DEF Active
    <2>3. Active' \subseteq Procs
      BY DEF Active
    <2> QED BY <1>1, <2>1, <2>2, <2>3 DEF AloneOK
  <1> QED BY <1>2, <1>3 DEF AloneInv

\* The first states.
LEMMA InitAlone ==
  ASSUME Init
  PROVE  AloneInv
  <1>1. FileInv
    BY InitFile
  <1>2. \A p \in Procs : proc[p].pc = "idle"
    BY DEF Init, Idle
  <1> QED BY <1>1, <1>2 DEF AloneInv, SoloOK, AloneOK, DoneOK, Active, Ended

\* A process begins, and the others are not alone any more.
LEMMA CachingParseAlone ==
  ASSUME AloneInv, NEW p \in Procs, CachingParse(p)
  PROVE  AloneInv'
  <1>1. UNCHANGED <<source, cache, exists, newer, kills, edits>> /\ proc[p].pc = "idle" /\ FileInv'
    BY CachingParseFile DEF CachingParse, AloneInv
  <1>2. PICK a, b, c : /\ a = (IF Stale THEN "reparse" ELSE "magic") /\ b = (Active = {})
                       /\ c = (Stale \/ ~HasMagic(cache) \/ (source # SyntaxError /\ cache = Complete(source)))
    OBVIOUS
  <1>3. PICK r : r = [Idle EXCEPT !.pc = a, !.alone = b, !.intact = c]
    OBVIOUS
  <1>4. proc' = [q \in Procs |-> IF q = p THEN r ELSE [proc[q] EXCEPT !.alone = @ /\ q \notin Active]]
    BY <1>2, <1>3 DEF CachingParse
  <1>5. proc'[p] = r /\ r.pc = a /\ r.alone = b /\ r.intact = c
    BY <1>3, <1>4 DEF Idle
  <1>6. \A q \in Procs : q # p => /\ SameWork(q) /\ proc'[q].tree = proc[q].tree /\ proc'[q].intact = proc[q].intact
                                  /\ proc'[q].alone = (proc[q].alone /\ q \notin Active)
    <2> SUFFICES ASSUME NEW q \in Procs, q # p
                 PROVE  /\ SameWork(q) /\ proc'[q].tree = proc[q].tree /\ proc'[q].intact = proc[q].intact
                        /\ proc'[q].alone = (proc[q].alone /\ q \notin Active)
      OBVIOUS
    <2>1. proc[q] \in ProcType
      BY DEF AloneInv, FileInv, TypeOK
    <2>2. PICK d : d = (proc[q].alone /\ q \notin Active) /\ d \in BOOLEAN
      OBVIOUS
    <2>3. proc'[q] = [proc[q] EXCEPT !.alone = d]
      BY <1>4, <2>2
    <2> QED BY <2>1, <2>2, <2>3 DEF SameWork, ProcType
  <1>7. \A q \in Procs : q # p => SoloOK(q)' /\ DoneOK(q)' /\ AloneOK(q)'
    <2> SUFFICES ASSUME NEW q \in Procs, q # p PROVE SoloOK(q)' /\ DoneOK(q)' /\ AloneOK(q)'
      OBVIOUS
    <2>1. proc'[q].alone => proc[q].alone /\ proc[q].pc \in Ended
      BY <1>6 DEF Active
    <2>2. AloneOK(q)'
      BY <1>6, <2>1 DEF AloneOK, Active, SameWork
    <2> QED BY <1>1, <1>6, <2>1, <2>2, OtherSolo
  <1>8. AloneOK(p)'
    <2> SUFFICES ASSUME b PROVE Active' \subseteq {p} /\ (p \in Active' => Active' = {p})
      BY <1>5 DEF AloneOK
    <2>1. \A q \in Procs : q # p => proc'[q].pc \in Ended
      BY <1>2, <1>6 DEF Active, SameWork
    <2> QED BY <2>1 DEF Active
  <1>9. SoloOK(p)' /\ DoneOK(p)'
    <2>1. a \in {"reparse", "magic"} /\ (a = "magic" => ~Stale) /\ Goal' = Goal
      BY <1>1, <1>2 DEF Goal, Complete
    <2>2. c /\ a = "magic" => cache = Goal \/ ~HasMagic(cache)
      BY <1>2, <2>1 DEF Goal
    <2> QED BY <1>1, <1>5, <2>1, <2>2 DEF SoloOK, DoneOK, HasMagic
  <1> QED BY <1>1, <1>7, <1>8, <1>9 DEF AloneInv

\* Steps before the file is read.
LEMMA ReparseAlone ==
  ASSUME AloneInv, NEW p \in Procs, Reparse(p)
  PROVE  AloneInv'
  <1>1. UNCHANGED source /\ proc[p].pc = "reparse" /\ FileInv' /\ cache' = <<>>
    BY ReparseFile DEF Reparse, AloneInv
  <1>2. PICK r : r = [proc[p] EXCEPT !.pc = "parsing", !.buf = MAGIC_STRING, !.pos = 0] /\ Becomes(p, r)
    BY DEF Reparse
  <1>3. proc[p] \in ProcType /\ proc'[p] = r /\ p \in Active
    BY <1>1, <1>2 DEF AloneInv, FileInv, TypeOK, Becomes, Active, Ended
  <1>4. r.pc = "parsing" /\ r.alone = proc[p].alone
    BY <1>2, <1>3 DEF ProcType
  <1>5. SoloOK(p)' /\ DoneOK(p)'
    BY <1>1, <1>3, <1>4 DEF SoloOK, DoneOK
  <1> QED BY <1>1, <1>2, <1>3, <1>4, <1>5, OwnSolo

LEMMA RunParserAlone ==
  ASSUME AloneInv, NEW p \in Procs, RunParser(p)
  PROVE  AloneInv'
  <1>1. UNCHANGED <<source, cache, exists, newer, kills, edits>> /\ proc[p].pc = "parsing" /\ FileInv'
    BY RunParserFile DEF RunParser, AloneInv
  <1>2. /\ proc[p] \in ProcType /\ proc \in [Procs -> ProcType] /\ p \in Active
        /\ SoloOK(p) /\ WriterOK(p)
    BY <1>1 DEF AloneInv, FileInv, TypeOK, Active, Ended
  <1>3. CASE source = SyntaxError
    <2>1. PICK r : r = [proc[p] EXCEPT !.pc = "aborted"] /\ Becomes(p, r)
      BY <1>3 DEF RunParser, Abort
    <2>2. r.pc = "aborted" /\ r.alone = proc[p].alone /\ proc'[p] = r
      BY <1>2, <2>1 DEF ProcType, Becomes
    <2>3. SoloOK(p)' /\ DoneOK(p)'
      BY <1>1, <1>3, <2>2 DEF SoloOK, DoneOK
    <2> QED BY <1>1, <1>2, <2>1, <2>2, <2>3, OwnSolo
  <1>4. CASE source # SyntaxError
    <2>1. PICK r : r = [proc[p] EXCEPT !.pc = "copy", !.out = Bytes(source)] /\ Becomes(p, r)
      BY <1>4 DEF RunParser
    <2>2. /\ r.pc = "copy" /\ r.alone = proc[p].alone /\ r.intact = proc[p].intact /\ r.pos = 0
          /\ proc'[p] = r
      BY <1>1, <1>2, <2>1 DEF ProcType, Becomes, WriterOK
    <2>3. SoloOK(p)' /\ DoneOK(p)'
      <3>1. cache = <<>> => Prefix(p)'
        <4>1. Len(<<>>) = 0
          OBVIOUS
        <4> QED BY <1>1, <2>2, <4>1 DEF Prefix
      <3>2. r.alone /\ r.intact => cache = <<>>
        BY <1>1, <1>2, <1>4, <2>2 DEF SoloOK
      <3> QED BY <1>1, <2>2, <3>1, <3>2 DEF SoloOK, DoneOK
    <2> QED BY <1>1, <1>2, <2>1, <2>2, <2>3, OwnSolo
  <1> QED BY <1>3, <1>4

LEMMA CopyChunkAlone ==
  ASSUME AloneInv, NEW p \in Procs, CopyChunk(p)
  PROVE  AloneInv'
  <1>0. FileInv
    BY DEF AloneInv
  <1>1. UNCHANGED source /\ proc[p].pc = "copy" /\ FileInv' /\ (Prefix(p) => Prefix(p)')
    BY <1>0, CopyChunkFile DEF CopyChunk
  <1>2. proc[p] \in ProcType /\ proc \in [Procs -> ProcType] /\ p \in Active /\ SoloOK(p)
    BY <1>1 DEF AloneInv, FileInv, TypeOK, Active, Ended
  <1>3. PICK a, b, c : Becomes(p, [proc[p] EXCEPT !.out = a, !.buf = b, !.pos = c])
    BY DEF CopyChunk
  <1>4. PICK r : r = [proc[p] EXCEPT !.out = a, !.buf = b, !.pos = c] /\ Becomes(p, r)
    BY <1>3
  <1>5. /\ r.pc = "copy" /\ r.alone = proc[p].alone /\ r.intact = proc[p].intact /\ proc'[p] = r
    BY <1>1, <1>2, <1>4 DEF ProcType, Becomes
  <1>6. SoloOK(p)' /\ DoneOK(p)'
    BY <1>1, <1>2, <1>5 DEF SoloOK, DoneOK
  <1> QED BY <1>1, <1>2, <1>4, <1>5, <1>6, OwnSolo

LEMMA CloseCacheAlone ==
  ASSUME AloneInv, NEW p \in Procs, CloseCache(p)
  PROVE  AloneInv'
  <1>0. FileInv
    BY DEF AloneInv
  <1>1. UNCHANGED source /\ proc[p].pc = "copy" /\ FileInv' /\ (Prefix(p) => cache' = Goal)
    BY <1>0, CloseCacheFile DEF CloseCache
  <1>2. proc[p] \in ProcType /\ proc \in [Procs -> ProcType] /\ p \in Active /\ SoloOK(p)
    BY <1>1 DEF AloneInv, FileInv, TypeOK, Active, Ended
  <1>3. PICK r : r = [proc[p] EXCEPT !.pc = "magic", !.buf = <<>>] /\ Becomes(p, r)
    BY DEF CloseCache
  <1>4. /\ r.pc = "magic" /\ r.alone = proc[p].alone /\ r.intact = proc[p].intact /\ proc'[p] = r
    BY <1>2, <1>3 DEF ProcType, Becomes
  <1>5. Goal' = Goal
    BY <1>1 DEF Goal, Complete
  <1>6. SoloOK(p)' /\ DoneOK(p)'
    BY <1>1, <1>2, <1>4, <1>5 DEF SoloOK, DoneOK
  <1> QED BY <1>1, <1>2, <1>3, <1>4, <1>6, OwnSolo

\* The magic string is at the beginning of a block and of its file, or of neither.
LEMMA MagicOfBlock ==
  ASSUME cache \in Seq(Int), HasMagic(Block(0))
  PROVE  HasMagic(cache)
  <1>1. PICK block : block = Block(0)
    OBVIOUS
  <1>2. /\ block \in Seq(Int) /\ Len(block) >= 4 /\ SubSeq(block, 1, 4) = MAGIC_STRING
        /\ 0 + Len(block) <= Len(cache) \/ block = <<>>
        /\ \A i \in 1..Len(block) : block[i] = cache[0 + i]
    BY <1>1, BlockProps DEF HasMagic
  <1>3. Len(block) \in Nat /\ Len(cache) \in Nat /\ Len(<<>>) = 0
    <2>1. Len(block) \in Nat
      BY <1>2, LenProperties
    <2>2. Len(cache) \in Nat
      BY LenProperties
    <2>3. Len(<<>>) = 0
      OBVIOUS
    <2> QED BY <2>1, <2>2, <2>3
  <1>4. Len(cache) >= 4 /\ 4 <= Len(block)
    BY <1>2, <1>3
  <1>5. PICK a, b : a = SubSeq(block, 1, 4) /\ b = SubSeq(cache, 1, 4)
    OBVIOUS
  <1>6. a \in Seq(Int) /\ Len(a) = 4 /\ \A i \in 1..4 : a[i] = block[i]
    BY <1>2, <1>4, <1>5, Beginning
  <1>7. b \in Seq(Int) /\ Len(b) = 4 /\ \A i \in 1..4 : b[i] = cache[i]
    BY <1>4, <1>5, Beginning
  <1>8. \A i \in 1..4 : i \in 1..Len(block) /\ 0 + i = i
    BY <1>3, <1>4
  <1>9. \A i \in 1..4 : a[i] = b[i]
    BY <1>2, <1>6, <1>7, <1>8
  <1>10. a = b
    BY <1>6, <1>7, <1>9, SeqEqual
  <1> QED BY <1>2, <1>4, <1>5, <1>10 DEF HasMagic

\* The first block of its own file.
LEMMA ReadMagicAlone ==
  ASSUME AloneInv, NEW p \in Procs, ReadMagic(p)
  PROVE  AloneInv'
  <1>0. FileInv
    BY DEF AloneInv
  <1>1. UNCHANGED <<source, cache, exists, newer, kills, edits>> /\ proc[p].pc = "magic" /\ FileInv'
    BY <1>0, ReadMagicFile DEF ReadMagic
  <1>2. proc[p] \in ProcType /\ proc \in [Procs -> ProcType] /\ p \in Active /\ SoloOK(p) /\ TypeOK
    BY <1>1 DEF AloneInv, FileInv, TypeOK, Active, Ended
  <1>3. PICK block : block = Block(0)
    OBVIOUS
  <1>4. /\ block \in Seq(Int) /\ \A i \in 1..Len(block) : block[i] = cache[0 + i]
    BY <1>2, <1>3, BlockProps DEF TypeOK
  <1>5. CASE HasMagic(block)
    <2>1. PICK n, got : n = Len(block) /\ got = SubSeq(block, 5, Len(block))
      OBVIOUS
    <2>2. PICK r : r = [proc[p] EXCEPT !.pc = "read", !.pos = n, !.got = got] /\ Becomes(p, r)
      BY <1>3, <1>5, <2>1 DEF ReadMagic
    <2>3. /\ r.pc = "read" /\ r.alone = proc[p].alone /\ r.intact = proc[p].intact
          /\ r.pos = n /\ r.got = got /\ proc'[p] = r
      BY <1>2, <2>2 DEF ProcType, Becomes
    <2>4. n \in Nat /\ n >= 4
      BY <1>4, <1>5, <2>1 DEF HasMagic
    <2>5. got \in Seq(Int) /\ Len(got) = n - 4 /\ \A i \in 1..(n - 4) : got[i] = block[4 + i]
      <3>1. 4 \in Nat /\ n <= Len(block) /\ 4 + 1 = 5
        BY <2>1, <2>4
      <3>2. /\ SubSeq(block, 4 + 1, n) \in Seq(Int)
            /\ Len(SubSeq(block, 4 + 1, n)) = n - 4
            /\ \A i \in 1..(n - 4) : SubSeq(block, 4 + 1, n)[i] = block[4 + i]
        BY <1>4, <2>4, <3>1, Part
      <3> QED BY <2>1, <3>1, <3>2
    <2>6. ASSUME proc[p].alone, proc[p].intact, source # SyntaxError PROVE ReadOwn(p)'
      <3>1. cache = Goal
        BY <1>1, <1>2, <1>3, <1>5, <2>6, MagicOfBlock DEF SoloOK, TypeOK
      <3>2. Goal' = Goal
        BY <1>1 DEF Goal, Complete
      <3>6. \A i \in 1..(n - 4) : got[i] = Goal[i + 4]
        <4> SUFFICES ASSUME NEW i \in 1..(n - 4) PROVE got[i] = Goal[i + 4]
          OBVIOUS
        <4>1. PICK j : j = 4 + i /\ j = i + 4 /\ j \in 1..n /\ 0 + j = j
          BY <2>4
        <4>2. got[i] = block[j] /\ block[j] = cache[j]
          BY <1>4, <2>1, <2>5, <4>1
        <4> QED BY <3>1, <4>1, <4>2
      <3> QED BY <1>1, <2>3, <2>5, <3>1, <3>2, <3>6 DEF ReadOwn
    <2>7. SoloOK(p)' /\ DoneOK(p)'
      BY <1>1, <2>3, <2>6 DEF SoloOK, DoneOK
    <2> QED BY <1>1, <1>2, <2>2, <2>3, <2>7, OwnSolo
  <1>6. CASE ~HasMagic(block)
    <2>1. PICK r : r = [proc[p] EXCEPT !.pc = "reparse"] /\ Becomes(p, r)
      BY <1>3, <1>6 DEF ReadMagic
    <2>2. r.pc = "reparse" /\ r.alone = proc[p].alone /\ proc'[p] = r
      BY <1>2, <2>1 DEF ProcType, Becomes
    <2>3. SoloOK(p)' /\ DoneOK(p)'
      BY <2>2 DEF SoloOK, DoneOK
    <2> QED BY <1>1, <1>2, <2>1, <2>2, <2>3, OwnSolo
  <1> QED BY <1>5, <1>6

\* All of its own file was read: these are the bytes of the source.
LEMMA AllRead ==
  ASSUME FileInv, NEW p \in Procs, proc[p].pc = "read", ReadOwn(p), proc[p].pos = Len(Goal)
  PROVE  proc[p].got = Bytes(source)
  <1>1. PICK got, bytes, n, b : got = proc[p].got /\ bytes = Bytes(source) /\ n = Len(got) /\ b = Len(bytes)
    OBVIOUS
  <1>2. source # SyntaxError /\ proc[p].pos = n + 4 /\ got \in Seq(Int)
    BY <1>1 DEF FileInv, ReaderOK, TypeOK, ProcType
  <1>3. /\ Len(Goal) = 4 + b /\ bytes \in Seq(Int)
        /\ \A i \in 1..b : Goal[4 + i] = bytes[i]
    BY <1>1, <1>2, GoalType DEF FileInv
  <1>4. n \in Nat /\ b \in Nat
    BY <1>1, <1>2, <1>3
  <1>5. n = b
    <2>1. n + 4 = 4 + b
      BY <1>2, <1>3, Zenon
    <2> QED BY <1>4, <2>1
  <1>6. \A i \in 1..b : got[i] = Goal[i + 4] /\ i + 4 = 4 + i
    BY <1>1, <1>4, <1>5 DEF ReadOwn
  <1>7. \A i \in 1..b : got[i] = bytes[i]
    BY <1>3, <1>6
  <1>8. Len(got) = Len(bytes) /\ \A i \in 1..Len(got) : got[i] = bytes[i]
    BY <1>1, <1>5, <1>7
  <1>9. got = bytes
    BY <1>2, <1>3, <1>8, SeqEqual
  <1> QED BY <1>1, <1>9

\* Less of it was read: these are the first bytes of the source.
LEMMA PartRead ==
  ASSUME FileInv, NEW p \in Procs, proc[p].pc = "read", ReadOwn(p), proc[p].pos # Len(Goal)
  PROVE  /\ Len(proc[p].got) < Len(Bytes(source))
         /\ proc[p].got = SubSeq(Bytes(source), 1, Len(proc[p].got))
  <1>1. PICK got, bytes, n, b : got = proc[p].got /\ bytes = Bytes(source) /\ n = Len(got) /\ b = Len(bytes)
    OBVIOUS
  <1>2. source # SyntaxError /\ proc[p].pos = n + 4 /\ got \in Seq(Int) /\ proc[p].pos <= Len(Goal)
    BY <1>1 DEF FileInv, ReaderOK, TypeOK, ProcType
  <1>3. /\ Len(Goal) = 4 + b /\ bytes \in Seq(Int)
        /\ \A i \in 1..b : Goal[4 + i] = bytes[i]
    BY <1>1, <1>2, GoalType DEF FileInv
  <1>4. n \in Nat /\ b \in Nat
    BY <1>1, <1>2, <1>3
  <1>5. n < b
    BY <1>2, <1>3, <1>4
  <1>6. PICK front : front = SubSeq(bytes, 1, n)
    OBVIOUS
  <1>7. front \in Seq(Int) /\ Len(front) = n /\ \A i \in 1..n : front[i] = bytes[i]
    <2>1. n <= Len(bytes)
      BY <1>1, <1>4, <1>5
    <2> QED BY <1>3, <1>4, <1>6, <2>1, Beginning
  <1>8. \A i \in 1..n : got[i] = Goal[i + 4] /\ i + 4 = 4 + i /\ i \in 1..b
    BY <1>1, <1>4, <1>5 DEF ReadOwn
  <1>9. \A i \in 1..n : got[i] = front[i]
    BY <1>3, <1>7, <1>8
  <1>10. got = front
    BY <1>1, <1>2, <1>7, <1>9, SeqEqual
  <1> QED BY <1>1, <1>5, <1>6, <1>10

\* The next block of its own file, which is there as long as the tree is not complete.
LEMMA FillAlone ==
  ASSUME ReaderRight, AloneInv, NEW p \in Procs, Fill(p)
  PROVE  AloneInv'
  <1>0. FileInv
    BY DEF AloneInv
  <1>1. UNCHANGED <<source, cache, exists, newer, kills, edits>> /\ proc[p].pc = "read" /\ FileInv'
    BY <1>0, FillFile DEF Fill
  <1>2. /\ proc[p] \in ProcType /\ proc \in [Procs -> ProcType] /\ p \in Active /\ SoloOK(p)
        /\ TypeOK /\ ReaderOK(p)
    BY <1>1 DEF AloneInv, FileInv, TypeOK, Active, Ended
  <1>3. PICK pos, block, old : pos = proc[p].pos /\ block = Block(pos) /\ old = proc[p].got
    OBVIOUS
  <1>g. Goal' = Goal
    BY <1>1 DEF Goal, Complete
  <1>4. ASSUME proc[p].alone, proc[p].intact, source # SyntaxError
        PROVE  /\ ReadOwn(p) /\ pos < Len(Goal) /\ Len(block) = (IF Len(Goal) < pos + BLOCK THEN Len(Goal) - pos ELSE BLOCK)
               /\ block # <<>> /\ \A i \in 1..Len(block) : block[i] = Goal[pos + i]
    <2>1. ReadOwn(p)
      BY <1>1, <1>2, <1>4 DEF SoloOK
    <2>2. pos # Len(Goal)
      <3> SUFFICES ASSUME pos = Len(Goal) PROVE FALSE
        OBVIOUS
      <3>1. old = Bytes(source)
        BY <1>0, <1>1, <1>3, <2>1, AllRead
      <3>2. Read(Bytes(source)).st = "ok"
        BY <1>1, <1>3, <3>1 DEF ReaderRight
      <3> QED BY <1>3, <3>1, <3>2 DEF Fill
    <2>3. pos \in Nat /\ Len(Goal) \in Nat /\ pos <= Len(Goal)
      BY <1>1, <1>2, <1>3, <1>4, GoalType DEF ReaderOK, ProcType
    <2>4. pos < Len(Goal) /\ cache = Goal
      BY <2>1, <2>2, <2>3 DEF ReadOwn
    <2>5. /\ \A i \in 1..Len(block) : block[i] = Goal[pos + i]
          /\ Len(block) = IF Len(Goal) < pos + BLOCK THEN Len(Goal) - pos ELSE BLOCK
      BY <1>2, <1>3, <2>3, <2>4, BlockProps DEF TypeOK
    <2>6. Len(block) # 0 /\ Len(<<>>) = 0
      BY <2>3, <2>4, <2>5, CacheFileAssumption
    <2>7. block # <<>>
      BY <2>6
    <2> QED BY <2>1, <2>4, <2>5, <2>7
  <1>5. CASE block = <<>>
    <2>1. PICK r : r = [proc[p] EXCEPT !.pc = "aborted"] /\ Becomes(p, r)
      BY <1>3, <1>5 DEF Fill, Abort
    <2>2. r.pc = "aborted" /\ r.alone = proc[p].alone /\ r.intact = proc[p].intact /\ proc'[p] = r
      BY <1>2, <2>1 DEF ProcType, Becomes
    <2>3. SoloOK(p)' /\ DoneOK(p)'
      BY <1>1, <1>4, <1>5, <2>2 DEF SoloOK, DoneOK
    <2> QED BY <1>1, <1>2, <2>1, <2>2, <2>3, OwnSolo
  <1>6. CASE block # <<>>
    <2>1. PICK got, next : got = old \o block /\ next = pos + Len(block)
      OBVIOUS
    <2>2. PICK r : r = [proc[p] EXCEPT !.got = got, !.pos = next] /\ Becomes(p, r)
      BY <1>3, <1>6, <2>1 DEF Fill
    <2>3. /\ r.pc = "read" /\ r.alone = proc[p].alone /\ r.intact = proc[p].intact
          /\ r.got = got /\ r.pos = next /\ proc'[p] = r
      BY <1>1, <1>2, <2>2 DEF ProcType, Becomes
    <2>4. ASSUME proc[p].alone, proc[p].intact, source # SyntaxError PROVE ReadOwn(p)'
      <3>1. PICK a, b, g : a = Len(old) /\ b = Len(block) /\ g = Len(Goal)
        OBVIOUS
      <3>2. /\ ReadOwn(p) /\ pos < g /\ b = (IF g < pos + BLOCK THEN g - pos ELSE BLOCK)
            /\ \A i \in 1..b : block[i] = Goal[pos + i]
        BY <1>4, <2>4, <3>1
      <3>3. pos \in Nat /\ old \in Seq(Int) /\ pos = a + 4
        BY <1>1, <1>2, <1>3, <3>1 DEF ReaderOK, ProcType
      <3>4. block \in Seq(Int)
        BY <1>2, <1>3, <3>3, BlockProps DEF TypeOK
      <3>5. a \in Nat /\ b \in Nat /\ g \in Nat
        BY <1>2, <2>4, <3>1, <3>3, <3>4, GoalType
      <3>6. got \in Seq(Int) /\ Len(got) = a + b /\ \A i \in 1..a + b : got[i] = IF i <= a THEN old[i] ELSE block[i - a]
        BY <2>1, <3>1, <3>3, <3>4, ConcatProperties
      <3>7. \A i \in 1..a + b : got[i] = Goal[i + 4]
        <4> SUFFICES ASSUME NEW i \in 1..a + b PROVE got[i] = Goal[i + 4]
          OBVIOUS
        <4>1. CASE i <= a
          <5>1. i \in 1..a
            BY <3>5, <4>1
          <5>2. old[i] = Goal[i + 4]
            BY <1>3, <3>1, <3>2, <5>1 DEF ReadOwn
          <5> QED BY <3>6, <4>1, <5>2
        <4>2. CASE ~(i <= a)
          <5>1. PICK j : j = i - a /\ j \in 1..b /\ pos + j = i + 4
            BY <3>3, <3>5, <4>2
          <5>2. got[i] = block[j] /\ block[j] = Goal[pos + j]
            BY <3>2, <3>6, <4>2, <5>1
          <5> QED BY <5>1, <5>2
        <4> QED BY <4>1, <4>2
      <3>9. cache' = Goal
        BY <1>1, <3>2 DEF ReadOwn
      <3> QED BY <1>1, <1>g, <2>3, <3>1, <3>6, <3>7, <3>9 DEF ReadOwn
    <2>5. SoloOK(p)' /\ DoneOK(p)'
      BY <1>1, <2>3, <2>4 DEF SoloOK, DoneOK
    <2> QED BY <1>1, <1>2, <2>2, <2>3, <2>5, OwnSolo
  <1> QED BY <1>5, <1>6

\* The tree is complete when all of its own file was read, and it is the source's.
LEMMA FinishAlone ==
  ASSUME ReaderRight, AloneInv, NEW p \in Procs, Finish(p)
  PROVE  AloneInv'
  <1>0. FileInv
    BY DEF AloneInv
  <1>1. UNCHANGED <<source, cache, exists, newer, kills, edits>> /\ proc[p].pc = "read" /\ FileInv'
    BY <1>0, FinishFile DEF Finish
  <1>2. /\ proc[p] \in ProcType /\ proc \in [Procs -> ProcType] /\ p \in Active /\ SoloOK(p)
        /\ TypeOK /\ ReaderOK(p)
    BY <1>1 DEF AloneInv, FileInv, TypeOK, Active, Ended
  <1>s. source # SyntaxError
    BY <1>1, <1>2 DEF ReaderOK
  <1>3. PICK t : t = Read(proc[p].got)
    OBVIOUS
  <1>4. ASSUME proc[p].alone, proc[p].intact
        PROVE  t.st = "ok" /\ t.in = <<>> /\ Block(proc[p].pos) = <<>> /\ IsModule(t.v) /\ t.v = Meaning(source)
    <2>1. ReadOwn(p)
      BY <1>1, <1>2, <1>4, <1>s DEF SoloOK
    <2>2. PICK bytes : bytes = Bytes(source)
      OBVIOUS
    <2>3. proc[p].pos = Len(Goal)
      <3> SUFFICES ASSUME proc[p].pos # Len(Goal) PROVE FALSE
        OBVIOUS
      <3>1. Len(proc[p].got) < Len(bytes) /\ proc[p].got = SubSeq(bytes, 1, Len(proc[p].got))
        BY <1>0, <1>1, <2>1, <2>2, PartRead
      <3>2. t.st = "end"
        BY <1>1, <1>3, <2>2, <3>1, Zenon DEF ReaderRight
      <3> QED BY <1>3, <3>2 DEF Finish
    <2>4. proc[p].got = bytes
      BY <1>0, <1>1, <2>1, <2>2, <2>3, AllRead
    <2>5. t.st = "ok" /\ t.in = <<>> /\ t.v = Meaning(source) /\ IsModule(t.v)
      BY <1>1, <1>3, <2>2, <2>4, Zenon DEF ReaderRight
    <2>6. Block(proc[p].pos) = <<>>
      <3>1. proc[p].pos \in Nat /\ proc[p].pos >= Len(cache)
        BY <1>2, <2>1, <2>3 DEF ReadOwn, ProcType
      <3> QED BY <1>2, <3>1, BlockProps DEF TypeOK
    <2> QED BY <2>5, <2>6, Zenon
  <1>5. CASE /\ t.st = "ok" /\ t.in = <<>> /\ Block(proc[p].pos) = <<>> /\ IsModule(t.v)
    <2>1. PICK r : r = [proc[p] EXCEPT !.pc = "done", !.tree = t.v, !.got = <<>>] /\ Becomes(p, r)
      BY <1>3, <1>5 DEF Finish
    <2>2. /\ r.pc = "done" /\ r.alone = proc[p].alone /\ r.intact = proc[p].intact /\ r.tree = t.v
          /\ proc'[p] = r
      BY <1>2, <2>1 DEF ProcType, Becomes
    <2>3. SoloOK(p)' /\ DoneOK(p)'
      BY <1>1, <1>4, <1>s, <2>2 DEF SoloOK, DoneOK
    <2> QED BY <1>1, <1>2, <2>1, <2>2, <2>3, OwnSolo
  <1>6. CASE ~(t.st = "ok" /\ t.in = <<>> /\ Block(proc[p].pos) = <<>> /\ IsModule(t.v))
    <2>1. PICK r : r = [proc[p] EXCEPT !.pc = "aborted"] /\ Becomes(p, r)
      BY <1>3, <1>6 DEF Finish, Abort
    <2>2. r.pc = "aborted" /\ r.alone = proc[p].alone /\ r.intact = proc[p].intact /\ proc'[p] = r
      BY <1>2, <2>1 DEF ProcType, Becomes
    <2>3. SoloOK(p)' /\ DoneOK(p)'
      BY <1>1, <1>4, <1>6, <2>2 DEF SoloOK, DoneOK
    <2> QED BY <1>1, <1>2, <2>1, <2>2, <2>3, OwnSolo
  <1> QED BY <1>5, <1>6

\* A killed process, alone or not.
LEMMA KillAlone ==
  ASSUME AloneInv, NEW p \in Procs, Kill(p)
  PROVE  AloneInv'
  <1>1. UNCHANGED source /\ p \in Active /\ FileInv'
    BY KillFile DEF Kill, AloneInv
  <1>2. proc[p] \in ProcType /\ proc \in [Procs -> ProcType]
    BY DEF AloneInv, FileInv, TypeOK
  <1>3. PICK r : /\ r = [proc[p] EXCEPT !.pc = "killed", !.buf = <<>>, !.out = <<>>, !.got = <<>>]
                 /\ Becomes(p, r)
    BY DEF Kill
  <1>4. r.pc = "killed" /\ r.alone = proc[p].alone /\ proc'[p] = r
    BY <1>2, <1>3 DEF ProcType, Becomes
  <1>5. SoloOK(p)' /\ DoneOK(p)'
    BY <1>4 DEF SoloOK, DoneOK
  <1> QED BY <1>1, <1>3, <1>4, <1>5, OwnSolo

\* Every step keeps it, if the parser reads what parse_ast.py writes.
LEMMA NextAlone ==
  ASSUME ReaderRight, AloneInv, [Next]_vars
  PROVE  AloneInv'
  <1>1. CASE UNCHANGED vars
    <2>1. FileInv'
      BY NextFile DEF AloneInv
    <2>2. UNCHANGED <<source, cache, proc>>
      BY <1>1 DEF vars
    <2>3. Goal' = Goal /\ Active' = Active
      BY <2>2 DEF Goal, Complete, Active
    <2>4. \A p \in Procs : SoloOK(p)' /\ AloneOK(p)' /\ DoneOK(p)'
      BY <2>2, <2>3 DEF AloneInv, SoloOK, AloneOK, DoneOK, Prefix, ReadOwn
    <2> QED BY <2>1, <2>4 DEF AloneInv
  <1>2. CASE Edit
    <2>1. FileInv' /\ \A p \in Procs : proc'[p].pc = "idle"
      BY <1>2, EditFile DEF AloneInv
    <2> QED BY <2>1 DEF AloneInv, SoloOK, AloneOK, DoneOK, Active, Ended
  <1>3. ASSUME NEW p \in Procs, CachingParse(p) \/ Step(p) \/ Kill(p) PROVE AloneInv'
    BY <1>3, CachingParseAlone, ReparseAlone, RunParserAlone, CopyChunkAlone, CloseCacheAlone,
       ReadMagicAlone, FillAlone, FinishAlone, KillAlone DEF Step
  <1> QED BY <1>1, <1>2, <1>3 DEF Next

(***************************************************************************)
(* A process that parses alone succeeds, whatever earlier processes left   *)
(* in the cache but a torn file that begins with the magic string: for any *)
(* chunk and block, if readASTMisc reads what parse_ast.py writes and asks *)
(* for more as long as bytes are missing.                                  *)
(***************************************************************************)
THEOREM ParsesAlone == Spec => ([]ReaderRight => []AloneSucceeds)
  <1>1. Init => AloneInv
    BY InitAlone
  <1>2. ReaderRight /\ AloneInv /\ [Next]_vars => AloneInv'
    BY NextAlone
  <1>3. AloneInv => AloneSucceeds
    BY DEF AloneInv, AloneSucceeds, SoloOK, DoneOK
  <1> QED BY <1>1, <1>2, <1>3, PTL DEF Spec

=============================================================================
