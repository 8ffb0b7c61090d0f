------------------------------ MODULE CacheFile ------------------------------
(***************************************************************************)
(* caching_parse of codegen/parser.cpp: processes that parse the same file *)
(* through the cache file beside it.  A process can be killed at any       *)
(* point.  The source is edited only while no process runs.  What          *)
(* parse_ast.py writes and what readASTMisc makes of it are parameters;    *)
(* ParseCache has the real ones.                                           *)
(*                                                                         *)
(* Reads and writes go through stdio, which moves BLOCK bytes at a time:   *)
(* what a process has written lies in buf until a block is full or the     *)
(* file is closed.                                                         *)
(***************************************************************************)
EXTENDS Integers, Sequences, FiniteSets

CONSTANTS
  Procs,       \* processes
  Programs,    \* the sources that can be there first
  Raced,       \* those among them that several processes parse, and that edits make
  MaxKills,    \* how many processes are killed
  MaxEdits,    \* how often the source is edited
  CHUNK,       \* bytes _reparse copies at a time (80)
  BLOCK,       \* bytes stdio moves at a time (4096)
  Bytes(_),    \* what parse_ast.py writes for a source
  Read(_),     \* readASTMisc on the bytes read so far: its state st ("end" if it needs
               \*   more of them), the tree v, and the bytes in that it did not take
  IsModule(_), \* is the type of this tree Module?
  Meaning(_)   \* the tree that stands for a source

\* A source that CPython refuses; the exit code of parse_ast.py is not 0 then.
SyntaxError == <<"error">>
NoTree == <<"null">>
Sources == Programs \cup Raced

ASSUME CacheFileAssumption ==
  /\ CHUNK \in Nat \ {0} /\ BLOCK \in Nat \ {0} /\ MaxKills \in Nat /\ MaxEdits \in Nat
  /\ \A tree \in Sources \ {SyntaxError} : Bytes(tree) \in Seq(Int)

VARIABLES
  source,   \* the tree of the source file, or SyntaxError
  cache,    \* the bytes of the cache file; stat fails before it exists
  exists,
  newer,    \* the cache file was modified after the source file
  kills, edits,
  proc      \* of each process:
            \*   pc     where it is
            \*   out    what parse_ast.py has still to write
            \*   buf    what was written to the cache file and not yet flushed
            \*   pos    the position in the cache file
            \*   got    what was read after the magic string
            \*   tree   what caching_parse returned
            \*   alone  no other process ran at the same time
            \*   intact the cache was complete, or going to be replaced, at the start

vars == <<source, cache, exists, newer, kills, edits, proc>>

Idle == [pc |-> "idle", out |-> <<>>, buf |-> <<>>, pos |-> 0, got |-> <<>>, tree |-> NoTree,
         alone |-> TRUE, intact |-> TRUE]
MAGIC_STRING == <<97, 10, 99, 102>>
Complete(tree) == MAGIC_STRING \o Bytes(tree)
HasMagic(bytes) == Len(bytes) >= 4 /\ SubSeq(bytes, 1, 4) = MAGIC_STRING

Ended == {"idle", "done", "aborted", "killed"}
Active == {p \in Procs : proc[p].pc \notin Ended}

Init ==
  /\ source \in Programs
  /\ cache = <<>> /\ exists = FALSE /\ newer = FALSE
  /\ kills = 0 /\ edits = 0
  /\ proc = [p \in Procs |-> Idle]

Becomes(p, state) == proc' = [proc EXCEPT ![p] = state]
Abort(p) == Becomes(p, [proc[p] EXCEPT !.pc = "aborted"])

WriteAtEnd(pos, bytes) == cache \o bytes

\* The file after bytes are written at pos; what another process truncated reads as zeros.
WriteAt(pos, bytes) ==
  [i \in 1..(IF Len(cache) > pos + Len(bytes) THEN Len(cache) ELSE pos + Len(bytes)) |->
     IF i > pos /\ i <= pos + Len(bytes) THEN bytes[i - pos]
     ELSE IF i <= Len(cache) THEN cache[i] ELSE 0]

\* stat of both files.
StaleIfMissing == ~exists
Stale == ~exists \/ ~newer
CachingParse(p) ==
  /\ proc[p].pc = "idle"
  /\ (\A q \in Procs \ {p} : proc[q].pc = "idle") \/ source \in Raced
  /\ proc' = [q \in Procs |->
       IF q = p
       THEN [Idle EXCEPT !.pc = IF Stale THEN "reparse" ELSE "magic", !.alone = Active = {},
               !.intact = Stale \/ ~HasMagic(cache) \/ (source # SyntaxError /\ cache = Complete(source))]
       ELSE [proc[q] EXCEPT !.alone = @ /\ q \notin Active]]
  /\ UNCHANGED <<source, cache, exists, newer, kills, edits>>

ReparseNoMagic(p) ==
  /\ proc[p].pc = "reparse"
  /\ cache' = <<>> /\ exists' = TRUE /\ newer' = TRUE
  /\ Becomes(p, [proc[p] EXCEPT !.pc = "parsing", !.buf = <<>>, !.pos = 0])
  /\ UNCHANGED <<source, kills, edits>>

\* popen, fopen with "w", fwrite of the magic string.
Reparse(p) ==
  /\ proc[p].pc = "reparse"
  /\ cache' = <<>> /\ exists' = TRUE /\ newer' = TRUE
  /\ Becomes(p, [proc[p] EXCEPT !.pc = "parsing", !.buf = MAGIC_STRING, !.pos = 0])
  /\ UNCHANGED <<source, kills, edits>>

\* parse_ast.py reads the source; assert(code == 0) fails if it could not parse it.
RunParser(p) ==
  /\ proc[p].pc = "parsing"
  /\ IF source = SyntaxError THEN Abort(p)
     ELSE Becomes(p, [proc[p] EXCEPT !.pc = "copy", !.out = Bytes(source)])
  /\ UNCHANGED <<source, cache, exists, newer, kills, edits>>

\* fread of a chunk and fwrite of it; full blocks go to the file.
CopyChunk(p) ==
  /\ proc[p].pc = "copy" /\ proc[p].out # <<>>
  /\ LET out == proc[p].out
         n == IF Len(out) < CHUNK THEN Len(out) ELSE CHUNK
         buf == proc[p].buf \o SubSeq(out, 1, n)
         full == IF Len(buf) < BLOCK THEN 0 ELSE Len(buf) - (Len(buf) % BLOCK)
     IN /\ cache' = IF full = 0 THEN cache ELSE WriteAt(proc[p].pos, SubSeq(buf, 1, full))
        /\ newer' = (newer \/ full # 0)
        /\ Becomes(p, [proc[p] EXCEPT !.out = SubSeq(out, n + 1, Len(out)),
                         !.buf = SubSeq(buf, full + 1, Len(buf)), !.pos = proc[p].pos + full])
  /\ UNCHANGED <<source, exists, kills, edits>>

\* pclose and fclose.
CloseCache(p) ==
  /\ proc[p].pc = "copy" /\ proc[p].out = <<>>
  /\ cache' = IF proc[p].buf = <<>> THEN cache ELSE WriteAt(proc[p].pos, proc[p].buf)
  /\ newer' = TRUE
  /\ Becomes(p, [proc[p] EXCEPT !.pc = "magic", !.buf = <<>>])
  /\ UNCHANGED <<source, exists, kills, edits>>

\* fopen and fread of the magic string, which brings in the first block.
Block(pos) == SubSeq(cache, pos + 1, IF Len(cache) < pos + BLOCK THEN Len(cache) ELSE pos + BLOCK)
ReadMagic(p) ==
  /\ proc[p].pc = "magic"
  /\ LET block == Block(0)
     IN Becomes(p, IF HasMagic(block)
                   THEN [proc[p] EXCEPT !.pc = "read", !.pos = Len(block),
                                        !.got = SubSeq(block, 5, Len(block))]
                   ELSE [proc[p] EXCEPT !.pc = "reparse"])
  /\ UNCHANGED <<source, cache, exists, newer, kills, edits>>

\* BufferedReader::fill, while the tree is not complete.
Fill(p) ==
  /\ proc[p].pc = "read"
  /\ Read(proc[p].got).st = "end"
  /\ IF Block(proc[p].pos) = <<>> THEN Abort(p)
     ELSE Becomes(p, [proc[p] EXCEPT !.got = @ \o Block(proc[p].pos),
                                     !.pos = @ + Len(Block(proc[p].pos))])
  /\ UNCHANGED <<source, cache, exists, newer, kills, edits>>

\* The tree is read: nothing may be left, and its type is Module.
Finish(p) ==
  /\ proc[p].pc = "read"
  /\ LET r == Read(proc[p].got)
     IN /\ r.st # "end"
        /\ IF r.st = "ok" /\ r.in = <<>> /\ Block(proc[p].pos) = <<>> /\ IsModule(r.v)
           THEN Becomes(p, [proc[p] EXCEPT !.pc = "done", !.tree = r.v, !.got = <<>>])
           ELSE Abort(p)
  /\ UNCHANGED <<source, cache, exists, newer, kills, edits>>

Kill(p) ==
  /\ p \in Active /\ kills < MaxKills /\ source \in Raced
  /\ Becomes(p, [proc[p] EXCEPT !.pc = "killed", !.buf = <<>>, !.out = <<>>, !.got = <<>>])
  /\ kills' = kills + 1
  /\ UNCHANGED <<source, cache, exists, newer, edits>>

Edit ==
  /\ Active = {} /\ edits < MaxEdits /\ source \in Raced
  /\ \E tree \in Raced \ {source} : source' = tree
  /\ newer' = FALSE
  /\ edits' = edits + 1
  /\ proc' = [p \in Procs |-> [proc[p] EXCEPT !.pc = "idle", !.tree = NoTree, !.got = <<>>]]
  /\ UNCHANGED <<cache, exists, kills>>

Step(p) ==
  \/ Reparse(p)
  \/ RunParser(p)
  \/ CopyChunk(p)
  \/ CloseCache(p)
  \/ ReadMagic(p)
  \/ Fill(p)
  \/ Finish(p)

Next ==
  \/ \E p \in Procs : CachingParse(p) \/ Step(p) \/ Kill(p)
  \/ Edit

\* A process that is not killed keeps running: WF_vars(Step(p)), with the states in
\* which Step(p) is enabled written out.
Fairness == \A p \in Procs : []<>(proc[p].pc \in Ended) \/ []<><<Step(p)>>_vars
Spec == Init /\ [][Next]_vars /\ Fairness

-----------------------------------------------------------------------------
(***************************************************************************)
(* Properties.                                                             *)
(***************************************************************************)

(***************************************************************************)
(* readASTMisc reads what parse_ast.py writes: the read functions of       *)
(* parser.cpp take the fields in the order in which parse_ast.py writes    *)
(* them.  From all bytes of the source it makes its tree, with nothing     *)
(* left over; from the first of them it asks for more.                     *)
(***************************************************************************)
ReaderRight ==
  \A p \in Procs : proc[p].pc = "read" =>
    LET bytes == Bytes(source)
        got == proc[p].got
        r == Read(got)
    IN /\ got = bytes => r.st = "ok" /\ r.in = <<>> /\ r.v = Meaning(source) /\ IsModule(r.v)
       /\ Len(got) < Len(bytes) /\ got = SubSeq(bytes, 1, Len(got)) => r.st = "end"

(***************************************************************************)
(* caching_parse returns the tree of the source: what another process left *)
(* half written in the cache, is being rewritten under the reader, or      *)
(* comes from an earlier version of the source, is never taken for a tree. *)
(* That depends on the sources in Raced: a string longer than a block can  *)
(* be read with zeros in it while two processes write the cache, since     *)
(* nothing in the format would tell.  ReaderRight is part of it.           *)
(***************************************************************************)
ReturnsSourceTree ==
  /\ ReaderRight
  /\ \A p \in Procs : proc[p].pc = "done" => proc[p].tree = Meaning(source)

(***************************************************************************)
(* A process that ran alone returns the tree of the source, and fails no   *)
(* assertion of parser.cpp, unless the source has a syntax error or the    *)
(* cache it found begins with the magic string and is torn: only a killed  *)
(* process leaves such a cache.                                            *)
(***************************************************************************)
AloneSucceeds ==
  \A p \in Procs : proc[p].alone /\ proc[p].intact =>
    /\ proc[p].pc = "aborted" => source = SyntaxError
    /\ proc[p].pc = "done" => source # SyntaxError /\ proc[p].tree = Meaning(source)

(***************************************************************************)
(* However the processes truncate the cache under each other, are killed,  *)
(* and the source is edited between their runs, each byte that a process   *)
(* reads from the cache is the byte at that place of what the source is    *)
(* written as now, or a zero where another process has yet to write it.    *)
(***************************************************************************)
ReadsSourceOrHoles ==
  \A p \in Procs : proc[p].pc = "read" =>
    /\ source # SyntaxError
    /\ LET bytes == Bytes(source)
       IN \A i \in 1..Len(proc[p].got) : i <= Len(bytes) /\ proc[p].got[i] \in {bytes[i], 0}

(***************************************************************************)
(* Processes that parse at the same time truncate the cache under each     *)
(* other and write it at their own positions; when all have ended, and     *)
(* none was killed, the cache is complete again or was never written.      *)
(***************************************************************************)
CacheSettles ==
  Active = {} /\ kills = 0 /\ newer /\ source # SyntaxError => cache = Complete(source)

(***************************************************************************)
(* The loop of caching_parse that repeats _reparse until the magic string  *)
(* is there ends: once the other processes have ended, so does this one.   *)
(***************************************************************************)
RunsEnd == \A p \in Procs : <>[](Active \subseteq {p}) => []<>(proc[p].pc \in Ended)
==============================================================================
