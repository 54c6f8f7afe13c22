---------------------------------- MODULE Nvram ----------------------------------
(***************************************************************************)
(* The nvram tool (package/utils/nvram/src): several invocations of it,    *)
(* each a process, share the flash partition and the staging file          *)
(* /tmp/.nvram.  No lock is taken anywhere.  Commands that change          *)
(* variables work on the staging file, which the first of them copies from *)
(* the partition; `commit' copies it back and removes it.  A process may   *)
(* be killed between any two steps and the power may go at any time: the   *)
(* staging file is on a RAM file system and goes with it.                  *)
(*                                                                         *)
(* A writer maps the file shared, and even its parser writes: it puts a    *)
(* NUL over the '=' of an entry for as long as it takes the name.  A       *)
(* reader maps it privately and locked, which copies its pages when it is  *)
(* opened.                                                                 *)
(*                                                                         *)
(* The partition and the file are images: a header and a row of cells,     *)
(* each a tuple "name=value", the NUL that ends the list, an erased cell   *)
(* (0xFF), or a cell past the end of a short file.  Left out: the checksum *)
(* (written, and shown by `info', but no reader checks it), the four       *)
(* sdram_ parameters the header repeats, the search for the magic number,  *)
(* and the CFE boot loader, which reads the partition at boot.             *)
(***************************************************************************)
EXTENDS Naturals, Sequences, FiniteSets, FiniteSetsExt

CONSTANTS
  Proc,         \* invocations of the tool that can run at a time
  Inode,        \* files the name of the staging file can stand for
  Order,        \* the names of the variables, in the order of the hash table
  Value,        \* their values
  Oversized,    \* the values longer than the partition
  Command,      \* command lines: [write, edits, commit]
  Room,         \* the tuples that fit an image
  Half,         \* the cells a copy moves with the header in its first part
  FirstStore,   \* the variables the partition holds at first
  MaxCommands,  \* bound: commands started
  MaxFaults,    \* bound: kills, power cuts, full RAM file systems and I/O errors
  Absent, NoFile, NoImage, Nul, Erased, BeyondEof

Name == {Order[i] : i \in 1 .. Len(Order)}
Position == 1 .. Room + 1
Store == [Name -> Value \cup {Absent}]

\* A table holds a name once, and the store fits the partition at first.
ASSUME StoreAssumption ==
  /\ Room \in Nat \ {0} /\ Half \in 1 .. Room
  /\ Order \in Seq(Name) /\ \A i, j \in 1 .. Len(Order) : Order[i] = Order[j] => i = j
  /\ Oversized \subseteq Value
  /\ FirstStore \in [Name -> (Value \ Oversized) \cup {Absent}]
  /\ Cardinality({n \in Name : FirstStore[n] # Absent}) < Room
ASSUME CommandAssumption ==
  /\ Command # {} /\ MaxCommands \in Nat /\ MaxFaults \in Nat
  /\ \A c \in Command :
       /\ c.write \in BOOLEAN /\ c.commit \in BOOLEAN
       /\ DOMAIN c.edits \subseteq Name
       /\ \A n \in DOMAIN c.edits : c.edits[n] \in Value \cup {Absent}
       /\ ~ c.write => DOMAIN c.edits = {}

\* main looks at the first argument to open for writing, and at all of them to
\* save the staging file: `show commit' saves what is staged.  (What a `set' after
\* a `get' changes stays in the memory of that command: such edits are left out.)
Writes(c) == c.write \/ c.commit

-----------------------------------------------------------------------------
(* Images. *)

\* eq: its '=' is there
Tuple == [name : Name, value : Value, eq : BOOLEAN]
Cell == Tuple \cup {Nul, Erased, BeyondEof}
ASSUME CellAssumption ==
  /\ {Nul, Erased, BeyondEof} \cap Tuple = {}
  /\ Nul # Erased /\ Nul # BeyondEof /\ Erased # BeyondEof
  /\ Absent \notin Value /\ NoFile \notin Inode
\* a "name=value" pair of the list, and one in which a parser finds the '='
IsTuple(c) == c \notin {Nul, Erased, BeyondEof}
Readable(c) == IsTuple(c) /\ c.eq
\* the last cell is kept for the NUL
Cells == {c \in [Position -> Cell] : ~ IsTuple(c[Room + 1])}
\* len counts tuples: the header's len reaches the partition's size when Room
\* tuples are written
Image == [magic : BOOLEAN, len : 0 .. Room, cells : Cells]
ASSUME NoImageAssumption == NoImage \notin Image

EmptyFile == [magic |-> FALSE, len |-> 0, cells |-> [i \in Position |-> BeyondEof]]

\* the tuples a loop from the first cell meets before anything else
ListEnd(img) == Min({i \in Position : ~ IsTuple(img.cells[i])} \cup {Room + 1})
\* the list runs into an erased cell or the end of a short file: a parser finds
\* no '=' and leaves the mapping, faults, or stops there
IsHole(c) == c \in {Erased, BeyondEof}
Holed(img) == img.cells[ListEnd(img)] # Nul
Short(img) == \E i \in Position : img.cells[i] = BeyondEof

\* _nvram_rehash: the later of two tuples with one name wins, and an entry without
\* its '=' ends the list as the NUL does
StoreUpTo(img, k) ==
  [n \in Name |->
     LET at == {i \in 1 .. k : img.cells[i].name = n}
     IN  IF at = {} THEN Absent ELSE img.cells[Max(at)].value]
ParseEnd(img) == Min({i \in Position : ~ Readable(img.cells[i])} \cup {Room + 1})
StoreOf(img) == StoreUpTo(img, ParseEnd(img) - 1)

\* the names that have a value, in the order the tuples are written
Listed(s) ==
  LET First[i \in 0 .. Len(Order)] ==
        IF i = 0 THEN <<>>
        ELSE IF s[Order[i]] = Absent THEN First[i - 1]
        ELSE Append(First[i - 1], Order[i])
  IN  First[Len(Order)]

\* the image nvram_commit makes of a store that fits
ImageOf(s) ==
  [magic |-> TRUE, len |-> Len(Listed(s)),
   cells |-> [i \in Position |->
                CASE i <= Len(Listed(s)) ->
                       [name |-> Listed(s)[i], value |-> s[Listed(s)[i]], eq |-> TRUE]
                  [] i = Len(Listed(s)) + 1 -> Nul
                  [] OTHER -> Erased]]

\* nvram_commit's clearing of the data area, the tuple it writes at cell i, and
\* the NUL and the length with which it ends the list there
Cleared(img) ==
  [img EXCEPT !.magic = TRUE,
              !.cells = [i \in Position |->
                           IF img.cells[i] = BeyondEof THEN BeyondEof ELSE Erased]]
WithTuple(img, i, n, v) ==
  [img EXCEPT !.cells[i] = [name |-> n, value |-> v, eq |-> TRUE]]
Ended(img, i) == [img EXCEPT !.cells[i] = Nul, !.len = i - 1]
\* the parser's NUL over the '=' of entry i, and the '=' back in its place
WithEq(img, i, b) == [img EXCEPT !.cells[i].eq = b]
\* a '=' that is put where the list has changed: it may fall on any byte
Strayed(img) ==
  {img} \cup {[img EXCEPT !.cells[i] = Erased] :
                  i \in {j \in Position : img.cells[j] # BeyondEof}}

\* a copy goes through the page cache piece by piece
FirstPart(to, from) ==
  [from EXCEPT !.cells = [i \in Position |->
                            IF i <= Half THEN from.cells[i] ELSE to.cells[i]]]
RestPart(to, from) ==
  [to EXCEPT !.cells = [i \in Position |->
                          IF i <= Half THEN to.cells[i] ELSE from.cells[i]]]

\* do_set and do_unset over the command line: a value longer than the partition
\* is refused (-ENOMEM) and main goes on
Edited(s, c) ==
  [n \in Name |-> IF n \in DOMAIN c.edits /\ c.edits[n] \notin Oversized
                  THEN c.edits[n] ELSE s[n]]
\* what the user asked for
Asked(s, c) == [n \in Name |-> IF n \in DOMAIN c.edits THEN c.edits[n] ELSE s[n]]

-----------------------------------------------------------------------------
VARIABLES
  flash,      \* the partition
  files,      \* the contents of each inode
  staging,    \* the inode /tmp/.nvram names, or NoFile
  pc, cmd,    \* each process: where it is, and its command line
  file,       \* the file it copies to, or has mapped
  tuples,     \* its hash table
  todo,       \* names whose tuples it has still to write
  ptr,        \* the cell it writes or parses next
  buf,        \* the buffer of a copy; the pages a reader copies
  started, faults,
  \* history
  seen,       \* what a reader may be told, if every command ran alone
  may,        \* what the variables may be, if every command ran alone
  maySaved,   \* what the partition may hold, if every command ran alone
  flashTorn,  \* a write of the partition was cut short and not repeated
  trouble     \* what else happened that the code does not guard against

process == <<pc, cmd, file, tuples, todo, ptr, buf>>
history == <<seen, may, maySaved, flashTorn, trouble>>
vars == <<flash, files, staging, process, started, faults, history>>

\* a commit's msync'ed area is inconsistent, a copy is incomplete
Committing == {"tuples"}
Filling == {"fill", "fill_rest"}
Saving(p) == pc[p] = "save_rest"
InWindow(p, f) == file[p] = f /\ pc[p] \in Committing \cup Filling
\* a parser is on its way, one '=' is a NUL
Parsing == {"parse", "cut", "reparse", "recut"}
Cutting == {"cut", "recut"}
Parses(p, f) == file[p] = f /\ pc[p] \in Parsing
SomeoneIn(f, p) == \E q \in Proc \ {p} : InWindow(q, f) \/ Parses(q, f)
\* half of f is from a copy that is not done
HalfCopied(f) == \E q \in Proc : file[q] = f /\ pc[q] = "fill_rest"
\* p, in the middle of a copy, shares its file with one that writes it too, or a
\* commit begins in the middle of a copy
CopyMixed(p) ==
  \E q \in Proc \ {p} :
     /\ file[q] = file[p]
     /\ pc[q] = "fill_rest" \/ (pc[p] \in Filling /\ pc[q] \in Committing)
\* p writes cell i and what follows of its file, where a parser has still to put
\* its '=' back
OverCut(p, i) ==
  \E q \in Proc \ {p} : file[q] = file[p] /\ pc[q] \in Cutting /\ ptr[q] >= i

\* a reader, until it has printed
Reading(p) == pc[p] \in {"find_rdonly", "open_staging_rdonly", "open_flash_rdonly",
                        "read_rest", "got"}
Running(p) == pc[p] # "idle"
AtRest == \A p \in Proc : ~ Running(p)
\* inodes nothing refers to any more
Free == {f \in Inode : f # staging /\ \A p \in Proc : file[p] # f}

\* what nvram_open_rdonly would read now
Current == IF staging # NoFile THEN files[staging] ELSE flash

Init ==
  /\ flash = ImageOf(FirstStore)
  /\ files = [f \in Inode |-> EmptyFile]
  /\ staging = NoFile
  /\ pc = [p \in Proc |-> "idle"]
  /\ cmd = [p \in Proc |-> CHOOSE c \in Command : TRUE]
  /\ file = [p \in Proc |-> NoFile]
  /\ tuples = [p \in Proc |-> FirstStore]
  /\ todo = [p \in Proc |-> <<>>]
  /\ ptr = [p \in Proc |-> 1]
  /\ buf = [p \in Proc |-> NoImage]
  /\ started = 0 /\ faults = 0
  /\ seen = [p \in Proc |-> {}]
  /\ may = {FirstStore} /\ maySaved = {FirstStore}
  /\ flashTorn = FALSE /\ trouble = {}

-----------------------------------------------------------------------------
Fault == faults < MaxFaults /\ faults' = faults + 1

Goto(p, label) == pc' = [pc EXCEPT ![p] = label]

\* history: what each thing the code does not guard against can cost.  A change
\* is undone or refused; the list is left without an end; or, for the rest, a
\* variable nobody touched is lost
LosesUpdate == {"overlap", "recreated", "unlinked", "refused", "full"}
LosesEnd == {"killed_in_commit", "killed_in_copy", "no_space", "faulted", "torn_copy",
             "torn_save", "mixed_copy", "over_cut"}
Cost(what) == CASE what \in LosesUpdate -> "update"
                [] what \in LosesEnd -> "end"
                [] OTHER -> "variable"
Note(what) == trouble' = trouble \cup {Cost(w) : w \in what}
When(condition, what) == IF condition THEN {what} ELSE {}
Mixed(p) == When(SomeoneIn(file[p], p), "interleaved") \cup When(CopyMixed(p), "mixed_copy")
            \cup When(OverCut(p, 1), "over_cut")

\* the process is gone; its table goes back to what Init has, so that states
\* that differ in nothing that lives are one
Gone(p) ==
  /\ Goto(p, "idle")
  /\ file' = [file EXCEPT ![p] = NoFile]
  /\ tuples' = [tuples EXCEPT ![p] = FirstStore]
  /\ todo' = [todo EXCEPT ![p] = <<>>]
  /\ ptr' = [ptr EXCEPT ![p] = 1]
  /\ buf' = [buf EXCEPT ![p] = NoImage]
  /\ cmd' = [cmd EXCEPT ![p] = CHOOSE c \in Command : TRUE]
  /\ seen' = [seen EXCEPT ![p] = {}]

\* history: the command is over; "kept" says it took effect, "perhaps" that it
\* may have, in part or in full.  After trouble nothing is expected any more
Settle(p, effect) ==
  LET after == {Asked(s, cmd[p]) : s \in may}
      expected == CASE effect = "kept" -> after
                    [] effect = "perhaps" -> may \cup after
                    [] OTHER -> may
      saved == CASE ~ cmd[p].commit \/ effect = "none" -> maySaved
                 [] cmd[p].commit /\ effect = "kept" -> after
                 [] OTHER -> maySaved \cup expected
  IN  /\ may' = IF trouble' = {} THEN expected ELSE {}
      /\ maySaved' = IF trouble' = {} THEN saved ELSE {}

\* the process ends by itself
Exit(p, effect, what) ==
  /\ Note(what) /\ Gone(p) /\ Settle(p, effect)
  /\ UNCHANGED <<started, faults>>

\* history: the stores there may be while c runs
During(stores, c) == stores \cup {Asked(s, c) : s \in stores}

\* main: the command line is read and decides how the store is opened
Start(p) ==
  /\ pc[p] = "idle" /\ started < MaxCommands
  /\ started' = started + 1
  /\ LET writers == {q \in Proc : Running(q) /\ Writes(cmd[q])}
     IN  \E c \in Command :
           /\ cmd' = [cmd EXCEPT ![p] = c]
           /\ Goto(p, IF c.write THEN "find" ELSE "find_rdonly")
           /\ seen' = [q \in Proc |->
                CASE q = p /\ ~ c.write -> may \cup UNION {During(may, cmd[w]) : w \in writers}
                  [] q # p /\ Reading(q) -> During(seen[q] \cup may, c)
                  [] OTHER -> {}]
           /\ Note(When(Writes(c) /\ writers # {}, "overlap"))
  /\ UNCHANGED <<flash, files, staging, file, tuples, todo, ptr, buf, faults,
                 may, maySaved, flashTorn>>

-----------------------------------------------------------------------------
(* Reading: nvram_open_rdonly, nvram_open with a private mapping. *)

\* mutant: a reader goes to the partition whatever is staged
FindForReadingFlash(p) ==
  /\ pc[p] = "find_rdonly"
  /\ Goto(p, "open_flash_rdonly")
  /\ UNCHANGED <<flash, files, staging, cmd, file, tuples, todo, ptr, buf, started,
                 faults, history>>

\* nvram_find_staging
FindForReading(p) ==
  /\ pc[p] = "find_rdonly"
  /\ Goto(p, IF staging # NoFile THEN "open_staging_rdonly" ELSE "open_flash_rdonly")
  /\ UNCHANGED <<flash, files, staging, cmd, file, tuples, todo, ptr, buf, started,
                 faults, history>>

\* nvram_open(file, NVRAM_RO): a staging file that is gone is an error; the pages
\* are copied, the first of them here.  A writer may be at work on the file, and
\* the partition may be half new during a save and after one cut short: then the
\* reader may be told anything
OpenReading(p) ==
  /\ pc[p] \in {"open_staging_rdonly", "open_flash_rdonly"}
  /\ IF pc[p] = "open_staging_rdonly" /\ staging = NoFile
     THEN Exit(p, "none", {})
     ELSE LET staged == pc[p] = "open_staging_rdonly"
              beside == IF staged THEN SomeoneIn(staging, p)
                        ELSE flashTorn \/ \E q \in Proc : Saving(q)
          IN  /\ buf' = [buf EXCEPT ![p] = IF staged THEN files[staging] ELSE flash]
              /\ file' = [file EXCEPT ![p] = IF staged THEN staging ELSE NoFile]
              /\ seen' = IF beside THEN [seen EXCEPT ![p] = Store] ELSE seen
              /\ Goto(p, "read_rest")
              /\ UNCHANGED <<cmd, tuples, todo, ptr, started, faults, may, maySaved, trouble>>
  /\ UNCHANGED <<flash, files, staging, flashTorn>>

\* the other pages, which may have changed in between; then the copy is parsed,
\* whatever the length says.  A list without an end kills the reader or is cut
ReadRest(p) ==
  /\ pc[p] = "read_rest"
  /\ LET now == IF file[p] = NoFile THEN flash ELSE files[file[p]]
         img == RestPart(buf[p], now)
     IN  \/ /\ ~ img.magic \/ IsHole(img.cells[ParseEnd(img)])
            /\ Exit(p, "none", {})
         \/ /\ img.magic
            /\ tuples' = [tuples EXCEPT ![p] = StoreOf(img)]
            /\ seen' = IF now # buf[p] THEN [seen EXCEPT ![p] = Store] ELSE seen
            /\ file' = [file EXCEPT ![p] = NoFile]
            /\ buf' = [buf EXCEPT ![p] = NoImage]
            /\ Goto(p, "got")
            /\ UNCHANGED <<cmd, todo, ptr, started, faults, may, maySaved, trouble>>
  /\ UNCHANGED <<flash, files, staging, flashTorn>>

\* do_get or do_show prints; nvram_close, and staging_to_nvram if any argument
\* was "commit"
Close(p) ==
  /\ pc[p] = "got"
  /\ IF cmd[p].commit
     THEN /\ Goto(p, "save_read")
          /\ tuples' = [tuples EXCEPT ![p] = FirstStore]
          /\ seen' = [seen EXCEPT ![p] = {}]
          /\ UNCHANGED <<cmd, file, todo, ptr, buf, started, faults, may, maySaved, trouble>>
     ELSE Exit(p, "none", {})
  /\ UNCHANGED <<flash, files, staging, flashTorn>>

-----------------------------------------------------------------------------
(* Opening for writing: nvram_open_staging. *)

\* nvram_find_staging
FindStaging(p) ==
  /\ pc[p] = "find"
  /\ Goto(p, IF staging # NoFile THEN "open" ELSE "read_flash")
  /\ UNCHANGED <<flash, files, staging, cmd, file, tuples, todo, ptr, buf, started,
                 faults, history>>

\* nvram_to_staging: the partition is read in full, or nothing is done
ReadFlash(p) ==
  /\ pc[p] = "read_flash"
  /\ buf' = [buf EXCEPT ![p] = flash]
  /\ Goto(p, "create")
  /\ Note(When(flashTorn \/ \E q \in Proc : Saving(q), "torn_copy"))
  /\ UNCHANGED <<flash, files, staging, cmd, file, tuples, todo, ptr, started, faults,
                 seen, may, maySaved, flashTorn>>

\* open(O_WRONLY | O_CREAT): a file another process created meanwhile is opened
\* as it is, neither truncated nor refused
CreateStaging(p) ==
  /\ pc[p] = "create"
  /\ \E f \in Inode :
       /\ IF staging # NoFile THEN f = staging ELSE f \in Free
       /\ staging' = f
       /\ files' = [files EXCEPT ![f] = IF staging # NoFile THEN @ ELSE EmptyFile]
       /\ file' = [file EXCEPT ![p] = f]
       /\ Goto(p, "fill")
  /\ Note(When(staging # NoFile, "recreated"))
  /\ UNCHANGED <<flash, cmd, tuples, todo, ptr, buf, started, faults, seen, may,
                 maySaved, flashTorn>>

\* the write that copies the header and the first cells; its result is not
\* looked at: when the RAM file system is full the file stays short
Fill(p) ==
  /\ pc[p] = "fill"
  /\ \/ /\ files' = [files EXCEPT ![file[p]] = FirstPart(files[file[p]], buf[p])]
        /\ Goto(p, "fill_rest")
        /\ UNCHANGED <<file, buf, faults>>
     \/ /\ Fault
        /\ Goto(p, "open")
        /\ file' = [file EXCEPT ![p] = NoFile]
        /\ buf' = [buf EXCEPT ![p] = NoImage]
        /\ UNCHANGED files
  /\ Note(Mixed(p) \cup When(pc'[p] = "open", "no_space"))
  /\ UNCHANGED <<flash, staging, cmd, tuples, todo, ptr, started, seen, may,
                 maySaved, flashTorn>>

\* the rest of that write; then fsync, close
FillRest(p) ==
  /\ pc[p] = "fill_rest"
  /\ \E full \in BOOLEAN :
       /\ IF full THEN Fault ELSE UNCHANGED faults
       /\ files' = [files EXCEPT ![file[p]] = IF full THEN @ ELSE RestPart(files[file[p]], buf[p])]
       /\ Note(Mixed(p) \cup When(full, "no_space"))
  /\ Goto(p, "open")
  /\ file' = [file EXCEPT ![p] = NoFile]
  /\ buf' = [buf EXCEPT ![p] = NoImage]
  /\ UNCHANGED <<flash, staging, cmd, tuples, todo, ptr, started, seen, may,
                 maySaved, flashTorn>>

\* nvram_open(NVRAM_STAGING, NVRAM_RW).  A full image (len = Room) is refused: len
\* must be below the size
OpenStaging(p) ==
  /\ pc[p] = "open"
  /\ IF staging = NoFile \/ ~ files[staging].magic \/ files[staging].len >= Room
     THEN Exit(p, "none", When(staging # NoFile /\ files[staging].magic, "full"))
     ELSE /\ file' = [file EXCEPT ![p] = staging]
          /\ tuples' = [tuples EXCEPT ![p] = [n \in Name |-> Absent]]
          /\ ptr' = [ptr EXCEPT ![p] = 1]
          /\ Goto(p, "parse")
          /\ Note(When(SomeoneIn(staging, p), "interleaved")
                  \cup When(HalfCopied(staging), "torn_open"))
          /\ UNCHANGED <<cmd, todo, buf, started, faults, seen, may, maySaved>>
  /\ UNCHANGED <<flash, files, staging, flashTorn>>

-----------------------------------------------------------------------------
(* _nvram_rehash, on the shared mapping: to open the store ("parse"), and    *)
(* once more at the end of a commit ("reparse"), when the table it makes is  *)
(* not used any more.                                                        *)

Parsed(p) == files[file[p]].cells[ptr[p]]

\* a NUL over the '=', and the tuple goes into the table.  (Two parsers that both
\* find the '=' before either is here take a wrong name, no more; they have
\* "interleaved".)
CutEntry(p) ==
  /\ pc[p] \in {"parse", "reparse"} /\ Readable(Parsed(p))
  /\ files' = [files EXCEPT ![file[p]] = WithEq(@, ptr[p], FALSE)]
  /\ IF pc[p] = "parse"
     THEN /\ tuples' = [tuples EXCEPT ![p][Parsed(p).name] = Parsed(p).value]
          /\ Goto(p, "cut")
     ELSE UNCHANGED tuples /\ Goto(p, "recut")
  /\ UNCHANGED <<flash, staging, cmd, file, todo, ptr, buf, started, faults, history>>

\* mutant: the '=' is not put back
RestoreForgotten(p) ==
  /\ pc[p] \in Cutting
  /\ ptr' = [ptr EXCEPT ![p] = @ + 1]
  /\ Goto(p, IF pc[p] = "cut" THEN "parse" ELSE "reparse")
  /\ UNCHANGED <<flash, files, staging, cmd, file, tuples, todo, buf, started, faults, history>>

\* the '=' goes back to its address, whatever is there by now
Restore(p) ==
  /\ pc[p] \in Cutting
  /\ \E img \in IF IsTuple(Parsed(p)) /\ ~ Readable(Parsed(p))
               THEN {WithEq(files[file[p]], ptr[p], TRUE)} ELSE Strayed(files[file[p]]) :
        files' = [files EXCEPT ![file[p]] = img]
  /\ ptr' = [ptr EXCEPT ![p] = @ + 1]
  /\ Goto(p, IF pc[p] = "cut" THEN "parse" ELSE "reparse")
  /\ UNCHANGED <<flash, staging, cmd, file, tuples, todo, buf, started, faults, history>>

\* the list is parsed; the edits of the command line, in memory only
EndParse(p) ==
  /\ pc[p] = "parse" /\ ~ Readable(Parsed(p))
  /\ \/ IsHole(Parsed(p)) /\ Exit(p, "none", {})
     \/ /\ tuples' = [tuples EXCEPT ![p] = Edited(@, cmd[p])]
        /\ ptr' = [ptr EXCEPT ![p] = 1]
        /\ Goto(p, "commit")
        /\ Note(When(IsHole(Parsed(p)), "torn_open")
                \cup When(Edited(tuples[p], cmd[p]) # Asked(tuples[p], cmd[p]), "refused"))
        /\ UNCHANGED <<cmd, file, todo, buf, started, faults, seen, may, maySaved>>
  /\ UNCHANGED <<flash, files, staging, flashTorn>>

\* mutant: every command goes on to write the partition
EndReparseSaves(p) ==
  /\ pc[p] = "reparse" /\ ~ Readable(Parsed(p))
  /\ Goto(p, "save_read")
  /\ file' = [file EXCEPT ![p] = NoFile]
  /\ ptr' = [ptr EXCEPT ![p] = 1]
  /\ UNCHANGED <<flash, files, staging, cmd, tuples, todo, buf, started, faults, history>>

\* nvram_commit is done: nvram_close
EndReparse(p) ==
  /\ pc[p] = "reparse" /\ ~ Readable(Parsed(p))
  /\ \/ /\ cmd[p].commit
        /\ Goto(p, "save_read")
        /\ file' = [file EXCEPT ![p] = NoFile]
        /\ ptr' = [ptr EXCEPT ![p] = 1]
        /\ UNCHANGED <<cmd, tuples, todo, buf, started, faults, seen, may, maySaved, trouble>>
     \/ ~ cmd[p].commit /\ Exit(p, "kept", {})
     \/ IsHole(Parsed(p)) /\ Exit(p, "perhaps", {})
  /\ UNCHANGED <<flash, files, staging, flashTorn>>

-----------------------------------------------------------------------------
(* nvram_commit, on the shared mapping. *)

\* the header is made again and the data area cleared; on a short file the
\* store past its end kills the process
Clear(p) ==
  /\ pc[p] = "commit"
  /\ LET f == file[p]
     IN  /\ files' = [files EXCEPT ![f] = Cleared(files[f])]
         /\ IF Short(files[f])
            THEN Exit(p, "none", Mixed(p) \cup {"faulted"})
            ELSE /\ todo' = [todo EXCEPT ![p] = Listed(tuples[p])]
                 /\ ptr' = [ptr EXCEPT ![p] = 1]
                 /\ Goto(p, "tuples")
                 /\ Note(Mixed(p))
                 /\ UNCHANGED <<cmd, file, tuples, buf, started, faults, seen, may,
                                maySaved>>
  /\ UNCHANGED <<flash, staging, flashTorn>>

\* mutant: the space for the NUL at the end is not kept
WriteTupleToEnd(p) ==
  /\ pc[p] = "tuples" /\ todo[p] # <<>>
  /\ todo' = [todo EXCEPT ![p] = Tail(@)]
  /\ LET f == file[p]
         n == Head(todo[p])
     IN  IF ptr[p] <= Room + 1
         THEN /\ files' = [files EXCEPT ![f] = WithTuple(files[f], ptr[p], n, tuples[p][n])]
              /\ ptr' = [ptr EXCEPT ![p] = @ + 1]
              /\ Note(When(OverCut(p, ptr[p]), "over_cut"))
         ELSE Note({"dropped"}) /\ UNCHANGED <<files, ptr>>
  /\ UNCHANGED <<flash, staging, pc, cmd, file, tuples, buf, started, faults, seen,
                 may, maySaved, flashTorn>>

\* one tuple; one that does not fit is left out, and nobody is told
WriteTuple(p) ==
  /\ pc[p] = "tuples" /\ todo[p] # <<>>
  /\ todo' = [todo EXCEPT ![p] = Tail(@)]
  /\ LET f == file[p]
         n == Head(todo[p])
     IN  IF ptr[p] <= Room
         THEN /\ files' = [files EXCEPT ![f] = WithTuple(files[f], ptr[p], n, tuples[p][n])]
              /\ ptr' = [ptr EXCEPT ![p] = @ + 1]
              /\ Note(When(OverCut(p, ptr[p]), "over_cut"))
         ELSE Note({"dropped"}) /\ UNCHANGED <<files, ptr>>
  /\ UNCHANGED <<flash, staging, pc, cmd, file, tuples, buf, started, faults, seen,
                 may, maySaved, flashTorn>>

\* mutant: the NUL that ends the list is put one cell too far
EndListLate(p) ==
  /\ pc[p] = "tuples" /\ todo[p] = <<>>
  /\ files' = [files EXCEPT ![file[p]] =
                 [@ EXCEPT !.cells[IF ptr[p] > Room THEN ptr[p] ELSE ptr[p] + 1] = Nul,
                           !.len = ptr[p] - 1]]
  /\ ptr' = [ptr EXCEPT ![p] = 1]
  /\ Goto(p, "reparse")
  /\ Note(When(file[p] # staging, "unlinked") \cup When(OverCut(p, ptr[p]), "over_cut"))
  /\ UNCHANGED <<flash, staging, cmd, file, tuples, todo, buf, started, faults, seen,
                 may, maySaved, flashTorn>>

\* the NUL that ends the list, the length and the checksum; msync
EndList(p) ==
  /\ pc[p] = "tuples" /\ todo[p] = <<>>
  /\ files' = [files EXCEPT ![file[p]] = Ended(files[file[p]], ptr[p])]
  /\ ptr' = [ptr EXCEPT ![p] = 1]
  /\ Goto(p, "reparse")
  /\ Note(When(file[p] # staging, "unlinked") \cup When(OverCut(p, ptr[p]), "over_cut"))
  /\ UNCHANGED <<flash, staging, cmd, file, tuples, todo, buf, started, faults, seen,
                 may, maySaved, flashTorn>>

-----------------------------------------------------------------------------
(* staging_to_nvram. *)

\* mutant: the name is removed before the partition is written
ReadStagingUnlinks(p) ==
  /\ pc[p] = "save_read"
  /\ IF staging = NoFile \/ Short(files[staging])
     THEN Exit(p, "perhaps", {})
     ELSE /\ buf' = [buf EXCEPT ![p] = files[staging]]
          /\ Goto(p, "save")
          /\ Note(When(SomeoneIn(staging, p), "torn_save"))
          /\ UNCHANGED <<cmd, file, tuples, todo, ptr, started, faults, seen, may, maySaved>>
  /\ staging' = NoFile
  /\ UNCHANGED <<flash, files, flashTorn>>

\* the file is opened by name again and must give the whole partition's size
ReadStaging(p) ==
  /\ pc[p] = "save_read"
  /\ IF staging = NoFile \/ Short(files[staging])
     THEN Exit(p, "perhaps", {})
     ELSE /\ buf' = [buf EXCEPT ![p] = files[staging]]
          /\ Goto(p, "save")
          /\ Note(When(SomeoneIn(staging, p), "torn_save"))
          /\ UNCHANGED <<cmd, file, tuples, todo, ptr, started, faults, seen, may, maySaved>>
  /\ UNCHANGED <<flash, files, staging, flashTorn>>

\* the write of the partition, its first part
Save(p) ==
  /\ pc[p] = "save"
  /\ flash' = FirstPart(flash, buf[p])
  /\ Goto(p, "save_rest")
  /\ Note(When(\E q \in Proc \ {p} : Saving(q), "torn_save"))
  /\ UNCHANGED <<files, staging, cmd, file, tuples, todo, ptr, buf, started, faults,
                 seen, may, maySaved, flashTorn>>

\* its rest; the result of the write is not looked at, so an I/O error in the
\* middle is taken for success
SaveRest(p) ==
  /\ pc[p] = "save_rest"
  /\ \E io_error \in BOOLEAN :
       /\ IF io_error THEN Fault ELSE UNCHANGED faults
       /\ flash' = IF io_error THEN flash ELSE RestPart(flash, buf[p])
       /\ flashTorn' = io_error
       /\ Note(When(io_error, "io_error"))
  /\ Goto(p, "unlink")
  /\ UNCHANGED <<files, staging, cmd, file, tuples, todo, ptr, buf, started,
                 seen, may, maySaved>>

\* unlink by name: whatever file has the name now; its contents go with it unless
\* another process has it open
Unlink(p) ==
  /\ pc[p] = "unlink"
  /\ staging' = NoFile
  /\ files' = [f \in Inode |-> IF f = staging /\ \A q \in Proc : file[q] # f
                              THEN EmptyFile ELSE files[f]]
  /\ Exit(p, IF staging = NoFile THEN "perhaps" ELSE "kept",
          When(flashTorn, "torn_unbacked"))
  /\ UNCHANGED <<flash, flashTorn>>

-----------------------------------------------------------------------------
(* What may befall a process. *)

\* killed between two steps, by a signal or for want of memory
Kill(p) ==
  /\ Running(p) /\ Fault
  /\ Note(When(pc[p] \in Committing, "killed_in_commit")
          \cup When(pc[p] \in Filling, "killed_in_copy")
          \cup When(pc[p] \in Cutting, "killed_in_rehash")
          \cup When(Saving(p) /\ staging = NoFile, "torn_unbacked"))
  /\ Gone(p) /\ Settle(p, "perhaps")
  /\ flashTorn' = (flashTorn \/ Saving(p))
  /\ UNCHANGED <<flash, files, staging, started>>

\* the power goes: what was not in the partition is lost
PowerLoss ==
  /\ Fault
  /\ ~ AtRest \/ staging # NoFile       \* otherwise nothing is lost
  /\ flashTorn' = (flashTorn \/ \E p \in Proc : Saving(p))
  /\ Note(When(flashTorn', "torn_unbacked"))
  /\ pc' = [p \in Proc |-> "idle"]
  /\ cmd' = [p \in Proc |-> CHOOSE c \in Command : TRUE]
  /\ file' = [p \in Proc |-> NoFile]
  /\ tuples' = [p \in Proc |-> FirstStore]
  /\ todo' = [p \in Proc |-> <<>>]
  /\ ptr' = [p \in Proc |-> 1]
  /\ buf' = [p \in Proc |-> NoImage]
  /\ files' = [f \in Inode |-> EmptyFile]
  /\ staging' = NoFile
  /\ LET committing == {p \in Proc : cmd[p].commit}
         perhaps == maySaved \cup {Asked(s, cmd[p]) : s \in may, p \in committing}
                    \cup (IF committing = {} THEN {} ELSE may)
         known == IF trouble' = {} THEN perhaps ELSE {}
     IN  may' = known /\ maySaved' = known
  /\ seen' = [p \in Proc |-> {}]
  /\ UNCHANGED <<flash, started>>

-----------------------------------------------------------------------------
Step(p) ==
  \/ Start(p) \/ FindForReading(p) \/ OpenReading(p) \/ ReadRest(p) \/ Close(p)
  \/ FindStaging(p) \/ ReadFlash(p) \/ CreateStaging(p) \/ Fill(p) \/ FillRest(p)
  \/ OpenStaging(p) \/ CutEntry(p) \/ Restore(p) \/ EndParse(p) \/ EndReparse(p)
  \/ Clear(p) \/ WriteTuple(p) \/ EndList(p)
  \/ ReadStaging(p) \/ Save(p) \/ SaveRest(p) \/ Unlink(p) \/ Kill(p)

Next == PowerLoss \/ \E p \in Proc : Step(p)
Spec == Init /\ [][Next]_vars

-----------------------------------------------------------------------------
TypeOK ==
  /\ flash \in Image /\ files \in [Inode -> Image]
  /\ staging \in Inode \cup {NoFile}
  /\ cmd \in [Proc -> Command]
  /\ file \in [Proc -> Inode \cup {NoFile}]
  /\ tuples \in [Proc -> Store]
  /\ ptr \in [Proc -> Position]
  /\ \A p \in Proc : /\ buf[p] \in Image \cup {NoImage}
                     /\ InWindow(p, file[p]) \/ Parses(p, file[p]) => file[p] # NoFile
  /\ may \subseteq Store /\ maySaved \subseteq Store

Quiet == \A p \in Proc : ~ Running(p) \/ ~ Writes(cmd[p])

\* What a user finds is what the commands made of it: as long as writers run one
\* at a time, each command takes effect in full or not at all, whether it
\* succeeds, fails, is killed, also in the middle of the write of the partition
\* (the staging file is still there), or the power goes before or after that
\* write.  Not if it is killed in the middle of a copy or of a commit, nor while
\* its parser has a NUL over a '=': what follows in the list is then lost
ViewIsExpected ==
  Quiet /\ trouble = {} => ~ Holed(Current) /\ StoreOf(Current) \in may

\* The partition never holds a change nobody committed, nor part of a commit,
\* except while it is written and after a write that was cut short.  And whatever
\* went wrong before, a file that stayed short for want of space never gets there
SavedIsExpected ==
  /\ (\A p \in Proc : pc[p] \notin {"save_rest", "unlink"}) /\ ~ flashTorn /\ trouble = {}
       => ~ Holed(flash) /\ StoreOf(flash) \in maySaved
  /\ ~ Short(flash)

\* A reader is told what the variables were at some time while it ran, unless what
\* it maps is being written (even by a parser) when it copies the first pages, or
\* changes before it has the rest
ReadIsRecent ==
  \A p \in Proc : pc[p] = "got" /\ trouble = {} => tuples[p] \in seen[p]

\* Even writers whose commits overlap leave a list with an end once none is in its
\* commit or copy: the last to clear the area ends its own list, and whoever writes
\* over that end goes on to end his.  Only a copy of the partition that overlaps
\* with a commit, or with another copy, may tear the end off
StagingHasEnd ==
  staging # NoFile /\ (\A p \in Proc : ~ InWindow(p, staging)) /\ "end" \notin trouble
    => ~ Holed(files[staging])

\* A variable no command names is not lost to a lost update: two writers that
\* neither parse, commit nor copy the file at the same time, nor are killed while
\* they do (in a parse, while a '=' is a NUL), may undo each other's changes, but
\* keep the rest
BystandersKept ==
  Quiet /\ trouble \subseteq {"update"}
    => \A n \in Name : (\A c \in Command : n \notin DOMAIN c.edits)
                         => StoreOf(Current)[n] = FirstStore[n]

==================================================================================
