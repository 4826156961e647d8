----------------------------- MODULE TortureRun -----------------------------
(***************************************************************************)
(* smbtatorture (src/torture/smbtatorture.c): one run that is recorded and *)
(* may be interrupted, and the replay of what got into the record file.    *)
(* A run draws the sizes of its files, makes every file on both shares,    *)
(* and copies files between the shares or just reads them.                 *)
(*                                                                         *)
(* The record file is a sequence of items, a label and a value.  It is     *)
(* written through a buffer, so that a run that is interrupted leaves any  *)
(* beginning of what it recorded.  A replay draws everything again and     *)
(* replaces what it has drawn with the items it finds.                     *)
(*                                                                         *)
(* A file is its size.  The shares and libsmbclient are external: a share  *)
(* may refuse to let a file be opened, at any time; what is opened can be  *)
(* read and written.  The number of the descriptor closed last is given    *)
(* out again by the next open, which is how the data of the second file    *)
(* get to it: they are written to the descriptor of the first.             *)
(***************************************************************************)
EXTENDS Integers, Sequences, FiniteSets

CONSTANTS Totals,    \* the total sizes one may ask for
          Number,    \* files to make
          Copies,    \* copies to record
          Waits,     \* seconds to wait after a copy
          FileNames, \* the file names that are drawn from
          Block,     \* 40000 in the code
          Absent     \* in the place of a size: there is no such file

ASSUME RunAssumption ==
  /\ Number \in Nat \ {0} /\ Copies \in Nat \ {0} /\ Block \in Nat \ {0}
  /\ Totals \subseteq Nat /\ \A s \in Totals : s >= Number
  /\ Waits \subseteq Nat /\ FileNames \subseteq Nat
  /\ Absent \notin Nat

Labels == {"number_of_files", "file_size", "Filename", "copy", "number",
           "file", "just_read", "wait"}

VARIABLES
  mode,       \* "record", then "replay"
  pc,         \* "sizes", "files", "copies", "wait"; "done"; "failed" by an
              \* exit(1), which writes the buffers out, "crashed" otherwise
  total,      \* config.size as it was asked for
  left,       \* config.size
  sizes,      \* list
  names,      \* fnamelist
  shares,     \* the size of every file on the two shares
  refused,    \* history: share and name of what was not written when it was made
  tape,       \* the record file
  pos,        \* the next item of it to be read
  copy,       \* config.copy, 0 when there is no end
  trace       \* what was done: file, whether just read, seconds waited

files == <<total, left, sizes, names, shares, refused>>
runVars == <<mode, pc, files, tape, pos, copy, trace>>

RunInit ==
  /\ mode = "record" /\ pc = "sizes"
  /\ total \in Totals /\ left = total
  /\ sizes = <<>> /\ names = <<>>
  /\ shares = [s \in 1 .. 2 |-> [n \in FileNames |-> Absent]]
  /\ refused = {}
  /\ tape = <<>> /\ pos = 1
  /\ copy = Copies
  /\ trace = <<>>

Replay == mode = "replay"

----------------------------------------------------------------------------
(* The record file *)

Item(label, value) == [label |-> label, value |-> value]

\* fprintf, when recording.
Recorded(items) == IF mode = "record" THEN tape \o items ELSE tape

\* Mutant: a replay does not read whether a file is just read.
FoundButRead(p, label) ==
  Replay /\ p <= Len(tape) /\ tape[p].label = label /\ label # "just_read"

\* fscanf, when replaying: what was drawn stays if the item is not there.
Found(p, label) == Replay /\ p <= Len(tape) /\ tape[p].label = label
Loaded(p, label, drawn) == IF Found(p, label) THEN tape[p].value ELSE drawn
After(p, label) == IF Found(p, label) THEN p + 1 ELSE p
----------------------------------------------------------------------------
(* generate_files *)

\* Mutant: what is drawn is not taken off.
DrawSizeOnly ==
  /\ pc = "sizes" /\ Len(sizes) < Number
  /\ LET n == left - (Number - Len(sizes))
     IN  \/ /\ n = 0
            /\ pc' = "crashed"
            /\ UNCHANGED <<left, sizes>>
         \/ \E s \in 0 .. n - 1 :
              /\ sizes' = Append(sizes, s)
              /\ UNCHANGED <<pc, left>>
  /\ UNCHANGED <<mode, total, names, shares, refused, tape, pos, copy, trace>>

\* rand() % (config.size - (config.number - i)), which is a division by zero
\* when there is a byte for every file and no more; what is drawn is taken off.
DrawSize ==
  /\ pc = "sizes" /\ Len(sizes) < Number
  /\ LET n == left - (Number - Len(sizes))
     IN  \/ /\ n = 0
            /\ pc' = "crashed"
            /\ UNCHANGED <<left, sizes>>
         \/ \E s \in 0 .. n - 1 :
              /\ sizes' = Append(sizes, s)
              /\ left' = left - s
              /\ UNCHANGED pc
  /\ UNCHANGED <<mode, total, names, shares, refused, tape, pos, copy, trace>>

\* The last file gets what is left (its own draw is lost), and the sizes are
\* recorded or loaded.
StoreSizes ==
  LET sized == [sizes EXCEPT ![Number] = left]
      first == After(pos, "number_of_files")
  IN  /\ pc = "sizes" /\ Len(sizes) = Number
      /\ sizes' = [i \in 1 .. Number |-> Loaded(first + i - 1, "file_size", sized[i])]
      /\ tape' = Recorded(<<Item("number_of_files", Number)>> \o
                          [i \in 1 .. Number |-> Item("file_size", sized[i])])
      /\ pos' = first + Cardinality({i \in 1 .. Number : Found(first + i - 1, "file_size")})
      /\ pc' = "files"
      /\ UNCHANGED <<mode, total, left, names, shares, refused, copy, trace>>

\* Mutant: what is left after the last full block is not written.
WrittenBlocks(bytes) == bytes - (bytes % Block)

\* What the loops write of a size: full blocks while more than a block is
\* left, then the rest if that is less than a block.  If it is a whole block,
\* nothing.
Written(bytes) ==
  IF bytes > 0 /\ bytes % Block = 0 THEN bytes - Block ELSE bytes

\* A file is made on both shares.  When the first does not let it be opened
\* the program only says so, and the file on the second is empty: the writes
\* go to the descriptor of the first.  When the second does not, it exits.
MakeFile(name) ==
  LET bytes == Written(sizes[Len(names) + 1])
  IN  /\ names' = Append(names, name)
      /\ tape' = Recorded(<<Item("Filename", name)>>)
      /\ pos' = After(pos, "Filename")
      /\ \E open \in SUBSET (1 .. 2) :
           /\ shares' = [s \in 1 .. 2 |->
                IF s \notin open THEN shares[s]
                ELSE [shares[s] EXCEPT ![name] = IF 1 \in open THEN bytes ELSE 0]]
           /\ refused' = {r \in refused : r[2] # name} \cup
                {<<s, name>> : s \in {t \in 1 .. 2 : 1 \notin open \/ t \notin open}}
           /\ pc' = IF 2 \in open THEN pc ELSE "failed"

\* One turn of the loop; in a replay that has no name left, strlen(NULL).
GenerateFile ==
  /\ pc = "files" /\ Len(names) < Number
  /\ \/ /\ Replay /\ ~Found(pos, "Filename")
        /\ pc' = "crashed"
        /\ UNCHANGED <<names, shares, refused, tape, pos>>
     \/ /\ ~Replay \/ Found(pos, "Filename")
        /\ \E drawn \in FileNames : MakeFile(Loaded(pos, "Filename", drawn))
  /\ UNCHANGED <<mode, total, left, sizes, copy, trace>>
----------------------------------------------------------------------------
(* main *)

\* The number of copies, and of files once more.
StartCopies ==
  /\ pc = "files" /\ Len(names) = Number
  /\ copy' = Loaded(pos, "copy", copy)
  /\ tape' = Recorded(<<Item("copy", copy), Item("number", Number)>>)
  /\ pos' = After(After(pos, "copy"), "number")
  /\ pc' = "copies"
  /\ UNCHANGED <<mode, files, trace>>

\* The loop of copy: what can be read is written, unless it is just read.
Copied(name, from, read) ==
  IF read = 1 THEN shares
  ELSE [shares EXCEPT ![3 - from][name] = shares[from][name]]

\* One call of copy up to its sleep.  The direction is drawn, and neither
\* recorded nor loaded.  It exits when the source is not there, or a share
\* does not let the source or the target be opened, with its items recorded.
\* An endless run has no trace beyond Copies.
Copy ==
  /\ pc = "copies"
  /\ copy = 0 \/ Len(trace) < copy
  /\ \E drawn \in 1 .. Number, from \in 1 .. 2, just \in 0 .. 1 :
       LET file == Loaded(pos, "file", drawn)
           p == After(pos, "file")
           read == Loaded(p, "just_read", just)
           name == names[file]
       IN  /\ tape' = Recorded(<<Item("file", file), Item("just_read", read)>>)
           /\ pos' = After(p, "just_read")
           /\ trace' = IF Len(trace) = Copies THEN trace
                       ELSE Append(trace, [file |-> file, read |-> read, wait |-> 0])
           /\ \/ /\ pc' = "failed"
                 /\ UNCHANGED shares
              \/ /\ shares[from][name] # Absent
                 /\ pc' = "wait"
                 /\ shares' = Copied(name, from, read)
  /\ UNCHANGED <<mode, total, left, sizes, names, refused, copy>>

\* The seconds to wait are drawn, recorded or loaded at the end of copy.
Wait ==
  /\ pc = "wait"
  /\ \E drawn \in Waits :
       LET wait == Loaded(pos, "wait", drawn)
       IN  /\ tape' = Recorded(<<Item("wait", wait)>>)
           /\ pos' = After(pos, "wait")
           /\ trace' = IF Len(trace) = Copies /\ trace[Copies].wait # 0 THEN trace
                       ELSE [trace EXCEPT ![Len(trace)].wait = wait]
  /\ pc' = "copies"
  /\ UNCHANGED <<mode, files, copy>>

Finish ==
  /\ pc = "copies" /\ copy # 0 /\ Len(trace) = copy
  /\ pc' = "done"
  /\ UNCHANGED <<mode, files, tape, pos, copy, trace>>

\* The recorded run is over, at its end or before: what is in the file is a
\* beginning of what was recorded, all of it if the run came to its end or to
\* an exit.  It is replayed on empty shares, with the default of endless
\* copying.
Rerun ==
  /\ mode = "record"
  /\ mode' = "replay" /\ pc' = "sizes"
  /\ \E n \in IF pc \in {"done", "failed"} THEN {Len(tape)} ELSE 0 .. Len(tape) :
       tape' = SubSeq(tape, 1, n)
  /\ trace' = <<>>
  /\ left' = total /\ sizes' = <<>> /\ names' = <<>>
  /\ shares' = [s \in 1 .. 2 |-> [n \in FileNames |-> Absent]]
  /\ refused' = {}
  /\ pos' = 1 /\ copy' = 0
  /\ UNCHANGED total
----------------------------------------------------------------------------
Step == DrawSize \/ StoreSizes \/ GenerateFile \/ StartCopies \/ Copy \/ Wait \/ Finish
RunNext == Step \/ Rerun
RunSpec == RunInit /\ [][RunNext]_runVars
----------------------------------------------------------------------------
Done == [file : 1 .. Number, read : 0 .. 1, wait : Waits \cup {0}]

RunTypeOK ==
  /\ mode \in {"record", "replay"}
  /\ pc \in {"sizes", "files", "copies", "wait", "done", "failed", "crashed"}
  /\ total \in Totals /\ left \in 0 .. total
  /\ sizes \in Seq(0 .. total) /\ Len(sizes) <= Number
  /\ names \in Seq(FileNames) /\ Len(names) <= Number
  /\ shares \in [1 .. 2 -> [FileNames -> {Absent} \cup 0 .. total]]
  /\ refused \subseteq (1 .. 2) \X FileNames
  /\ tape \in Seq([label : Labels, value : Nat])
  /\ pos \in 1 .. Len(tape) + 1
  /\ copy \in {0, Copies}
  /\ trace \in Seq(Done)

\* The sizes can be laid one after another in n bytes.
Fit(list, n) ==
  \E sum \in [0 .. Len(list) -> 0 .. n] :
    sum[0] = 0 /\ \A i \in 1 .. Len(list) : sum[i] = sum[i - 1] + list[i]

(***************************************************************************)
(* "size of all files" (the help text of -s): the files are never larger   *)
(* together than what was asked for, in a replay neither, unless the       *)
(* recording was interrupted among its sizes; and unless there is a byte   *)
(* for every file and no more, generate_files gets through its draws.      *)
(***************************************************************************)
SizesFit ==
  /\ (~Replay \/ Len(tape) \notin 2 .. Number) => Fit(sizes, total)
  /\ pc = "crashed" /\ Len(sizes) < Number => total = Number

\* No file was made under the name of the i-th after it.
MadeLast(i) == \A j \in DOMAIN names : names[j] = names[i] => j <= i

\* All that was drawn, or all but the last block of it.
HasSize(bytes, drawn) ==
  bytes = drawn \/ (drawn % Block = 0 /\ bytes = drawn - Block)

(***************************************************************************)
(* However files are copied between the shares, a file has the size that   *)
(* was drawn for the last file of its name, on both of them, although the  *)
(* second is written through the descriptor of the first; or a block less  *)
(* when that is a multiple of the block.  The exceptions are a file that   *)
(* the first share did not let open when it was made, on both shares, and  *)
(* one that the second did not let open, on the second: there the program  *)
(* ends.                                                                   *)
(***************************************************************************)
FilesHaveTheirSize ==
  \A i \in DOMAIN names :
    MadeLast(i) => \A s \in 1 .. 2 :
      <<s, names[i]>> \notin refused => HasSize(shares[s][names[i]], sizes[i])

\* Where the record file has the parts of the k-th copy.
OnTape(k, part) == 2 * Number + 3 + 3 * (k - 1) + part
Agree(k, part, value) ==
  OnTape(k, part) <= Len(tape) => tape[OnTape(k, part)].value = value

(***************************************************************************)
(* What a run that is recorded does is what is in the record file, and     *)
(* what a replay does is what it finds there, copy by copy: the file,      *)
(* whether it is just read, how long is waited.  A part whose item did not *)
(* get into the file is free, and nothing before it.  A replay makes as    *)
(* many copies as were asked for, when the recording got as far as their   *)
(* number, and crashes for want of a file name only when the recording was *)
(* interrupted before its copies.                                          *)
(***************************************************************************)
CopiesAreOnTape ==
  \A k \in DOMAIN trace :
    /\ Agree(k, 1, trace[k].file)
    /\ Agree(k, 2, trace[k].read)
    /\ trace[k].wait # 0 => Agree(k, 3, trace[k].wait)

ReplayIsComplete ==
  Replay =>
    /\ pc = "crashed" /\ Len(sizes) = Number /\ Len(names) < Number =>
         Len(tape) <= 2 * Number
    /\ pc = "done" => Len(trace) = Copies /\ Len(tape) >= 2 * Number + 2

TapeIsFollowed == CopiesAreOnTape /\ ReplayIsComplete
=============================================================================
