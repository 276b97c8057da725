------------------------------- MODULE Logger -------------------------------
(***************************************************************************)
(* The log file and its rotation (src/src/utils/Logger.cpp).  write and    *)
(* set_file hold mutex_ from the test of the sink to the flush, so each is *)
(* one step; what LogMessage and write do before is private to the thread. *)
(*                                                                         *)
(* A line is its place among the lines written to the file sink, and its   *)
(* size.  The process may end and start again with the same settings: the  *)
(* lines are flushed, and stay.  Faults of the file system are               *)
(* nondeterministic: the file cannot be opened, or the directory refuses   *)
(* every removal and rename of a rotation.                                 *)
(*                                                                         *)
(* An operator whose name starts with Faulty is a mutant of the definition *)
(* that follows it.                                                        *)
(***************************************************************************)
EXTENDS Integers, Sequences, Sums

CONSTANTS
  MaxBytes,  \* the values max_bytes may have; 0 turns rotation off
  MaxFiles,  \* the values max_files may have
  LineSizes, \* sizes of lines
  MaxLines   \* bound: lines written

ASSUME LoggerAssumption ==
  /\ MaxBytes \subseteq Nat /\ MaxFiles \subseteq Nat
  /\ LineSizes \subseteq Nat \ {0} /\ MaxLines \in Nat

VARIABLES
  limits,  \* max_bytes_, max_files_
  sink,    \* file_: "closed" (lines go to std::clog), "open", or "bad": open with failbit set
  current, \* current_bytes_
  files,   \* the files there are: 0 is path, i is path.i
  lines,   \* history: lines written to the file sink
  harmed   \* history: a fault happened, or lines went elsewhere

logVars == <<limits, sink, current, files, lines, harmed>>

Bytes(file) == SumTo(Len(file), [i \in DOMAIN file |-> file[i].size])

LoggerInit ==
  /\ limits \in [bytes : MaxBytes, files : MaxFiles]
  /\ sink = "closed" /\ current = 0
  /\ files = <<>> /\ lines = 0 /\ harmed = FALSE

-----------------------------------------------------------------------------
\* The bytes that are in the file already are not counted.
FaultyExisting == 0

\* What set_file takes for the size of a file that is opened to append.
Existing == IF 0 \in DOMAIN files THEN Bytes(files[0]) ELSE 0

\* set_file with a path.  On a file that is open, ofstream::open fails and sets
\* failbit, and is_open() is still true.
SetFile ==
  \/ /\ sink = "closed" /\ sink' = "open" /\ current' = Existing
     /\ files' = IF 0 \in DOMAIN files THEN files
                 ELSE [i \in DOMAIN files \cup {0} |-> IF i = 0 THEN <<>> ELSE files[i]]
     /\ UNCHANGED harmed
  \/ /\ sink = "closed" \* the file cannot be opened
     /\ harmed' = TRUE
     /\ UNCHANGED <<sink, current, files>>
  \/ /\ sink # "closed"
     /\ sink' = "bad" /\ current' = Existing /\ harmed' = TRUE
     /\ UNCHANGED files

\* set_file with an empty path, or the end of the process.
Close == sink # "closed" /\ sink' = "closed" /\ UNCHANGED <<current, files, harmed>>

\* The loop that renames goes one file too far.
FaultyShifted ==
  [i \in {0} \cup {j + 1 : j \in DOMAIN files} |-> IF i = 0 THEN <<>> ELSE files[i - 1]]

\* The files after the oldest is removed, each path.i has become path.(i + 1), path
\* has become path.1, and path is open, empty.
Shifted ==
  [i \in {0} \cup {j + 1 : j \in {k \in DOMAIN files : k < limits.files}} |->
     IF i = 0 THEN <<>> ELSE files[i - 1]]

\* write, with rotate_if_needed.  Opening after a rotation clears failbit; if it
\* fails the line is lost, and the next ones go to std::clog.
Write(size) ==
  LET rotates == limits.bytes > 0 /\ current + size > limits.bytes
      With(fs) == [fs EXCEPT ![0] = Append(@, [number |-> lines + 1, size |-> size])]
  IN
  /\ sink # "closed" /\ lines < MaxLines
  /\ lines' = lines + 1
  /\ \/ /\ ~rotates
        /\ files' = IF sink = "bad" THEN files ELSE With(files)
        /\ current' = current + size
        /\ UNCHANGED <<sink, harmed>>
     \/ /\ rotates
        /\ files' = With(Shifted)
        /\ current' = size /\ sink' = "open"
        /\ UNCHANGED harmed
     \/ /\ rotates \* the directory refuses
        /\ files' = With([files EXCEPT ![0] = <<>>])
        /\ current' = size /\ sink' = "open" /\ harmed' = TRUE
     \/ /\ rotates \* path cannot be opened
        /\ files' = IF limits.files = 0 THEN files
                    ELSE [i \in DOMAIN Shifted \ {0} |-> Shifted[i]]
        /\ current' = size /\ sink' = "closed" /\ harmed' = TRUE

LoggerNext ==
  \/ SetFile /\ UNCHANGED <<limits, lines>>
  \/ Close /\ UNCHANGED <<limits, lines>>
  \/ (\E size \in LineSizes : Write(size)) /\ UNCHANGED limits
  \/ lines = MaxLines /\ UNCHANGED logVars

LoggerSpec == LoggerInit /\ [][LoggerNext]_logVars

-----------------------------------------------------------------------------
(* Properties.                                                             *)

\* What can be read back, from the oldest file to path.
Kept ==
  LET upto[i \in 0..limits.files] ==
        (IF i = limits.files THEN <<>> ELSE upto[i + 1])
        \o (IF i \in DOMAIN files THEN files[i] ELSE <<>>)
  IN upto[0]

LoggerTypeOK ==
  /\ limits \in [bytes : MaxBytes, files : MaxFiles]
  /\ sink \in {"closed", "open", "bad"} /\ harmed \in BOOLEAN
  /\ current \in Nat /\ lines \in 0..MaxLines
  /\ DOMAIN files \subseteq 0..limits.files

\* Rotation keeps the log (rotate_if_needed): whatever fails, the files read from
\* the oldest to the newest hold lines in the order written, none twice, and a file
\* exceeds max_bytes by no more than a line longer than that.  While nothing fails
\* they end with the last line, leave none out between two others, and the first
\* lines are missing only once max_files files were filled, over restarts too.
LogKept ==
  /\ \A i \in 1..Len(Kept) - 1 : Kept[i].number < Kept[i + 1].number
  /\ limits.bytes > 0 => \A i \in DOMAIN files :
        Bytes(files[i]) <= limits.bytes \/ Len(files[i]) = 1
  /\ ~harmed =>
       /\ \A i \in 1..Len(Kept) : Kept[i].number = lines - Len(Kept) + i
       /\ Len(Kept) < lines => limits.files \in DOMAIN files
=============================================================================
